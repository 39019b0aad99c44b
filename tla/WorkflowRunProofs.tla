--------------------------- MODULE WorkflowRunProofs ---------------------------
(* Proofs about WorkflowRun, for any plans, and about its steps in         *)
(* RunDisplay; and about OpenCodeSession, an adapter that the tasks of a   *)
(* run call, for any number of calls.                                      *)
EXTENDS RunDisplay, OpenCodeSession, FiniteSetTheorems, SequenceTheorems, WellFoundedInduction,
        TLAPS

-----------------------------------------------------------------------------
(* The layers of a plan. *)

(* A set of numbers that is not empty has a least element.                 *)
LEMMA LeastNumber ==
    ASSUME NEW S \in SUBSET Nat, S # {}
    PROVE  \E x \in S : \A y \in S : x <= y
<1>1. IsWellFoundedOn(OpToRel(<, Nat), Nat)
  BY NatLessThanWellFounded
<1>2. PICK x \in S : \A y \in S : ~(<<y, x>> \in OpToRel(<, Nat))
  BY <1>1, WFMin
<1>3. \A y \in S : <<y, x>> \in OpToRel(<, Nat) <=> y < x
  BY DEF OpToRel
<1>4. \A y \in S : ~(y < x)
  BY <1>2, <1>3, Zenon
<1> QED BY <1>4

(* Max of numbers that have a bound.                                       *)
LEMMA MaxFacts ==
    ASSUME NEW S \in SUBSET Nat, S # {}, NEW b \in Nat, \A x \in S : x <= b
    PROVE  Max(S) \in S /\ \A y \in S : y <= Max(S)
<1> DEFINE Gaps == {b - x : x \in S}
<1>1. \A x \in S : b - x \in Nat
  OBVIOUS
<1>2. Gaps \in SUBSET Nat /\ Gaps # {}
  BY <1>1, Zenon
<1>3. PICK g \in Gaps : \A h \in Gaps : g <= h
  BY <1>2, LeastNumber
<1>4. PICK x \in S : g = b - x
  BY <1>3
<1>5. \A y \in S : x >= y
  BY <1>3, <1>4
<1> QED BY <1>5 DEF Max

(* The rows of a table of layers for the nodes whose rank is below k.      *)
IsTable(p, rank, k, f) ==
    LET Low == {n \in DOMAIN p.kind : rank[n] < k}
    IN  /\ f \in [Low -> Nat]
        /\ \A n \in Low : f[n] <= rank[n]
        /\ \A n \in Low : f[n] = IF p.deps[n] = {} THEN 0 ELSE 1 + Max({f[d] : d \in p.deps[n]})

(* The table grows by one rank.                                            *)
LEMMA TableGrows ==
    ASSUME NEW p \in Plans, NEW rank \in [DOMAIN p.kind -> Nat],
           \A n \in DOMAIN p.kind : \A d \in p.deps[n] : rank[d] < rank[n],
           NEW k \in Nat, NEW f, IsTable(p, rank, k, f)
    PROVE  \E g : IsTable(p, rank, k + 1, g)
<1> DEFINE Low == {n \in DOMAIN p.kind : rank[n] < k}
           Lower == {n \in DOMAIN p.kind : rank[n] < k + 1}
           g == [n \in Lower |-> IF p.deps[n] = {} THEN 0 ELSE 1 + Max({f[d] : d \in p.deps[n]})]
<1>1. /\ f \in [Low -> Nat]
      /\ \A n \in Low : f[n] <= rank[n]
      /\ \A n \in Low : f[n] = IF p.deps[n] = {} THEN 0 ELSE 1 + Max({f[d] : d \in p.deps[n]})
  BY DEF IsTable
<1>2. \A n \in Lower : p.deps[n] \subseteq Low
  BY PlanAssumption
<1>3. Low \subseteq Lower
  OBVIOUS
<1>4. \A n \in Low : g[n] = f[n]
  BY <1>1, <1>3
<1>5. ASSUME NEW n \in Lower PROVE g[n] \in Nat /\ g[n] <= rank[n]
  <2>1. CASE p.deps[n] = {}
    BY <2>1
  <2>2. CASE p.deps[n] # {}
    <3> DEFINE S == {f[d] : d \in p.deps[n]}
    <3>1. S \in SUBSET Nat /\ S # {}
      BY <1>1, <1>2, <2>2
    <3>2. \A x \in S : x <= rank[n]
      BY <1>1, <1>2, PlanAssumption
    <3>3. Max(S) \in S
      BY <3>1, <3>2, MaxFacts
    <3>4. PICK d \in p.deps[n] : Max(S) = f[d]
      BY <3>3
    <3>5. f[d] \in Nat /\ f[d] <= rank[d] /\ rank[d] < rank[n] /\ rank[d] \in Nat /\ rank[n] \in Nat
      BY <1>1, <1>2, PlanAssumption
    <3>6. g[n] = 1 + f[d]
      BY <2>2, <3>4
    <3> QED BY <3>5, <3>6
  <2> QED BY <2>1, <2>2
<1>6. ASSUME NEW n \in Lower
      PROVE  g[n] = IF p.deps[n] = {} THEN 0 ELSE 1 + Max({g[d] : d \in p.deps[n]})
  <2>1. {g[d] : d \in p.deps[n]} = {f[d] : d \in p.deps[n]}
    BY <1>2, <1>4
  <2> QED BY <2>1
<1>7. g \in [Lower -> Nat]
  BY <1>5
<1>8. IsTable(p, rank, k + 1, g)
  BY <1>5, <1>6, <1>7 DEF IsTable
<1> QED BY <1>8

(* The table exists for every rank: there is no least one without it.      *)
LEMMA TableExists ==
    ASSUME NEW p \in Plans, NEW rank \in [DOMAIN p.kind -> Nat],
           \A n \in DOMAIN p.kind : \A d \in p.deps[n] : rank[d] < rank[n],
           NEW k \in Nat
    PROVE  \E f : IsTable(p, rank, k, f)
<1> DEFINE Missing == {m \in Nat : ~\E f : IsTable(p, rank, m, f)}
<1>1. SUFFICES ASSUME Missing # {} PROVE FALSE
  OBVIOUS
<1>2. PICK m \in Missing : \A y \in Missing : m <= y
  BY <1>1, LeastNumber
<1>3. CASE m = 0
  <2> DEFINE none == [n \in {} |-> 0]
  <2>1. {n \in DOMAIN p.kind : rank[n] < 0} = {}
    OBVIOUS
  <2>2. none \in [{} -> Nat]
    OBVIOUS
  <2>3. IsTable(p, rank, 0, none)
    BY <2>1, <2>2 DEF IsTable
  <2> QED BY <1>3, <2>3
<1>4. CASE m # 0
  <2>1. m - 1 \in Nat /\ m - 1 \notin Missing /\ (m - 1) + 1 = m
    BY <1>2, <1>4
  <2>2. PICK f : IsTable(p, rank, m - 1, f)
    BY <2>1
  <2>3. \E g : IsTable(p, rank, (m - 1) + 1, g)
    BY <2>1, <2>2, TableGrows
  <2> QED BY <2>1, <2>3
<1> QED BY <1>3, <1>4

(* What nodeLayers solves.                                                 *)
IsLayers(p, f) ==
    f = [n \in DOMAIN p.kind |->
            IF p.deps[n] = {} THEN 0 ELSE 1 + Max({f[d] : d \in p.deps[n]})]

(* Every plan has layers: a dependency is in a lower one, and a layer is   *)
(* used only above one that is used.                                       *)
LEMMA LayerFacts ==
    ASSUME NEW p \in Plans
    PROVE  /\ NodeLayers(p) \in [DOMAIN p.kind -> Nat]
           /\ \A n \in DOMAIN p.kind : \A d \in p.deps[n] : NodeLayers(p)[d] < NodeLayers(p)[n]
           /\ \A n \in DOMAIN p.kind : NodeLayers(p)[n] > 0 =>
                 \E d \in DOMAIN p.kind : NodeLayers(p)[n] = NodeLayers(p)[d] + 1
<1> DEFINE NodeIds == DOMAIN p.kind
           L == NodeLayers(p)
           Row(f, n) == IF p.deps[n] = {} THEN 0 ELSE 1 + Max({f[d] : d \in p.deps[n]})
<1>1. PICK rank \in [NodeIds -> 0..Cardinality(NodeIds)] :
         \A n \in NodeIds : \A d \in p.deps[n] : rank[d] < rank[n]
  BY PlanAssumption
<1>2. Cardinality(NodeIds) \in Nat
  BY PlanAssumption, FS_CardinalityType
<1>3. rank \in [NodeIds -> Nat] /\ \A n \in NodeIds : rank[n] < Cardinality(NodeIds) + 1
  BY <1>1, <1>2
<1>4. PICK f : IsTable(p, rank, Cardinality(NodeIds) + 1, f)
  BY <1>1, <1>2, <1>3, TableExists
<1>5. {n \in NodeIds : rank[n] < Cardinality(NodeIds) + 1} = NodeIds
  BY <1>3
<1>6. f \in [NodeIds -> Nat] /\ \A n \in NodeIds : f[n] <= rank[n] /\ f[n] = Row(f, n)
  BY <1>4, <1>5 DEF IsTable
<1>7. f = [n \in NodeIds |-> Row(f, n)]
  BY <1>6
<1>8. IsLayers(p, f)
  BY <1>7 DEF IsLayers
<1>9. L = CHOOSE g : IsLayers(p, g)
  BY DEF NodeLayers, IsLayers
<1>10. IsLayers(p, L)
  BY <1>8, <1>9, Zenon
<1>11. L = [n \in NodeIds |-> Row(L, n)]
  BY <1>10 DEF IsLayers
(* Two tables for one plan agree: they cannot first differ anywhere.       *)
<1>12. ASSUME L # f PROVE FALSE
  <2> DEFINE Odd == {n \in NodeIds : L[n] # f[n]}
             Ranks == {rank[n] : n \in Odd}
  <2>1. Odd # {}
    BY <1>6, <1>11, <1>12
  <2>2. Ranks \in SUBSET Nat /\ Ranks # {}
    BY <1>3, <2>1
  <2>3. PICK r \in Ranks : \A s \in Ranks : r <= s
    BY <2>2, LeastNumber
  <2>4. PICK n \in Odd : r = rank[n]
    BY <2>3
  <2>5. \A d \in p.deps[n] : d \in NodeIds /\ rank[d] < rank[n] /\ rank[d] \in Nat /\ rank[n] \in Nat
    BY <1>1, <1>3, PlanAssumption
  <2>6. \A d \in p.deps[n] : L[d] = f[d]
    BY <2>3, <2>4, <2>5
  <2>7. {L[d] : d \in p.deps[n]} = {f[d] : d \in p.deps[n]}
    BY <2>6
  <2>8. L[n] = Row(L, n) /\ f[n] = Row(f, n)
    BY <1>6, <1>11
  <2>9. L[n] = f[n]
    BY <2>7, <2>8
  <2> QED BY <2>4, <2>9
<1>13. \A n \in NodeIds : p.deps[n] # {} =>
          \E d \in p.deps[n] : f[n] = f[d] + 1 /\ \A e \in p.deps[n] : f[e] <= f[d]
  <2> SUFFICES ASSUME NEW n \in NodeIds, p.deps[n] # {}
               PROVE  \E d \in p.deps[n] : f[n] = f[d] + 1 /\ \A e \in p.deps[n] : f[e] <= f[d]
    OBVIOUS
  <2> DEFINE S == {f[d] : d \in p.deps[n]}
  <2>1. p.deps[n] \subseteq NodeIds
    BY PlanAssumption
  <2>2. S \in SUBSET Nat /\ S # {}
    BY <1>6, <2>1
  <2>3. \A d \in p.deps[n] : f[d] \in Nat /\ f[d] <= rank[d] /\ rank[d] < rank[n]
                              /\ rank[d] \in Nat /\ rank[n] \in Nat
    BY <1>1, <1>3, <1>6, <2>1
  <2>3a. \A x \in S : x <= rank[n]
    BY <2>3
  <2>4. Max(S) \in S /\ \A x \in S : x <= Max(S)
    BY <1>3, <2>2, <2>3a, MaxFacts
  <2>5. f[n] = 1 + Max(S)
    BY <1>6
  <2>6. PICK d \in p.deps[n] : Max(S) = f[d]
    BY <2>4
  <2>7. \A e \in p.deps[n] : f[e] <= f[d]
    BY <2>4, <2>6
  <2>8. f[n] = f[d] + 1
    BY <2>3, <2>5, <2>6
  <2> QED BY <2>7, <2>8
<1>14. \A n \in NodeIds : f[n] > 0 => p.deps[n] # {}
  <2>1. \A n \in NodeIds : p.deps[n] = {} => f[n] = 0
    BY <1>6, Zenon
  <2> QED BY <2>1
<1>15. \A n \in NodeIds : p.deps[n] \subseteq NodeIds
  BY PlanAssumption
<1>16. \A n \in NodeIds : \A d \in p.deps[n] : f[d] < f[n]
  BY <1>6, <1>13, <1>15
<1>17. L = f
  BY <1>12
<1>18. \A n \in NodeIds : f[n] > 0 => \E d \in NodeIds : f[n] = f[d] + 1
  BY <1>13, <1>14, <1>15
<1> HIDE DEF L
<1>19. L \in [NodeIds -> Nat]
  BY <1>6, <1>17
<1> QED BY <1>16, <1>17, <1>18, <1>19 DEF L

-----------------------------------------------------------------------------
(* The inductive invariant. *)

(* Where the callback of a node or of an arm is while it runs.             *)
InProgress == {"input", "condition", "branching", "gate", "admission", "executing"}

(* No event of a log follows an ending.                                    *)
EndsOnce(s) == \A k \in DOMAIN s : s[k] \in Ends => k = Len(s)

(* The layers below the one that runs have succeeded, those above it have  *)
(* not begun, and nothing is under way unless the run is.                  *)
LayersFit ==
    /\ \A n \in Nodes : LayerOf[n] < layer => step[n] = "success"
    /\ \A n \in Nodes : step[n] # "none" => LayerOf[n] <= layer
    /\ run \in {"creating", "unstarted"} => \A n \in Nodes : step[n] = "none"
    /\ run # "running" => \A i \in Invocations : phase[i] \notin InProgress

(* The step of a node says how far its callback is, and the gate what it   *)
(* has told.                                                               *)
NodeFits(n) ==
    /\ phase[n] = "idle" <=> step[n] = "none"
    /\ phase[n] \in InProgress <=> step[n] = "running"
    /\ phase[n] = "done" <=> step[n] = "success"
    /\ phase[n] \in {"condition", "branching"} => n \in ChoiceNodes
    /\ (n \in ChoiceNodes /\ phase[n] \in InProgress) => phase[n] \in {"condition", "branching"}
    /\ gate[n] # "none" => step[n] \in Settled
    /\ gate[n] = "succeeded" => Has(n, "succeeded")

(* What a node has been told.                                              *)
ToldFits(n) ==
    /\ Has(n, "started") => step[n] # "none"
    /\ step[n] = "success" => Has(n, "succeeded")
    /\ phase[n] \in InProgress => ~Ended(n)
    /\ (run \notin Settled /\ phase[n] = "idle") => ~Ended(n)

(* The arms of a choice: neither is under way before one is selected, the  *)
(* other one is skipped then.                                              *)
ArmsFit(c) ==
    /\ phase[c] \in {"idle", "condition"} => \A a \in ArmsOf(c) : phase[a] = "idle"
    /\ (phase[c] \in {"idle", "condition"} /\ run \notin Settled) => \A a \in ArmsOf(c) : ~Ended(a)
    /\ \A a, b \in ArmsOf(c) : a # b => phase[a] = "idle" \/ phase[b] = "idle"
    /\ phase[c] = "branching" => \A a \in ArmsOf(c) : phase[a] = "idle" => Ended(a)
    /\ phase[c] = "done" => \A a \in ArmsOf(c) : Ended(a)

(* The callback of an arm: it runs inside its choice, and after the source *)
(* of its session.                                                         *)
ArmFits(a) ==
    /\ phase[a] \in InProgress => \E c \in ChoiceNodes : a \in ArmsOf(c) /\ phase[c] = "branching"
    /\ phase[a] \in InProgress => ~Ended(a)
    /\ phase[a] = "done" => Ended(a)
    /\ Has(a, "started") => phase[a] # "idle"
    /\ (plan.source[a] # NoSource /\ Has(a, "started")) => gate[plan.source[a]] = "succeeded"
    /\ (plan.source[a] # NoSource /\ phase[a] \in {"admission", "executing"})
          => gate[plan.source[a]] = "succeeded"

RunInv ==
    /\ TypeOK
    /\ LayersFit
    /\ \A n \in Nodes : NodeFits(n)
    /\ \A n \in Nodes : ToldFits(n)
    /\ \A c \in ChoiceNodes : ArmsFit(c)
    /\ \A a \in Arms : ArmFits(a)
    /\ \A i \in Invocations : EndsOnce(log[i])
    /\ EveryoneTold

-----------------------------------------------------------------------------
(* Lemmas about logs. *)

LogEvents == Ends \cup {"created", "started"}

HasEnd(s) == \E k \in DOMAIN s : s[k] \in Ends

(* A log that has not ended hears of more: it ends if what it hears does.  *)
LEMMA LogGrows ==
    ASSUME NEW s \in Seq(LogEvents), NEW es \in Seq(LogEvents), ~HasEnd(s), EndsOnce(es)
    PROVE  /\ s \o es \in Seq(LogEvents)
           /\ EndsOnce(s \o es)
           /\ HasEnd(s \o es) <=> HasEnd(es)
           /\ \A e : e \in ToSet(s \o es) <=> e \in ToSet(s) \/ e \in ToSet(es)
<1> DEFINE t == s \o es
<1>1. /\ t \in Seq(LogEvents) /\ Len(t) = Len(s) + Len(es)
      /\ Len(s) \in Nat /\ Len(es) \in Nat
      /\ DOMAIN s = 1..Len(s) /\ DOMAIN es = 1..Len(es) /\ DOMAIN t = 1..Len(t)
  OBVIOUS
<1>2. \A k \in DOMAIN s : k \in DOMAIN t /\ t[k] = s[k]
  BY <1>1
<1>3. \A k \in DOMAIN es : k + Len(s) \in DOMAIN t /\ t[k + Len(s)] = es[k]
  BY <1>1
<1>4. \A k \in DOMAIN t : k \in DOMAIN s \/ (k - Len(s) \in DOMAIN es /\ k = (k - Len(s)) + Len(s))
  BY <1>1
<1>5. EndsOnce(t)
  <2> SUFFICES ASSUME NEW k \in DOMAIN t, t[k] \in Ends PROVE k = Len(t)
    BY DEF EndsOnce
  <2>1. k \notin DOMAIN s
    BY <1>2 DEF HasEnd
  <2>2. k - Len(s) \in DOMAIN es /\ k = (k - Len(s)) + Len(s)
    BY <1>4, <2>1
  <2>3. es[k - Len(s)] \in Ends
    BY <1>3, <2>2
  <2>4. k - Len(s) = Len(es)
    BY <2>2, <2>3 DEF EndsOnce
  <2> QED BY <1>1, <2>2, <2>4
<1>6. ASSUME HasEnd(t) PROVE HasEnd(es)
  <2>1. PICK k \in DOMAIN t : t[k] \in Ends
    BY <1>6 DEF HasEnd
  <2>2. k \notin DOMAIN s
    BY <1>2, <2>1 DEF HasEnd
  <2>3. k - Len(s) \in DOMAIN es /\ k = (k - Len(s)) + Len(s)
    BY <1>4, <2>2
  <2>4. es[k - Len(s)] \in Ends
    BY <1>3, <2>1, <2>3
  <2> QED BY <2>3, <2>4 DEF HasEnd
<1>7. ASSUME HasEnd(es) PROVE HasEnd(t)
  <2>1. PICK k \in DOMAIN es : es[k] \in Ends
    BY <1>7 DEF HasEnd
  <2>2. k + Len(s) \in DOMAIN t /\ t[k + Len(s)] \in Ends
    BY <1>3, <2>1
  <2> QED BY <2>2 DEF HasEnd
<1>8. ASSUME NEW e, e \in ToSet(t) PROVE e \in ToSet(s) \/ e \in ToSet(es)
  <2>1. PICK k \in DOMAIN t : t[k] = e
    BY <1>8 DEF ToSet
  <2>2. CASE k \in DOMAIN s
    BY <1>2, <2>1, <2>2 DEF ToSet
  <2>3. CASE k - Len(s) \in DOMAIN es /\ k = (k - Len(s)) + Len(s)
    <3>1. es[k - Len(s)] = e
      BY <1>3, <2>1, <2>3
    <3> QED BY <2>3, <3>1 DEF ToSet
  <2> QED BY <1>4, <2>2, <2>3
<1>9. ASSUME NEW e, e \in ToSet(s) \/ e \in ToSet(es) PROVE e \in ToSet(t)
  <2>1. CASE e \in ToSet(s)
    BY <1>2, <2>1 DEF ToSet
  <2>2. CASE e \in ToSet(es)
    <3>1. PICK k \in DOMAIN es : es[k] = e
      BY <2>2 DEF ToSet
    <3>2. k + Len(s) \in DOMAIN t /\ t[k + Len(s)] = e
      BY <1>3, <3>1
    <3> QED BY <3>2 DEF ToSet
  <2> QED BY <1>9, <2>1, <2>2
<1> HIDE DEF t
<1>10. \A e : e \in ToSet(t) <=> e \in ToSet(s) \/ e \in ToSet(es)
  BY <1>8, <1>9, Zenon
<1> QED BY <1>1, <1>5, <1>6, <1>7, <1>10 DEF t

(* What is told at once: nothing, the start, one more event, or both.      *)
Starts == {<<>>, <<"started">>}
Endings == {<<e>> : e \in Ends} \cup {<<"started">> \o <<e>> : e \in Ends}

LEMMA ToldAtOnce ==
    /\ \A es \in Starts \cup Endings : es \in Seq(LogEvents) /\ EndsOnce(es)
    /\ \A es \in Starts : ~HasEnd(es)
    /\ \A es \in Endings : HasEnd(es)
    /\ ToSet(<<>>) = {} /\ ToSet(<<"started">>) = {"started"}
    /\ \A e \in Ends : ToSet(<<e>>) = {e} /\ ToSet(<<"started">> \o <<e>>) = {"started", e}
<1>1. /\ <<>> \in Seq(LogEvents) /\ EndsOnce(<<>>) /\ ~HasEnd(<<>>) /\ ToSet(<<>>) = {}
  BY DEF EndsOnce, HasEnd, ToSet
<1>2. /\ <<"started">> \in Seq(LogEvents) /\ EndsOnce(<<"started">>) /\ ~HasEnd(<<"started">>)
      /\ ToSet(<<"started">>) = {"started"}
  BY DEF EndsOnce, HasEnd, ToSet, LogEvents, Ends
<1>3. ASSUME NEW e \in Ends
      PROVE  /\ <<e>> \in Seq(LogEvents) /\ EndsOnce(<<e>>) /\ HasEnd(<<e>>) /\ ToSet(<<e>>) = {e}
             /\ ~HasEnd(<<>>)
  BY DEF EndsOnce, HasEnd, ToSet, LogEvents
<1>4. ASSUME NEW e \in Ends
      PROVE  LET es == <<"started">> \o <<e>>
             IN  es \in Seq(LogEvents) /\ EndsOnce(es) /\ HasEnd(es) /\ ToSet(es) = {"started", e}
  <2>1. \A x : x \in ToSet(<<"started">> \o <<e>>) <=> x \in ToSet(<<"started">>) \/ x \in ToSet(<<e>>)
    BY <1>2, <1>3, LogGrows
  <2>2. ToSet(<<"started">> \o <<e>>) = {"started", e}
    BY <1>2, <1>3, <2>1, Zenon
  <2> QED BY <1>2, <1>3, <2>2, LogGrows
<1> QED BY <1>1, <1>2, <1>3, <1>4 DEF Starts, Endings

-----------------------------------------------------------------------------
(* What a step leaves alone. *)

(* Nodes, choices and arms of a plan.                                      *)
LEMMA PlanFacts ==
    ASSUME plan \in Plans
    PROVE  /\ ChoiceNodes \subseteq Nodes /\ \A n \in Nodes : n \notin Arms
           /\ \A c \in ChoiceNodes : ArmsOf(c) \subseteq Arms
           /\ \A c, d \in ChoiceNodes, a \in Arms : (a \in ArmsOf(c) /\ a \in ArmsOf(d)) => c = d
           /\ \A a \in Arms : plan.source[a] # NoSource => plan.source[a] \in Nodes
           /\ LayerOf \in [Nodes -> Nat]
           /\ \A n \in Nodes : plan.deps[n] \subseteq Nodes
           /\ \A n \in Nodes : \A d \in plan.deps[n] : LayerOf[d] < LayerOf[n]
           /\ \A n \in Nodes : LayerOf[n] > 0 => \E d \in Nodes : LayerOf[n] = LayerOf[d] + 1
<1>1. \A c \in ChoiceNodes : ArmsOf(c) \subseteq Arms
  BY PlanAssumption DEF ChoiceNodes, ArmsOf, Arms
<1>2. ASSUME NEW c \in ChoiceNodes, NEW d \in ChoiceNodes, NEW a \in Arms,
             a \in ArmsOf(c), a \in ArmsOf(d)
      PROVE  c = d
  <2>1. {plan.arms[c].then, plan.arms[c].else} \cap {plan.arms[d].then, plan.arms[d].else} # {}
    BY <1>2, Zenon DEF ArmsOf
  <2> QED BY <2>1, PlanAssumption, Zenon DEF ChoiceNodes
<1>3. ChoiceNodes \subseteq Nodes /\ (\A n \in Nodes : n \notin Arms)
  BY PlanAssumption DEF ChoiceNodes, Nodes, Arms
<1>4. \A a \in Arms : plan.source[a] # NoSource => plan.source[a] \in Nodes
  BY PlanAssumption DEF Nodes, Arms
<1>5. \A n \in Nodes : plan.deps[n] \subseteq Nodes
  BY PlanAssumption DEF Nodes
<1>6. /\ LayerOf \in [Nodes -> Nat]
      /\ \A n \in Nodes : \A d \in plan.deps[n] : LayerOf[d] < LayerOf[n]
      /\ \A n \in Nodes : LayerOf[n] > 0 => \E d \in Nodes : LayerOf[n] = LayerOf[d] + 1
  BY LayerFacts DEF Nodes, LayerOf
<1> QED BY <1>1, <1>2, <1>3, <1>4, <1>5, <1>6

(* A node that nothing is said of.                                         *)
LEMMA NodeKept ==
    ASSUME RunInv, plan' = plan, NEW m \in Nodes,
           run' \notin Settled => run \notin Settled,
           step'[m] = step[m], phase'[m] = phase[m], log'[m] = log[m], gate'[m] = gate[m]
    PROVE  NodeFits(m)' /\ ToldFits(m)'
<1>1. NodeFits(m) /\ ToldFits(m)
  BY DEF RunInv
<1>2. NodeFits(m)'
  BY <1>1 DEF NodeFits, Has, ChoiceNodes
<1>3. ToldFits(m)'
  BY <1>1 DEF ToldFits, Has, Ended
<1> QED BY <1>2, <1>3

(* A choice that nothing is said of, nor of its arms.                      *)
LEMMA ChoiceKept ==
    ASSUME RunInv, plan' = plan, NEW c \in ChoiceNodes,
           run' \notin Settled => run \notin Settled,
           phase'[c] = phase[c],
           \A a \in ArmsOf(c) : phase'[a] = phase[a] /\ log'[a] = log[a]
    PROVE  ArmsFit(c)'
<1>1. ArmsFit(c) /\ ArmsOf(c)' = ArmsOf(c)
  BY DEF RunInv, ArmsOf
<1> QED BY <1>1 DEF ArmsFit, Ended

(* An arm that nothing is said of, while its choice goes on.               *)
LEMMA ArmKept ==
    ASSUME RunInv, plan' = plan, NEW a \in Arms,
           phase'[a] = phase[a], log'[a] = log[a],
           phase[a] \in InProgress =>
              \A c \in ChoiceNodes : (a \in ArmsOf(c) /\ phase[c] = "branching") => phase'[c] = "branching",
           \A n \in Nodes : gate[n] = "succeeded" => gate'[n] = "succeeded"
    PROVE  ArmFits(a)'
<1>1. ArmFits(a) /\ plan \in Plans
  BY DEF RunInv, TypeOK
<1>2. plan.source[a] # NoSource => plan.source[a] \in Nodes
  BY <1>1, PlanFacts
<1>3. phase[a] \in InProgress =>
         \E c \in ChoiceNodes' : a \in ArmsOf(c)' /\ phase'[c] = "branching"
  BY <1>1 DEF ArmFits, ChoiceNodes, ArmsOf
<1> QED BY <1>1, <1>2, <1>3 DEF ArmFits, Has, Ended

-----------------------------------------------------------------------------
(* The steps. *)

Phases == {"idle", "input", "condition", "branching", "gate", "admission", "executing", "done", "thrown"}

(* The callback of a node gets on or its step settles, and the node is     *)
(* told of it; a choice settles when no arm is under way.                  *)
LEMMA NodeMoves ==
    ASSUME RunInv, NEW n \in Nodes, step[n] = "running",
           UNCHANGED <<plan, aborted, run, layer>>,
           NEW s \in Settled \cup {"running"}, step' = [step EXCEPT ![n] = s],
           NEW p \in Phases, phase' = [phase EXCEPT ![n] = p],
           NEW es \in Starts \cup Endings, log' = [log EXCEPT ![n] = @ \o es],
           NEW g \in {"none", "succeeded", "failed"}, gate' = [gate EXCEPT ![n] = g],
           p # "idle", p \in InProgress <=> s = "running", p = "done" <=> s = "success",
           n \in ChoiceNodes => p \notin InProgress /\ \A a \in ArmsOf(n) : phase[a] \notin InProgress,
           p \notin {"condition", "branching"},
           g # "none" => s # "running",
           g = "succeeded" \/ s = "success" => "succeeded" \in ToSet(es),
           s = "running" => es \in Starts,
           (n \in ChoiceNodes /\ p = "done") => \A a \in ArmsOf(n) : Ended(a)
    PROVE  RunInv'
<1>1. /\ TypeOK /\ LayersFit /\ NodeFits(n) /\ ToldFits(n) /\ plan \in Plans
      /\ \A i \in Invocations : EndsOnce(log[i])
  BY DEF RunInv, TypeOK
<1>2. /\ ChoiceNodes \subseteq Nodes /\ (\A m \in Nodes : m \notin Arms)
      /\ \A c \in ChoiceNodes : ArmsOf(c) \subseteq Arms
  BY <1>1, PlanFacts
<1>3. phase[n] \in InProgress /\ run = "running" /\ gate[n] = "none" /\ n \in Invocations
  BY <1>1 DEF NodeFits, LayersFit, Invocations, Settled, TypeOK
<1>4. /\ log[n] \in Seq(LogEvents) /\ ~HasEnd(log[n])
      /\ es \in Seq(LogEvents) /\ EndsOnce(es)
  BY <1>1, <1>3, ToldAtOnce DEF TypeOK, ToldFits, Ended, HasEnd, LogEvents
<1>5. /\ log'[n] = log[n] \o es /\ \A i \in Invocations : i # n => log'[i] = log[i]
      /\ phase'[n] = p /\ \A i \in Invocations : i # n => phase'[i] = phase[i]
      /\ step'[n] = s /\ \A m \in Nodes : m # n => step'[m] = step[m]
      /\ gate'[n] = g /\ \A m \in Nodes : m # n => gate'[m] = gate[m]
  BY <1>1, <1>3 DEF TypeOK
<1>6. /\ log'[n] \in Seq(LogEvents) /\ EndsOnce(log'[n]) /\ (HasEnd(log'[n]) <=> HasEnd(es))
      /\ \A e : e \in ToSet(log'[n]) <=> e \in ToSet(log[n]) \/ e \in ToSet(es)
  <2> DEFINE t == log[n] \o es
  <2>1. /\ t \in Seq(LogEvents) /\ EndsOnce(t) /\ (HasEnd(t) <=> HasEnd(es))
        /\ \A e : e \in ToSet(t) <=> e \in ToSet(log[n]) \/ e \in ToSet(es)
    BY <1>4, LogGrows
  <2>2. log'[n] = t
    BY <1>5
  <2> HIDE DEF t
  <2> QED BY <2>1, <2>2
<1>7. TypeOK'
  <2>1. step' \in [Nodes -> Settled \cup {"none", "running"}]
    BY <1>1 DEF TypeOK
  <2>2. phase' \in [Invocations -> Phases]
    BY <1>1 DEF TypeOK, Phases
  <2>3. log' \in [Invocations -> Seq(LogEvents)]
    BY <1>1, <1>3, <1>5, <1>6 DEF TypeOK, LogEvents
  <2>4. gate' \in [Nodes -> {"none", "succeeded", "failed"}]
    BY <1>1 DEF TypeOK
  <2> QED BY <1>1, <2>1, <2>2, <2>3, <2>4
          DEF TypeOK, Phases, LogEvents, Nodes, Invocations, Arms
<1>8. LayersFit'
  <2>1. step[n] # "success" /\ step[n] # "none"
    BY DEF Settled
  <2>2. Nodes' = Nodes /\ LayerOf' = LayerOf
    BY DEF Nodes, LayerOf
  <2> QED BY <1>1, <1>3, <1>5, <2>1, <2>2 DEF LayersFit
<1>9. NodeFits(n)'
  BY <1>5, <1>6 DEF NodeFits, Has, Settled, InProgress, ChoiceNodes
<1>10. ToldFits(n)'
  <2>1. s = "running" => ~HasEnd(es)
    BY ToldAtOnce
  <2> QED BY <1>3, <1>5, <1>6, <2>1 DEF ToldFits, Has, Ended, HasEnd, Settled
<1>11. ASSUME NEW m \in Nodes PROVE NodeFits(m)' /\ ToldFits(m)'
  BY <1>3, <1>5, <1>9, <1>10, NodeKept DEF Invocations, Settled
<1>12. ASSUME NEW c \in ChoiceNodes PROVE ArmsFit(c)'
  <2>1. \A a \in ArmsOf(c) : phase'[a] = phase[a] /\ log'[a] = log[a]
    BY <1>2, <1>5 DEF Invocations
  <2>2. CASE c = n
    <3>1. ArmsFit(c) /\ ArmsOf(c)' = ArmsOf(c)
      BY DEF RunInv, ArmsOf
    <3>2. p \notin {"idle", "condition", "branching"}
      OBVIOUS
    <3> QED BY <1>5, <2>1, <2>2, <3>1, <3>2 DEF ArmsFit, Ended
  <2>3. CASE c # n
    <3>1. phase'[c] = phase[c]
      BY <1>2, <1>5, <2>3 DEF Invocations
    <3> QED BY <2>1, <3>1, ChoiceKept
  <2> QED BY <2>2, <2>3
<1>13. ASSUME NEW a \in Arms PROVE ArmFits(a)'
  <2>1. a # n /\ phase'[a] = phase[a] /\ log'[a] = log[a]
    BY <1>2, <1>5 DEF Invocations
  <2>2. ASSUME phase[a] \in InProgress, NEW c \in ChoiceNodes, a \in ArmsOf(c), phase[c] = "branching"
        PROVE  phase'[c] = "branching"
    BY <1>2, <1>5, <2>2 DEF Invocations
  <2>3. \A m \in Nodes : gate[m] = "succeeded" => gate'[m] = "succeeded"
    BY <1>3, <1>5
  <2> QED BY <2>1, <2>2, <2>3, ArmKept
<1>14. ASSUME NEW i \in Invocations PROVE EndsOnce(log'[i])
  BY <1>1, <1>5, <1>6
<1>15. EveryoneTold'
  BY <1>3 DEF EveryoneTold, Settled
<1>16. /\ Nodes' = Nodes /\ ChoiceNodes' = ChoiceNodes /\ Arms' = Arms /\ Invocations' = Invocations
  BY DEF Nodes, ChoiceNodes, Arms, Invocations
<1> QED BY <1>7, <1>8, <1>11, <1>12, <1>13, <1>14, <1>15, <1>16 DEF RunInv

(* The callback of an arm gets on or ends, and the arm is told of it.      *)
LEMMA ArmMoves ==
    ASSUME RunInv, NEW a \in Arms, phase[a] \in InProgress,
           UNCHANGED <<plan, aborted, run, layer, step, gate>>,
           NEW p \in Phases, phase' = [phase EXCEPT ![a] = p],
           NEW es \in Starts \cup Endings, log' = [log EXCEPT ![a] = @ \o es],
           p # "idle", p \in InProgress => es \in Starts, p = "done" => es \in Endings,
           (plan.source[a] # NoSource /\ (p \in {"admission", "executing"} \/ "started" \in ToSet(es)))
              => gate[plan.source[a]] = "succeeded"
    PROVE  RunInv'
<1>1. /\ TypeOK /\ LayersFit /\ ArmFits(a) /\ plan \in Plans
      /\ \A i \in Invocations : EndsOnce(log[i])
  BY DEF RunInv, TypeOK
<1>2. /\ ChoiceNodes \subseteq Nodes /\ (\A m \in Nodes : m \notin Arms)
      /\ \A c \in ChoiceNodes : ArmsOf(c) \subseteq Arms
  BY <1>1, PlanFacts
<1>3. /\ run = "running" /\ a \in Invocations
      /\ \E c \in ChoiceNodes : a \in ArmsOf(c) /\ phase[c] = "branching"
  BY <1>1 DEF ArmFits, LayersFit, Invocations
<1>4. /\ log[a] \in Seq(LogEvents) /\ ~HasEnd(log[a])
      /\ es \in Seq(LogEvents) /\ EndsOnce(es)
  BY <1>1, <1>3, ToldAtOnce DEF TypeOK, ArmFits, Ended, HasEnd, LogEvents
<1>5. /\ log'[a] = log[a] \o es /\ \A i \in Invocations : i # a => log'[i] = log[i]
      /\ phase'[a] = p /\ \A i \in Invocations : i # a => phase'[i] = phase[i]
  BY <1>1, <1>3 DEF TypeOK
<1>6. /\ log'[a] \in Seq(LogEvents) /\ EndsOnce(log'[a]) /\ (HasEnd(log'[a]) <=> HasEnd(es))
      /\ \A e : e \in ToSet(log'[a]) <=> e \in ToSet(log[a]) \/ e \in ToSet(es)
  <2> DEFINE t == log[a] \o es
  <2>1. /\ t \in Seq(LogEvents) /\ EndsOnce(t) /\ (HasEnd(t) <=> HasEnd(es))
        /\ \A e : e \in ToSet(t) <=> e \in ToSet(log[a]) \/ e \in ToSet(es)
    BY <1>4, LogGrows
  <2>2. log'[a] = t
    BY <1>5
  <2> HIDE DEF t
  <2> QED BY <2>1, <2>2
<1>7. TypeOK'
  <2>1. phase' \in [Invocations -> Phases]
    BY <1>1 DEF TypeOK, Phases
  <2>2. log' \in [Invocations -> Seq(LogEvents)]
    BY <1>1, <1>3, <1>5, <1>6 DEF TypeOK, LogEvents
  <2> QED BY <1>1, <2>1, <2>2 DEF TypeOK, Phases, LogEvents, Nodes, Invocations, Arms
<1>8. LayersFit'
  <2>1. Nodes' = Nodes /\ LayerOf' = LayerOf
    BY DEF Nodes, LayerOf
  <2> QED BY <1>1, <1>3, <2>1 DEF LayersFit
<1>9. ASSUME NEW m \in Nodes PROVE NodeFits(m)' /\ ToldFits(m)'
  <2>1. phase'[m] = phase[m] /\ log'[m] = log[m]
    BY <1>2, <1>5 DEF Invocations
  <2> QED BY <2>1, NodeKept
<1>10. ASSUME NEW c \in ChoiceNodes PROVE ArmsFit(c)'
  <2>1. phase'[c] = phase[c] /\ \A b \in ArmsOf(c) : b # a => phase'[b] = phase[b] /\ log'[b] = log[b]
    BY <1>2, <1>5 DEF Invocations
  <2>2. CASE a \notin ArmsOf(c)
    BY <2>1, <2>2, ChoiceKept
  <2>3. CASE a \in ArmsOf(c)
    <3>1. ArmsFit(c) /\ ArmsOf(c)' = ArmsOf(c)
      BY DEF RunInv, ArmsOf
    <3>2. phase[c] = "branching"
      BY <1>1, <1>2, <1>3, <2>3, PlanFacts
    <3>3. phase[a] # "idle" /\ \A b \in ArmsOf(c) : b # a => phase[b] = "idle"
      BY <2>3, <3>1 DEF ArmsFit, InProgress
    <3> QED BY <1>5, <2>1, <3>1, <3>2, <3>3 DEF ArmsFit, Ended
  <2> QED BY <2>2, <2>3
<1>11. ArmFits(a)'
  <2>1. \E c \in ChoiceNodes' : a \in ArmsOf(c)' /\ phase'[c] = "branching"
    BY <1>2, <1>3, <1>5 DEF ChoiceNodes, ArmsOf, Invocations
  <2>2. p \in InProgress => ~HasEnd(es)
    BY ToldAtOnce
  <2>3. p = "done" => HasEnd(es)
    BY ToldAtOnce
  <2> QED BY <1>1, <1>5, <1>6, <2>1, <2>2, <2>3 DEF ArmFits, Has, Ended, HasEnd
<1>12. ASSUME NEW b \in Arms, b # a PROVE ArmFits(b)'
  <2>1. phase'[b] = phase[b] /\ log'[b] = log[b]
    BY <1>5, <1>12 DEF Invocations
  <2>2. ASSUME NEW c \in ChoiceNodes PROVE phase'[c] = phase[c]
    BY <1>2, <1>5 DEF Invocations
  <2> QED BY <2>1, <2>2, ArmKept
<1>13. ASSUME NEW i \in Invocations PROVE EndsOnce(log'[i])
  BY <1>1, <1>5, <1>6
<1>14. EveryoneTold'
  BY <1>3 DEF EveryoneTold, Settled
<1>15. /\ Nodes' = Nodes /\ ChoiceNodes' = ChoiceNodes /\ Arms' = Arms /\ Invocations' = Invocations
  BY DEF Nodes, ChoiceNodes, Arms, Invocations
<1> QED BY <1>7, <1>8, <1>9, <1>10, <1>11, <1>12, <1>13, <1>14, <1>15 DEF RunInv

(* What RunInv says of a node that is not a choice while it is under way.  *)
LEMMA NodeAt ==
    ASSUME RunInv, NEW n \in Nodes
    PROVE  /\ phase[n] \in InProgress => step[n] = "running" /\ gate[n] = "none"
           /\ phase[n] \in {"input", "admission", "executing"} => n \notin ChoiceNodes
           /\ step \in [Nodes -> Settled \cup {"none", "running"}]
           /\ log \in [Invocations -> Seq(LogEvents)]
           /\ phase \in [Invocations -> Phases] /\ gate \in [Nodes -> {"none", "succeeded", "failed"}]
<1>1. NodeFits(n) /\ TypeOK
  BY DEF RunInv
<1>2. /\ step \in [Nodes -> Settled \cup {"none", "running"}] /\ log \in [Invocations -> Seq(LogEvents)]
      /\ phase \in [Invocations -> Phases] /\ gate \in [Nodes -> {"none", "succeeded", "failed"}]
  BY <1>1 DEF TypeOK, LogEvents, Phases
<1>3. phase[n] \in InProgress => step[n] = "running" /\ gate[n] = "none"
  BY <1>1, <1>2 DEF NodeFits, Settled
<1>4. phase[n] \in {"input", "admission", "executing"} => n \notin ChoiceNodes
  BY <1>1 DEF NodeFits, InProgress
<1> QED BY <1>2, <1>3, <1>4

(* A node that is not a choice: the step settles.                          *)
LEMMA NodeSettles ==
    ASSUME RunInv, NEW n \in Nodes, phase[n] \in {"input", "admission", "executing"},
           UNCHANGED <<plan, aborted, run, layer>>,
           NEW T \in SUBSET Settled, Settle(n, T),
           NEW es \in Starts \cup Endings, log' = [log EXCEPT ![n] = @ \o es],
           NEW g \in {"none", "succeeded", "failed"}, gate' = [gate EXCEPT ![n] = g],
           (g = "succeeded" \/ "success" \in T) => "succeeded" \in ToSet(es)
    PROVE  RunInv'
<1>1. PICK s \in T : /\ step' = [step EXCEPT ![n] = s]
                     /\ phase' = [phase EXCEPT ![n] = IF s = "success" THEN "done" ELSE "thrown"]
  BY DEF Settle
<1> DEFINE p == IF s = "success" THEN "done" ELSE "thrown"
<1>2. step[n] = "running" /\ n \notin ChoiceNodes
  BY NodeAt DEF InProgress
<1>3. p \in Phases \ (InProgress \cup {"idle"}) /\ (p = "done" <=> s = "success") /\ s # "running"
  BY DEF Phases, InProgress, Settled
<1>4. phase' = [phase EXCEPT ![n] = p]
  BY <1>1
<1>5. s = "success" => "succeeded" \in ToSet(es)
  OBVIOUS
<1> HIDE DEF p
<1> QED BY <1>1, <1>2, <1>3, <1>4, <1>5, NodeMoves DEF InProgress

(* A node that is not a choice gets on.                                    *)
LEMMA NodeGoesOn ==
    ASSUME RunInv, NEW n \in Nodes, phase[n] \in {"input", "admission", "executing"},
           UNCHANGED <<plan, aborted, run, layer, step, gate>>,
           NEW p \in {"admission", "executing"}, phase' = [phase EXCEPT ![n] = p],
           NEW es \in Starts, log' = [log EXCEPT ![n] = @ \o es]
    PROVE  RunInv'
<1>1. step[n] = "running" /\ gate[n] = "none" /\ n \notin ChoiceNodes
  BY NodeAt DEF InProgress
<1>2. step' = [step EXCEPT ![n] = "running"] /\ gate' = [gate EXCEPT ![n] = "none"]
  BY <1>1, NodeAt
<1>3. p \in Phases /\ p \in InProgress /\ p # "idle" /\ p # "done" /\ p \notin {"condition", "branching"}
  BY DEF Phases, InProgress
<1> QED BY <1>1, <1>2, <1>3, NodeMoves DEF Settled

(* Who says nothing leaves the log as it is.                               *)
LEMMA NothingTold ==
    ASSUME RunInv, NEW i \in Invocations
    PROVE  log = [log EXCEPT ![i] = @ \o <<>>]
<1>1. log \in [Invocations -> Seq(LogEvents)]
  BY DEF RunInv, TypeOK, LogEvents
<1>2. log[i] \o <<>> = log[i]
  BY <1>1
<1> QED BY <1>1, <1>2

LEMMA ResolveInputKept ==
    ASSUME RunInv, NEW n \in Nodes, ResolveInput(n)
    PROVE  RunInv'
<1>1. /\ phase[n] = "input" /\ n \in Invocations
      /\ UNCHANGED <<plan, aborted, run, layer>> /\ gate' = gate
  BY DEF ResolveInput, Invocations
<1>2. /\ Threw \in SUBSET Settled /\ "success" \notin Threw
      /\ <<>> \in Starts /\ <<"started">> \in Starts
      /\ <<"started", "failed">> = <<"started">> \o <<"failed">>
      /\ <<"started", "failed">> \in Endings
  <2>1. <<"started", "failed">> = <<"started">> \o <<"failed">>
    OBVIOUS
  <2>2. "failed" \in Ends
    BY DEF Ends
  <2> QED BY <2>1, <2>2 DEF Threw, Settled, Starts, Endings
<1>3. gate' = [gate EXCEPT ![n] = "none"]
  BY <1>1, NodeAt DEF InProgress
<1>4. CASE Settle(n, Threw) /\ UNCHANGED log
  <2>1. log' = [log EXCEPT ![n] = @ \o <<>>]
    BY <1>1, <1>4, NothingTold
  <2> QED BY <1>1, <1>2, <1>3, <1>4, <2>1, NodeSettles
<1>5. CASE plan.kind[n] # "repeat" /\ RefuseInput(n)
  <2>1. Settle(n, Threw) /\ log' = [log EXCEPT ![n] = @ \o <<"started", "failed">>]
    BY <1>5 DEF RefuseInput, Tell
  <2> QED BY <1>1, <1>2, <1>3, <2>1, NodeSettles
<1>6. CASE plan.kind[n] = "task" /\ MoveTo(n, "admission") /\ UNCHANGED <<step, log>>
  <2>1. log' = [log EXCEPT ![n] = @ \o <<>>]
    BY <1>1, <1>6, NothingTold
  <2> QED BY <1>1, <1>2, <1>6, <2>1, NodeGoesOn DEF MoveTo
<1>7. CASE /\ plan.kind[n] \in {"check", "repeat"} /\ MoveTo(n, "executing")
           /\ Tell(n, <<"started">>) /\ UNCHANGED step
  BY <1>1, <1>2, <1>7, NodeGoesOn DEF MoveTo, Tell
<1> QED BY <1>4, <1>5, <1>6, <1>7 DEF ResolveInput

LEMMA AdmitKept ==
    ASSUME RunInv, NEW n \in Nodes, Admit(n)
    PROVE  RunInv'
<1>1. /\ phase[n] = "admission" /\ n \in Invocations
      /\ UNCHANGED <<plan, aborted, run, layer>> /\ gate' = gate
  BY DEF Admit, Invocations
<1>2. /\ Threw \in SUBSET Settled /\ "success" \notin Threw
      /\ <<>> \in Starts /\ <<"started">> \in Starts
  BY DEF Threw, Settled, Starts
<1>3. gate' = [gate EXCEPT ![n] = "none"]
  BY <1>1, NodeAt DEF InProgress
<1>4. CASE Settle(n, Threw) /\ UNCHANGED log
  <2>1. log' = [log EXCEPT ![n] = @ \o <<>>]
    BY <1>1, <1>4, NothingTold
  <2> QED BY <1>1, <1>2, <1>3, <1>4, <2>1, NodeSettles
<1>5. CASE ~aborted /\ MoveTo(n, "executing") /\ Tell(n, <<"started">>) /\ UNCHANGED step
  BY <1>1, <1>2, <1>5, NodeGoesOn DEF MoveTo, Tell
<1> QED BY <1>4, <1>5 DEF Admit

LEMMA ExecuteKept ==
    ASSUME RunInv, NEW n \in Nodes, Execute(n)
    PROVE  RunInv'
<1>1. /\ phase[n] = "executing" /\ n \in Invocations
      /\ UNCHANGED <<plan, aborted, run, layer>>
  BY DEF Execute, Invocations
<1>2. /\ Threw \in SUBSET Settled /\ "success" \notin Threw /\ Returned \in SUBSET Settled
      /\ <<>> \in Starts /\ \A e \in Ends : <<e>> \in Endings
      /\ {"succeeded", "failed", "cancelled"} \subseteq Ends
  BY DEF Threw, Returned, Settled, Starts, Endings, Ends
<1>3. CASE Settle(n, Returned) /\ Tell(n, <<"succeeded">>) /\ Observed(n, "succeeded")
  <2>1. log' = [log EXCEPT ![n] = @ \o <<"succeeded">>] /\ gate' = [gate EXCEPT ![n] = "succeeded"]
    BY <1>3 DEF Tell, Observed
  <2>2. "succeeded" \in ToSet(<<"succeeded">>)
    BY <1>2, ToldAtOnce
  <2> QED BY <1>1, <1>2, <1>3, <2>1, <2>2, NodeSettles
<1>4. CASE ~aborted /\ Settle(n, Threw) /\ Tell(n, <<"failed">>) /\ Observed(n, "failed")
  <2>1. log' = [log EXCEPT ![n] = @ \o <<"failed">>] /\ gate' = [gate EXCEPT ![n] = "failed"]
    BY <1>4 DEF Tell, Observed
  <2> QED BY <1>1, <1>2, <1>4, <2>1, NodeSettles
<1>5. CASE /\ aborted /\ Settle(n, Threw)
           /\ Tell(n, IF plan.kind[n] = "repeat" THEN <<"cancelled">> ELSE <<>>)
           /\ UNCHANGED gate
  <2> DEFINE es == IF plan.kind[n] = "repeat" THEN <<"cancelled">> ELSE <<>>
  <2>1. es \in Starts \cup Endings
    BY <1>2
  <2>2. log' = [log EXCEPT ![n] = @ \o es]
    BY <1>5 DEF Tell
  <2>3. gate' = [gate EXCEPT ![n] = "none"]
    BY <1>1, <1>5, NodeAt DEF InProgress
  <2> HIDE DEF es
  <2> QED BY <1>1, <1>2, <1>5, <2>1, <2>2, <2>3, NodeSettles
<1> QED BY <1>3, <1>4, <1>5 DEF Execute

-----------------------------------------------------------------------------
(* A choice and its arms. *)

LEMMA FailureEnds == <<>> \in Starts /\ Failure \in Endings /\ <<"started">> \o Failure \in Endings
<1>1. {"cancelled", "failed"} \subseteq Ends
  BY DEF Ends
<1>2. \A e \in Ends : <<e>> \in Endings /\ <<"started">> \o <<e>> \in Endings
  BY DEF Endings
<1>3. CASE aborted
  BY <1>1, <1>2, <1>3 DEF Failure, Starts
<1>4. CASE ~aborted
  BY <1>1, <1>2, <1>4 DEF Failure, Starts
<1> QED BY <1>3, <1>4

(* An arm ends, or gets on without being told anything.                    *)
LEMMA ArmEnds ==
    ASSUME RunInv, NEW a \in Arms, phase[a] \in InProgress,
           UNCHANGED <<plan, aborted, run, layer, step, gate>>, MoveTo(a, "thrown"),
           NEW es \in Starts \cup Endings, "started" \notin ToSet(es), log' = [log EXCEPT ![a] = @ \o es]
    PROVE  RunInv'
<1>1. "thrown" \in Phases /\ "thrown" \notin InProgress
  BY DEF Phases, InProgress
<1> QED BY <1>1, ArmMoves DEF MoveTo

LEMMA ArmGoesOn ==
    ASSUME RunInv, NEW a \in Arms, phase[a] \in InProgress,
           UNCHANGED <<plan, aborted, run, layer, step, log, gate>>,
           NEW p \in {"gate", "admission"}, MoveTo(a, p),
           (plan.source[a] # NoSource /\ p = "admission") => gate[plan.source[a]] = "succeeded"
    PROVE  RunInv'
<1>1. p \in Phases /\ p # "idle" /\ p # "done" /\ p # "executing"
  BY DEF Phases
<1>2. log' = [log EXCEPT ![a] = @ \o <<>>]
  BY NothingTold DEF Invocations
<1>3. <<>> \in Starts /\ "started" \notin ToSet(<<>>)
  BY ToldAtOnce DEF Starts
<1> QED BY <1>1, <1>2, <1>3, ArmMoves DEF MoveTo

(* An arm is told of a failure, or of nothing.                             *)
LEMMA ArmHears ==
    /\ "started" \notin ToSet(<<>>) /\ "started" \notin ToSet(Failure)
    /\ \A e \in Ends : <<e>> \in Endings /\ "started" \notin ToSet(<<e>>)
<1>1. \A e \in Ends : <<e>> \in Endings /\ "started" \notin ToSet(<<e>>)
  BY ToldAtOnce DEF Endings, Ends
<1>2. "cancelled" \in Ends /\ "failed" \in Ends
  BY DEF Ends
<1>3. CASE aborted
  BY <1>1, <1>2, <1>3, ToldAtOnce DEF Failure
<1>4. CASE ~aborted
  BY <1>1, <1>2, <1>4, ToldAtOnce DEF Failure
<1> QED BY <1>1, <1>3, <1>4

LEMMA ResolveArmInputKept ==
    ASSUME RunInv, NEW a \in Arms, ResolveArmInput(a)
    PROVE  RunInv'
<1>1. phase[a] \in InProgress /\ UNCHANGED <<plan, aborted, run, layer, step, gate>>
  BY DEF ResolveArmInput, InProgress
<1>2. CASE MoveTo(a, "thrown") /\ UNCHANGED log
  <2>1. log' = [log EXCEPT ![a] = @ \o <<>>]
    BY <1>2, NothingTold DEF Invocations
  <2> QED BY <1>1, <1>2, <2>1, ArmEnds, ArmHears, FailureEnds
<1>3. CASE MoveTo(a, "thrown") /\ Tell(a, <<"failed">>)
  <2>1. "failed" \in Ends
    BY DEF Ends
  <2> QED BY <1>1, <1>3, <2>1, ArmEnds, ArmHears DEF Tell
<1>4. CASE MoveTo(a, "thrown") /\ Tell(a, Failure)
  BY <1>1, <1>4, ArmEnds, ArmHears, FailureEnds DEF Tell
<1>5. CASE /\ MoveTo(a, IF plan.source[a] = NoSource THEN "admission" ELSE "gate")
           /\ UNCHANGED log
  <2>1. CASE plan.source[a] = NoSource
    BY <1>1, <1>5, <2>1, ArmGoesOn
  <2>2. CASE plan.source[a] # NoSource
    BY <1>1, <1>5, <2>2, ArmGoesOn
  <2> QED BY <2>1, <2>2
<1> QED BY <1>2, <1>3, <1>4, <1>5 DEF ResolveArmInput, PreflightArm

LEMMA PassGateKept ==
    ASSUME RunInv, NEW a \in Arms, PassGate(a)
    PROVE  RunInv'
<1>1. phase[a] \in InProgress /\ UNCHANGED <<plan, aborted, run, layer, step, gate>>
  BY DEF PassGate, InProgress
<1>2. CASE gate[plan.source[a]] = "succeeded" /\ MoveTo(a, "admission") /\ UNCHANGED log
  BY <1>1, <1>2, ArmGoesOn
<1>3. CASE MoveTo(a, "thrown") /\ Tell(a, Failure)
  BY <1>1, <1>3, ArmEnds, ArmHears, FailureEnds DEF Tell
<1> QED BY <1>2, <1>3 DEF PassGate

LEMMA AdmitArmKept ==
    ASSUME RunInv, NEW a \in Arms, AdmitArm(a)
    PROVE  RunInv'
<1>1. /\ phase[a] = "admission" /\ phase[a] \in InProgress
      /\ UNCHANGED <<plan, aborted, run, layer, step, gate>>
  BY DEF AdmitArm, InProgress
<1>2. CASE MoveTo(a, "thrown") /\ UNCHANGED log
  <2>1. log' = [log EXCEPT ![a] = @ \o <<>>]
    BY <1>2, NothingTold DEF Invocations
  <2> QED BY <1>1, <1>2, <2>1, ArmEnds, ArmHears, FailureEnds
<1>3. CASE MoveTo(a, "executing") /\ Tell(a, <<"started">>)
  <2>1. plan.source[a] # NoSource => gate[plan.source[a]] = "succeeded"
    BY <1>1 DEF RunInv, ArmFits
  <2>2. "executing" \in Phases /\ <<"started">> \in Starts
    BY DEF Phases, Starts
  <2> QED BY <1>1, <1>3, <2>1, <2>2, ArmMoves DEF MoveTo, Tell
<1> QED BY <1>2, <1>3 DEF AdmitArm

LEMMA ExecuteArmKept ==
    ASSUME RunInv, NEW a \in Arms, ExecuteArm(a)
    PROVE  RunInv'
<1>1. /\ phase[a] \in InProgress
      /\ UNCHANGED <<plan, aborted, run, layer, step, gate>>
      /\ "succeeded" \in Ends /\ "failed" \in Ends
  BY DEF ExecuteArm, InProgress, Ends
<1>2. CASE MoveTo(a, "done") /\ Tell(a, <<"succeeded">>)
  <2>1. "done" \in Phases /\ "done" \notin InProgress
    BY DEF Phases, InProgress
  <2>2. <<"succeeded">> \in Endings /\ "started" \notin ToSet(<<"succeeded">>)
    BY <1>1, ArmHears
  <2> QED BY <1>1, <1>2, <2>1, <2>2, ArmMoves DEF MoveTo, Tell
<1>3. CASE MoveTo(a, "thrown") /\ Tell(a, <<"failed">>)
  BY <1>1, <1>3, ArmEnds, ArmHears DEF Tell
<1>4. CASE MoveTo(a, "thrown") /\ UNCHANGED log
  <2>1. log' = [log EXCEPT ![a] = @ \o <<>>]
    BY <1>4, NothingTold DEF Invocations
  <2> QED BY <1>1, <1>4, <2>1, ArmEnds, ArmHears, FailureEnds
<1> QED BY <1>2, <1>3, <1>4 DEF ExecuteArm

(* A choice settles after its arm.                                         *)
LEMMA ChoiceSettles ==
    ASSUME RunInv, NEW c \in ChoiceNodes, phase[c] = "branching",
           UNCHANGED <<plan, aborted, run, layer, gate>>,
           NEW a \in ArmsOf(c), phase[a] \in {"done", "thrown"},
           NEW T \in SUBSET Settled, Settle(c, T),
           NEW es \in Endings, Tell(c, es),
           "success" \in T => phase[a] = "done" /\ "succeeded" \in ToSet(es)
    PROVE  RunInv'
<1>1. PICK s \in T : /\ step' = [step EXCEPT ![c] = s]
                     /\ phase' = [phase EXCEPT ![c] = IF s = "success" THEN "done" ELSE "thrown"]
  BY DEF Settle
<1> DEFINE p == IF s = "success" THEN "done" ELSE "thrown"
<1>2. c \in Nodes /\ a \in Arms /\ ArmsFit(c) /\ ArmFits(a) /\ plan \in Plans
  BY PlanFacts DEF RunInv, TypeOK
<1>3. step[c] = "running" /\ gate[c] = "none"
  BY <1>2, NodeAt DEF InProgress
<1>4. p \in Phases \ (InProgress \cup {"idle"}) /\ (p = "done" <=> s = "success") /\ s # "running"
  BY DEF Phases, InProgress, Settled
<1>5. \A b \in ArmsOf(c) : b # a => phase[b] = "idle" /\ Ended(b)
  BY <1>2 DEF ArmsFit
<1>6. \A b \in ArmsOf(c) : phase[b] \notin InProgress
  BY <1>5 DEF InProgress
<1>7. p = "done" => \A b \in ArmsOf(c) : Ended(b)
  BY <1>2, <1>4, <1>5 DEF ArmFits
<1>8. phase' = [phase EXCEPT ![c] = p] /\ gate' = [gate EXCEPT ![c] = "none"]
  BY <1>1, <1>2, <1>3, NodeAt
<1>9. log' = [log EXCEPT ![c] = @ \o es]
  BY DEF Tell
<1>10. s = "success" => "succeeded" \in ToSet(es)
  OBVIOUS
<1>11. p \in Phases /\ p \notin InProgress /\ p # "idle" /\ p \notin {"condition", "branching"}
       /\ s \in Settled \cup {"running"}
  BY <1>4 DEF InProgress
<1> HIDE DEF p
<1> QED BY <1>1, <1>2, <1>3, <1>4, <1>6, <1>7, <1>8, <1>9, <1>10, <1>11, NodeMoves

LEMMA EndChoiceKept ==
    ASSUME RunInv, NEW c \in Nodes, EndChoice(c)
    PROVE  RunInv'
<1>1. /\ phase[c] = "branching" /\ c \in ChoiceNodes
      /\ UNCHANGED <<plan, aborted, run, layer, gate>>
  BY DEF EndChoice
<1>2. /\ Threw \in SUBSET Settled /\ "success" \notin Threw /\ Returned \in SUBSET Settled
      /\ "succeeded" \in Ends
  BY DEF Threw, Returned, Settled, Ends
<1>3. PICK a \in ArmsOf(c) :
         \/ phase[a] = "done" /\ Tell(c, <<"succeeded">>) /\ Settle(c, Returned)
         \/ phase[a] = "done" /\ aborted /\ Tell(c, Failure) /\ Settle(c, Threw)
         \/ phase[a] = "thrown" /\ Tell(c, Failure) /\ Settle(c, Threw)
  BY DEF EndChoice
<1>4. CASE phase[a] = "done" /\ Tell(c, <<"succeeded">>) /\ Settle(c, Returned)
  <2>1. <<"succeeded">> \in Endings /\ "succeeded" \in ToSet(<<"succeeded">>)
    BY <1>2, ToldAtOnce DEF Endings
  <2> QED BY <1>1, <1>2, <1>4, <2>1, ChoiceSettles
<1>5. CASE phase[a] \in {"done", "thrown"} /\ Tell(c, Failure) /\ Settle(c, Threw)
  BY <1>1, <1>2, <1>5, ChoiceSettles, FailureEnds
<1> QED BY <1>3, <1>4, <1>5

(* The condition of a choice has an outcome: arms hear that they are       *)
(* skipped, and the step throws or the other arm begins.                   *)
LEMMA ConditionResolved ==
    ASSUME RunInv, NEW c \in ChoiceNodes, phase[c] = "condition",
           UNCHANGED <<plan, aborted, run, layer, gate>>,
           NEW S \in SUBSET ArmsOf(c), NEW es \in Starts \cup Endings, Skip(c, S, es),
           \/ Settle(c, Threw)
           \/ \E a \in ArmsOf(c) : BranchTo(c, a) /\ S = ArmsOf(c) \ {a} /\ es \in Starts
    PROVE  RunInv'
<1>1. /\ TypeOK /\ LayersFit /\ ArmsFit(c) /\ plan \in Plans
      /\ \A i \in Invocations : EndsOnce(log[i])
  BY DEF RunInv, TypeOK
<1>2. /\ ChoiceNodes \subseteq Nodes /\ (\A m \in Nodes : m \notin Arms)
      /\ \A d \in ChoiceNodes : ArmsOf(d) \subseteq Arms
      /\ \A d \in ChoiceNodes, b \in Arms : (b \in ArmsOf(c) /\ b \in ArmsOf(d)) => c = d
  BY <1>1, PlanFacts
<1>3. /\ c \in Nodes /\ NodeFits(c) /\ ToldFits(c) /\ step[c] = "running" /\ gate[c] = "none"
      /\ run = "running"
  BY <1>1, <1>2, NodeAt DEF RunInv, InProgress, LayersFit, Invocations
<1>4. \A b \in ArmsOf(c) : phase[b] = "idle" /\ ~Ended(b) /\ b \in Invocations /\ b # c
  BY <1>1, <1>2, <1>3 DEF ArmsFit, Invocations, Settled
(* The logs. *)
<1>5. /\ log'[c] = log[c] \o es /\ \A b \in S : log'[b] = Append(log[b], "skipped")
      /\ \A i \in Invocations : (i # c /\ i \notin S) => log'[i] = log[i]
      /\ DOMAIN log' = Invocations
  BY <1>2, <1>3, <1>4 DEF Skip, Invocations
<1>6. /\ log'[c] \in Seq(LogEvents) /\ EndsOnce(log'[c]) /\ (HasEnd(log'[c]) <=> HasEnd(es))
      /\ \A e : e \in ToSet(log'[c]) <=> e \in ToSet(log[c]) \/ e \in ToSet(es)
  <2> DEFINE t == log[c] \o es
  <2>1. log[c] \in Seq(LogEvents) /\ ~HasEnd(log[c])
    BY <1>1, <1>3 DEF TypeOK, ToldFits, Ended, HasEnd, LogEvents, InProgress, Invocations
  <2>2. es \in Seq(LogEvents) /\ EndsOnce(es)
    BY ToldAtOnce
  <2>3. /\ t \in Seq(LogEvents) /\ EndsOnce(t) /\ (HasEnd(t) <=> HasEnd(es))
        /\ \A e : e \in ToSet(t) <=> e \in ToSet(log[c]) \/ e \in ToSet(es)
    BY <2>1, <2>2, LogGrows
  <2>4. log'[c] = t
    BY <1>5
  <2> HIDE DEF t
  <2> QED BY <2>3, <2>4
<1>7. ASSUME NEW b \in S
      PROVE  /\ log'[b] \in Seq(LogEvents) /\ EndsOnce(log'[b]) /\ HasEnd(log'[b])
             /\ \A e : e \in ToSet(log'[b]) <=> e \in ToSet(log[b]) \/ e = "skipped"
  <2> DEFINE t == log[b] \o <<"skipped">>
  <2>1. log[b] \in Seq(LogEvents) /\ ~HasEnd(log[b])
    BY <1>1, <1>4 DEF TypeOK, Ended, HasEnd, LogEvents
  <2>2. "skipped" \in Ends
    BY DEF Ends
  <2>3. /\ <<"skipped">> \in Seq(LogEvents) /\ EndsOnce(<<"skipped">>) /\ HasEnd(<<"skipped">>)
        /\ ToSet(<<"skipped">>) = {"skipped"}
    BY <2>2, ToldAtOnce DEF Endings
  <2>4. /\ t \in Seq(LogEvents) /\ EndsOnce(t) /\ HasEnd(t)
        /\ \A e : e \in ToSet(t) <=> e \in ToSet(log[b]) \/ e \in {"skipped"}
    BY <2>1, <2>3, LogGrows
  <2>5. Append(log[b], "skipped") = t
    BY <2>1
  <2>6. log'[b] = t
    BY <1>5, <2>5
  <2> HIDE DEF t
  <2> QED BY <2>4, <2>6
<1>8. log' \in [Invocations -> Seq(LogEvents)]
  <2>1. \A i \in Invocations : log'[i] \in Seq(LogEvents)
    BY <1>1, <1>5, <1>6, <1>7 DEF TypeOK, LogEvents
  <2>2. log' = [i \in Invocations |-> log'[i]]
    BY DEF Skip
  <2> QED BY <2>1, <2>2
<1>9. ASSUME NEW i \in Invocations PROVE EndsOnce(log'[i])
  BY <1>1, <1>5, <1>6, <1>7
<1>10. Nodes' = Nodes /\ ChoiceNodes' = ChoiceNodes /\ Arms' = Arms /\ Invocations' = Invocations
       /\ LayerOf' = LayerOf /\ \A d : ArmsOf(d)' = ArmsOf(d)
  BY DEF Nodes, ChoiceNodes, Arms, Invocations, LayerOf, ArmsOf
<1>11. EveryoneTold'
  BY <1>3 DEF EveryoneTold, Settled
(* The other nodes. *)
<1>12. ASSUME \A m \in Nodes : m # c => step'[m] = step[m] /\ phase'[m] = phase[m],
              NEW m \in Nodes, m # c
       PROVE  NodeFits(m)' /\ ToldFits(m)'
  <2>1. m \notin S
    BY <1>2
  <2> QED BY <1>5, <1>12, <2>1, NodeKept DEF Invocations
<1>13. CASE Settle(c, Threw)
  <2>1. PICK s \in {"failed", "canceled"} :
           step' = [step EXCEPT ![c] = s] /\ phase' = [phase EXCEPT ![c] = "thrown"]
    BY <1>13 DEF Settle, Threw
  <2>2. /\ step'[c] = s /\ \A m \in Nodes : m # c => step'[m] = step[m]
        /\ phase'[c] = "thrown" /\ \A i \in Invocations : i # c => phase'[i] = phase[i]
    BY <1>1, <1>3, <2>1 DEF TypeOK, Invocations
  <2>3. TypeOK'
    <3>1. step' \in [Nodes -> Settled \cup {"none", "running"}]
      BY <1>1, <2>1 DEF TypeOK, Settled
    <3>2. phase' \in [Invocations -> Phases]
      BY <1>1, <2>1 DEF TypeOK, Phases
    <3> QED BY <1>1, <1>8, <3>1, <3>2 DEF TypeOK, Phases, LogEvents, Nodes, Invocations, Arms
  <2>4. LayersFit'
    BY <1>1, <1>3, <1>10, <2>2 DEF LayersFit
  <2>5. NodeFits(c)'
    BY <1>3, <1>10, <2>2 DEF NodeFits, Settled, InProgress
  <2>6. ToldFits(c)'
    BY <1>3, <2>2 DEF ToldFits, InProgress
  <2>7. ASSUME NEW d \in ChoiceNodes PROVE ArmsFit(d)'
    <3>1. CASE d = c
      <4>1. \A b \in ArmsOf(c) : phase'[b] = "idle"
        BY <1>4, <2>2
      <4> QED BY <1>10, <2>2, <3>1, <4>1 DEF ArmsFit
    <3>2. CASE d # c
      <4>1. \A b \in ArmsOf(d) : phase'[b] = phase[b] /\ log'[b] = log[b]
        BY <1>2, <1>5, <2>2, <3>2 DEF Invocations
      <4> QED BY <1>2, <2>2, <3>2, <4>1, ChoiceKept DEF Invocations
    <3> QED BY <3>1, <3>2
  <2>8. ASSUME NEW a \in Arms PROVE ArmFits(a)'
    <3>1. phase'[a] = phase[a] /\ a \in Invocations /\ a # c
      BY <1>2, <1>3, <2>2 DEF Invocations
    <3>2. CASE a \in S
      <4>1. phase[a] = "idle" /\ ArmFits(a)
        BY <1>4, <3>2 DEF RunInv
      <4>2. ~("started" \in ToSet(log'[a]))
        BY <1>7, <3>2, <4>1 DEF ArmFits, Has
      <4> QED BY <3>1, <4>1, <4>2 DEF ArmFits, Has, InProgress
    <3>3. CASE a \notin S
      <4>1. ASSUME phase[a] \in InProgress, NEW d \in ChoiceNodes, a \in ArmsOf(d), phase[d] = "branching"
            PROVE  phase'[d] = "branching"
        BY <1>2, <2>2, <4>1 DEF Invocations
      <4> QED BY <1>5, <3>1, <3>3, <4>1, ArmKept
    <3> QED BY <3>2, <3>3
  <2>9. \A m \in Nodes : m # c => phase'[m] = phase[m]
    BY <2>2 DEF Invocations
  <2> QED BY <1>9, <1>10, <1>11, <1>12, <2>2, <2>3, <2>4, <2>5, <2>6, <2>7, <2>8, <2>9 DEF RunInv
<1>14. ASSUME NEW a \in ArmsOf(c), BranchTo(c, a), S = ArmsOf(c) \ {a}, es \in Starts
       PROVE  RunInv'
  <2>1. phase' = [phase EXCEPT ![c] = "branching", ![a] = "input"] /\ step' = step
    BY <1>14 DEF BranchTo
  <2>2. /\ a \in Arms /\ a # c /\ a \in Invocations /\ phase'[c] = "branching" /\ phase'[a] = "input"
        /\ \A i \in Invocations : (i # c /\ i # a) => phase'[i] = phase[i]
    BY <1>1, <1>2, <1>3, <1>4, <2>1 DEF TypeOK, Invocations
  <2>3. TypeOK'
    <3>1. phase' \in [Invocations -> Phases]
      BY <1>1, <2>1 DEF TypeOK, Phases
    <3> QED BY <1>1, <1>8, <2>1, <3>1 DEF TypeOK, Phases, LogEvents, Nodes, Invocations, Arms
  <2>4. LayersFit'
    BY <1>1, <1>3, <1>10, <2>1 DEF LayersFit
  <2>5. NodeFits(c)'
    BY <1>3, <1>10, <2>1, <2>2 DEF NodeFits, Settled, InProgress
  <2>6. ToldFits(c)'
    <3>1. ~HasEnd(es)
      BY <1>14, ToldAtOnce
    <3> QED BY <1>3, <1>6, <2>1, <2>2, <3>1 DEF ToldFits, Has, Ended, HasEnd
  <2>7. ASSUME NEW d \in ChoiceNodes PROVE ArmsFit(d)'
    <3>1. CASE d = c
      <4>1. \A b \in ArmsOf(c) : b # a => phase'[b] = "idle" /\ Ended(b)'
        BY <1>4, <1>7, <1>14, <2>2 DEF Ended, HasEnd
      <4> QED BY <1>10, <2>2, <3>1, <4>1 DEF ArmsFit
    <3>2. CASE d # c
      <4>1. \A b \in ArmsOf(d) : b # a /\ b # c /\ b \in Invocations /\ b \notin S
        BY <1>2, <3>2 DEF Invocations
      <4>2. phase'[d] = phase[d] /\ \A b \in ArmsOf(d) : phase'[b] = phase[b] /\ log'[b] = log[b]
        BY <1>2, <1>5, <2>2, <3>2, <4>1 DEF Invocations
      <4> QED BY <4>2, ChoiceKept
    <3> QED BY <3>1, <3>2
  <2>8. ArmFits(a)'
    <3>1. ArmFits(a) /\ phase[a] = "idle" /\ log'[a] = log[a] /\ ~Ended(a)
      BY <1>4, <1>5, <1>14, <2>2 DEF RunInv
    <3> QED BY <1>10, <2>2, <3>1 DEF ArmFits, Has, Ended
  <2>9. ASSUME NEW b \in Arms, b # a PROVE ArmFits(b)'
    <3>1. phase'[b] = phase[b] /\ b \in Invocations /\ b # c
      BY <1>2, <1>3, <2>2, <2>9 DEF Invocations
    <3>2. CASE b \in S
      <4>1. phase[b] = "idle" /\ ArmFits(b)
        BY <1>4, <3>2 DEF RunInv
      <4>2. ~("started" \in ToSet(log'[b]))
        BY <1>7, <3>2, <4>1 DEF ArmFits, Has
      <4> QED BY <3>1, <4>1, <4>2 DEF ArmFits, Has, InProgress
    <3>3. CASE b \notin S
      <4>1. ASSUME phase[b] \in InProgress, NEW d \in ChoiceNodes, b \in ArmsOf(d), phase[d] = "branching"
            PROVE  phase'[d] = "branching"
        BY <1>2, <2>2, <4>1 DEF Invocations
      <4> QED BY <1>5, <3>1, <3>3, <4>1, ArmKept
    <3> QED BY <3>2, <3>3
  <2>10. \A m \in Nodes : m # c => step'[m] = step[m] /\ phase'[m] = phase[m]
    BY <1>2, <2>1, <2>2 DEF Invocations
  <2> QED BY <1>9, <1>10, <1>11, <1>12, <2>3, <2>4, <2>5, <2>6, <2>7, <2>8, <2>9, <2>10 DEF RunInv
<1> QED BY <1>13, <1>14

LEMMA ChooseKept ==
    ASSUME RunInv, NEW c \in Nodes, Choose(c)
    PROVE  RunInv'
<1>1. /\ phase[c] = "condition" /\ c \in ChoiceNodes
      /\ UNCHANGED <<plan, aborted, run, layer, gate>>
  BY DEF Choose
<1>2. <<"started">> \in Starts /\ <<"started">> \o Failure \in Endings
  BY FailureEnds DEF Starts
<1>3. CASE Skip(c, {}, <<"started">> \o Failure) /\ Settle(c, Threw)
  BY <1>1, <1>2, <1>3, ConditionResolved
<1>4. CASE Skip(c, ArmsOf(c), <<"started">> \o Failure) /\ Settle(c, Threw)
  BY <1>1, <1>2, <1>4, ConditionResolved
<1>5. ASSUME NEW a \in ArmsOf(c), Skip(c, ArmsOf(c) \ {a}, <<"started">> \o Failure), Settle(c, Threw)
      PROVE  RunInv'
  BY <1>1, <1>2, <1>5, ConditionResolved
<1>6. ASSUME NEW a \in ArmsOf(c), Skip(c, ArmsOf(c) \ {a}, <<"started">>), BranchTo(c, a)
      PROVE  RunInv'
  BY <1>1, <1>2, <1>6, ConditionResolved
<1> QED BY <1>3, <1>4, <1>5, <1>6 DEF Choose

-----------------------------------------------------------------------------
(* The run. *)

LEMMA AbortKept ==
    ASSUME RunInv, Abort
    PROVE  RunInv'
<1>1. UNCHANGED <<plan, run, layer, step, phase, log, gate>> /\ aborted' \in BOOLEAN
  BY DEF Abort
<1>2. /\ Nodes' = Nodes /\ ChoiceNodes' = ChoiceNodes /\ Arms' = Arms /\ Invocations' = Invocations
      /\ LayerOf' = LayerOf
  BY <1>1 DEF Nodes, ChoiceNodes, Arms, Invocations, LayerOf
<1>3. \A n \in Nodes : NodeFits(n)' /\ ToldFits(n)'
  BY <1>1, NodeKept
<1>4. \A c \in ChoiceNodes : ArmsFit(c)'
  BY <1>1, ChoiceKept
<1>5. \A a \in Arms : ArmFits(a)'
  BY <1>1, ArmKept
<1>6. TypeOK' /\ LayersFit'
  BY <1>1, <1>2 DEF RunInv, TypeOK, LayersFit
<1>7. EveryoneTold' /\ \A i \in Invocations : EndsOnce(log'[i])
  BY <1>1, <1>2 DEF RunInv, EveryoneTold, Ended, ArmsOf
<1> QED BY <1>2, <1>3, <1>4, <1>5, <1>6, <1>7 DEF RunInv

(* The steps of a layer start: none has begun, and those below succeeded.  *)
LEMMA LayerStarts ==
    ASSUME RunInv, NEW l \in Nat, StartLayer(l), run' = "running",
           UNCHANGED <<plan, aborted, log, gate>>,
           run \notin Settled, \A i \in Invocations : phase[i] \notin InProgress,
           \A n \in Nodes : LayerOf[n] < l => step[n] = "success",
           \A n \in Nodes : LayerOf[n] >= l => step[n] = "none"
    PROVE  RunInv'
<1>1. /\ TypeOK /\ plan \in Plans
      /\ \A i \in Invocations : EndsOnce(log[i])
  BY DEF RunInv, TypeOK
<1>2. /\ ChoiceNodes \subseteq Nodes /\ (\A m \in Nodes : m \notin Arms)
      /\ \A d \in ChoiceNodes : ArmsOf(d) \subseteq Arms
      /\ LayerOf \in [Nodes -> Nat]
  BY <1>1, PlanFacts
<1> DEFINE first(n) == IF plan.kind[n] = "choice" THEN "condition" ELSE "input"
<1>3. /\ layer' = l
      /\ \A n \in InLayer(l) : n \in Nodes /\ step'[n] = "running" /\ phase'[n] = first(n)
      /\ \A n \in Nodes : n \notin InLayer(l) => step'[n] = step[n]
      /\ \A i \in Invocations : i \notin InLayer(l) => phase'[i] = phase[i]
  BY DEF StartLayer, InLayer, Invocations
<1>4. \A n \in Nodes : n \in ChoiceNodes <=> plan.kind[n] = "choice"
  BY <1>1, PlanAssumption DEF ChoiceNodes, Nodes
<1>5. \A n \in InLayer(l) : LayerOf[n] = l /\ step[n] = "none"
  BY <1>2 DEF InLayer
<1>6. /\ Nodes' = Nodes /\ ChoiceNodes' = ChoiceNodes /\ Arms' = Arms /\ Invocations' = Invocations
      /\ LayerOf' = LayerOf /\ \A d : ArmsOf(d)' = ArmsOf(d)
  BY DEF Nodes, ChoiceNodes, Arms, Invocations, LayerOf, ArmsOf
<1>7. TypeOK'
  <2>1. step' \in [Nodes -> Settled \cup {"none", "running"}]
    BY <1>1 DEF TypeOK, StartLayer
  <2>2. phase' \in [Invocations -> Phases]
    BY <1>1 DEF TypeOK, StartLayer, Phases
  <2> QED BY <1>1, <1>3, <1>6, <2>1, <2>2 DEF TypeOK, Phases
<1>8. LayersFit'
  <2>1. \A n \in Nodes : LayerOf[n] < l => step'[n] = "success"
    BY <1>3, <1>5
  <2>2. \A n \in Nodes : step'[n] # "none" => LayerOf[n] <= l
    BY <1>2, <1>3, <1>5
  <2> QED BY <1>3, <1>6, <2>1, <2>2 DEF LayersFit
<1>9. ASSUME NEW n \in Nodes PROVE NodeFits(n)' /\ ToldFits(n)'
  <2>1. CASE n \in InLayer(l)
    <3>1. /\ step[n] = "none" /\ step'[n] = "running" /\ phase'[n] = first(n) /\ n \in Invocations
          /\ NodeFits(n) /\ ToldFits(n) /\ phase[n] = "idle"
      BY <1>3, <1>5, <2>1 DEF RunInv, NodeFits, Invocations
    <3>2. /\ phase'[n] \in {"condition", "input"} /\ (phase'[n] = "condition" <=> n \in ChoiceNodes)
      BY <1>4, <3>1
    <3>3. NodeFits(n)'
      BY <1>6, <3>1, <3>2 DEF NodeFits, InProgress, Settled, Has
    <3>4. ToldFits(n)'
      BY <3>1, <3>2 DEF ToldFits, Has, Ended
    <3> QED BY <3>3, <3>4
  <2>2. CASE n \notin InLayer(l)
    BY <1>3, <2>2, NodeKept DEF Invocations
  <2> QED BY <2>1, <2>2
<1>10. ASSUME NEW c \in ChoiceNodes PROVE ArmsFit(c)'
  <2>1. \A a \in ArmsOf(c) : phase'[a] = phase[a] /\ log'[a] = log[a]
    BY <1>2, <1>3 DEF Invocations, InLayer
  <2>2. CASE c \in InLayer(l)
    <3>1. ArmsFit(c) /\ phase[c] = "idle" /\ phase'[c] = "condition"
      BY <1>2, <1>3, <1>4, <1>5, <2>2 DEF RunInv, NodeFits
    <3> QED BY <1>6, <2>1, <3>1 DEF ArmsFit, Ended
  <2>3. CASE c \notin InLayer(l)
    BY <1>2, <1>3, <2>1, <2>3, ChoiceKept DEF Invocations
  <2> QED BY <2>2, <2>3
<1>11. ASSUME NEW a \in Arms PROVE ArmFits(a)'
  <2>1. phase'[a] = phase[a] /\ phase[a] \notin InProgress
    BY <1>2, <1>3 DEF Invocations, InLayer
  <2> QED BY <2>1, ArmKept
<1>12. EveryoneTold'
  BY DEF EveryoneTold, Settled
<1> QED BY <1>1, <1>6, <1>7, <1>8, <1>9, <1>10, <1>11, <1>12 DEF RunInv

LEMMA NextLayerKept ==
    ASSUME RunInv, NextLayer
    PROVE  RunInv'
<1>1. /\ TypeOK /\ LayersFit /\ plan \in Plans /\ layer \in Nat /\ run = "running" /\ run' = run
      /\ \A n \in Nodes : NodeFits(n)
  BY DEF RunInv, TypeOK, NextLayer, LayerSettled
<1>2. /\ LayerOf \in [Nodes -> Nat] /\ \A d \in ChoiceNodes : ArmsOf(d) \subseteq Arms
  BY <1>1, PlanFacts
<1>3. \A n \in Nodes : LayerOf[n] < layer + 1 => step[n] = "success"
  BY <1>1, <1>2 DEF NextLayer, LayerSucceeded, InLayer, LayersFit
<1>4. \A n \in Nodes : LayerOf[n] >= layer + 1 => step[n] = "none"
  BY <1>1, <1>2 DEF LayersFit
<1>5. \A n \in Nodes : phase[n] \notin InProgress
  BY <1>1, <1>2, <1>3, <1>4 DEF NodeFits
<1>6. \A a \in Arms : phase[a] \notin InProgress
  BY <1>1, <1>5, PlanFacts DEF RunInv, ArmFits, InProgress
<1> QED BY <1>1, <1>3, <1>4, <1>5, <1>6, LayerStarts DEF NextLayer, Settled, Invocations

(* No layer is empty below one that is not.                                *)
LEMMA NoGap ==
    ASSUME plan \in Plans, layer \in Nat, LastLayer
    PROVE  \A n \in Nodes : LayerOf[n] <= layer
<1> DEFINE Greater == {LayerOf[n] : n \in {m \in Nodes : LayerOf[m] > layer}}
<1>1. LayerOf \in [Nodes -> Nat]
  BY PlanFacts
<1>2. ASSUME Greater # {} PROVE FALSE
  <2>1. Greater \in SUBSET Nat
    BY <1>1
  <2>2. PICK x \in Greater : \A y \in Greater : x <= y
    BY <1>2, <2>1, LeastNumber
  <2>3. PICK n \in Nodes : LayerOf[n] = x /\ LayerOf[n] > layer
    BY <2>2
  <2>4. PICK d \in Nodes : LayerOf[n] = LayerOf[d] + 1
    BY <1>1, <2>3, PlanFacts
  <2>5. LayerOf[d] \in Nat /\ LayerOf[d] \notin Greater
    BY <1>1, <2>2, <2>3, <2>4
  <2>6. LayerOf[d] = layer
    BY <1>1, <2>3, <2>4, <2>5
  <2> QED BY <2>3, <2>4, <2>6 DEF LastLayer, InLayer
<1>3. \A n \in Nodes : ~(LayerOf[n] > layer)
  BY <1>2
<1> QED BY <1>1, <1>3

(* The run is over, and whoever has not heard how it ended is told.        *)
LEMMA RunSettles ==
    ASSUME RunInv, NEW status \in Settled, run' = status, TellTheRest(status),
           UNCHANGED <<plan, aborted, layer, step, phase, gate>>, run \notin Settled,
           \A i \in Invocations : phase[i] \notin InProgress,
           status = "success" => \A n \in Nodes : step[n] # "none"
    PROVE  RunInv'
<1>1. /\ TypeOK /\ LayersFit /\ plan \in Plans
      /\ \A i \in Invocations : EndsOnce(log[i])
  BY DEF RunInv, TypeOK
<1>2. /\ ChoiceNodes \subseteq Nodes /\ (\A m \in Nodes : m \notin Arms)
      /\ \A c \in ChoiceNodes : ArmsOf(c) \subseteq Arms
      /\ \A c, d \in ChoiceNodes, a \in Arms : (a \in ArmsOf(c) /\ a \in ArmsOf(d)) => c = d
  BY <1>1, PlanFacts
<1>3. /\ Nodes' = Nodes /\ ChoiceNodes' = ChoiceNodes /\ Arms' = Arms /\ Invocations' = Invocations
      /\ LayerOf' = LayerOf /\ \A c : ArmsOf(c)' = ArmsOf(c)
  BY DEF Nodes, ChoiceNodes, Arms, Invocations, LayerOf, ArmsOf
<1> DEFINE told(i) == CHOOSE n \in Nodes : i \in Targets(n)
           more(i) == IF Ended(i) \/ ~\E n \in Nodes : i \in Targets(n)
                      THEN <<>> ELSE Disposition(status, step[told(i)])
<1>4. \A t : Disposition(status, t) \in {<<>>, <<"cancelled">>, <<"skipped">>}
  BY DEF Disposition
<1>5. \A i \in Invocations : more(i) \in {<<>>, <<"cancelled">>, <<"skipped">>}
  BY <1>4
<1>6. \A i \in Invocations : log[i] \in Seq(LogEvents) /\ log[i] \o <<>> = log[i]
  BY <1>1 DEF TypeOK, LogEvents
<1>7. \A i \in Invocations : log'[i] = log[i] \o more(i)
  BY <1>6 DEF TellTheRest
<1>8. \A i \in Invocations : Ended(i) => more(i) = <<>>
  OBVIOUS
<1> HIDE DEF more
(* What becomes of one log. *)
<1>9. ASSUME NEW i \in Invocations
      PROVE  /\ log'[i] \in Seq(LogEvents) /\ EndsOnce(log'[i])
             /\ (HasEnd(log[i]) \/ more(i) # <<>>) => HasEnd(log'[i])
             /\ "started" \in ToSet(log'[i]) => "started" \in ToSet(log[i])
             /\ "succeeded" \in ToSet(log[i]) => "succeeded" \in ToSet(log'[i])
  <2>1. CASE more(i) = <<>>
    BY <1>1, <1>6, <1>7, <2>1
  <2>2. CASE more(i) # <<>>
    <3> DEFINE es == more(i)
               t == log[i] \o es
    <3>1. ~HasEnd(log[i])
      BY <1>8, <2>2 DEF Ended, HasEnd
    <3>2. es \in {<<"cancelled">>, <<"skipped">>} /\ "cancelled" \in Ends /\ "skipped" \in Ends
      BY <1>5, <2>2 DEF Ends
    <3>3. /\ es \in Seq(LogEvents) /\ EndsOnce(es) /\ HasEnd(es)
          /\ ToSet(es) \in {{"cancelled"}, {"skipped"}}
      BY <3>2, ToldAtOnce DEF Endings
    <3>4. log[i] \in Seq(LogEvents)
      BY <1>6
    <3> HIDE DEF es
    <3>5. /\ t \in Seq(LogEvents) /\ EndsOnce(t) /\ (HasEnd(t) <=> HasEnd(es))
          /\ \A e : e \in ToSet(t) <=> e \in ToSet(log[i]) \/ e \in ToSet(es)
      BY <3>1, <3>3, <3>4, LogGrows
    <3>6. log'[i] = t
      BY <1>7 DEF es
    <3> HIDE DEF t
    <3> QED BY <3>3, <3>5, <3>6
  <2> QED BY <2>1, <2>2
<1>10. ASSUME NEW n \in Nodes, NEW i \in Targets(n), i \in Invocations,
              step[n] \in {"none", "canceled"}
       PROVE  HasEnd(log'[i])
  <2>1. CASE HasEnd(log[i])
    BY <1>9, <1>10, <2>1
  <2>2. CASE ~HasEnd(log[i])
    <3>1. told(i) \in Nodes /\ i \in Targets(told(i))
      BY Zenon
    <3>2. told(i) = n
      BY <1>2, <3>1 DEF Targets
    <3>3. more(i) = Disposition(status, step[n])
      BY <2>2, <3>2 DEF more, Ended, HasEnd
    <3>4. status = "canceled" \/ status = "failed" \/ step[n] = "canceled"
      BY <1>10 DEF Settled
    <3>5. Disposition(status, step[n]) # <<>>
      BY <1>10, <3>4 DEF Disposition
    <3> QED BY <1>9, <1>10, <3>3, <3>5
  <2> QED BY <2>1, <2>2
<1>11. \A n \in Nodes : n \in Invocations /\ n \in Targets(n)
  BY DEF Invocations, Targets
<1>12. \A c \in ChoiceNodes : \A a \in ArmsOf(c) : a \in Invocations /\ a \in Targets(c)
  BY <1>2 DEF Invocations, Targets
<1>13. TypeOK'
  <2>1. log' = [i \in Invocations |-> log'[i]]
    BY DEF TellTheRest
  <2>2. log' \in [Invocations -> Seq(LogEvents)]
    BY <1>9, <2>1
  <2> QED BY <1>1, <1>3, <2>2 DEF TypeOK, LogEvents
<1>14. LayersFit'
  BY <1>1, <1>3 DEF LayersFit, Settled
<1>15. ASSUME NEW n \in Nodes PROVE NodeFits(n)' /\ ToldFits(n)'
  <2>1. NodeFits(n) /\ ToldFits(n) /\ phase[n] \notin InProgress
    BY <1>11 DEF RunInv
  <2>2. NodeFits(n)'
    BY <1>3, <1>9, <1>11, <2>1 DEF NodeFits, Has
  <2>3. ToldFits(n)'
    BY <1>9, <1>11, <2>1 DEF ToldFits, Has
  <2> QED BY <2>2, <2>3
<1>16. ASSUME NEW c \in ChoiceNodes PROVE ArmsFit(c)'
  <2>1. ArmsFit(c) /\ phase[c] \notin InProgress
    BY <1>2, <1>11 DEF RunInv
  <2>2. \A a \in ArmsOf(c) : Ended(a) => Ended(a)'
    BY <1>9, <1>12 DEF Ended, HasEnd
  <2> QED BY <1>3, <2>1, <2>2 DEF ArmsFit, InProgress
<1>17. ASSUME NEW a \in Arms PROVE ArmFits(a)'
  <2>1. ArmFits(a) /\ a \in Invocations /\ phase[a] \notin InProgress
    BY DEF RunInv, Invocations
  <2>2. Ended(a) => Ended(a)'
    BY <1>9, <2>1 DEF Ended, HasEnd
  <2> QED BY <1>9, <2>1, <2>2 DEF ArmFits, Has, InProgress
<1>18. EveryoneTold'
  <2>1. ASSUME NEW n \in Nodes, step[n] \in {"none", "canceled"}
        PROVE  Ended(n)' /\ (n \in ChoiceNodes => \A a \in ArmsOf(n) : Ended(a)')
    BY <1>10, <1>11, <1>12, <2>1 DEF Ended, HasEnd
  <2>2. ASSUME NEW n \in Nodes, step[n] = "success"
        PROVE  Ended(n)' /\ (n \in ChoiceNodes => \A a \in ArmsOf(n) : Ended(a)')
    <3>1. Has(n, "succeeded") /\ phase[n] = "done"
      BY <2>2 DEF RunInv, NodeFits, ToldFits
    <3>2. HasEnd(log[n])
      BY <3>1 DEF Has, ToSet, HasEnd, Ends
    <3>3. n \in ChoiceNodes => \A a \in ArmsOf(n) : HasEnd(log[a])
      BY <3>1 DEF RunInv, ArmsFit, Ended, HasEnd
    <3> QED BY <1>9, <1>11, <1>12, <3>2, <3>3 DEF Ended, HasEnd
  <2> QED BY <1>3, <2>1, <2>2 DEF EveryoneTold
<1> QED BY <1>3, <1>9, <1>13, <1>14, <1>15, <1>16, <1>17, <1>18 DEF RunInv

LEMMA EndRunKept ==
    ASSUME RunInv, EndRun
    PROVE  RunInv'
<1>1. /\ TypeOK /\ LayersFit /\ plan \in Plans /\ layer \in Nat /\ run = "running"
      /\ \A n \in Nodes : NodeFits(n)
      /\ UNCHANGED <<plan, aborted, layer, step, phase, gate>>
  BY DEF RunInv, TypeOK, EndRun, LayerSettled
<1>2. LayerOf \in [Nodes -> Nat] /\ ChoiceNodes \subseteq Nodes
  BY <1>1, PlanFacts
<1>3. \A n \in Nodes : step[n] # "running"
  <2>1. \A n \in Nodes : LayerOf[n] = layer => step[n] \in Settled
    BY DEF EndRun, LayerSettled, InLayer
  <2>2. \A n \in Nodes : LayerOf[n] < layer => step[n] = "success"
    BY <1>1 DEF LayersFit
  <2>3. \A n \in Nodes : step[n] # "none" => LayerOf[n] <= layer
    BY <1>1 DEF LayersFit
  <2> QED BY <1>1, <1>2, <2>1, <2>2, <2>3 DEF Settled
<1>4. \A n \in Nodes : phase[n] \notin InProgress
  BY <1>1, <1>3 DEF NodeFits
<1>5. \A a \in Arms : phase[a] \notin InProgress
  BY <1>2, <1>4 DEF RunInv, ArmFits, InProgress
<1>6. PICK status \in Settled :
         /\ \/ status = "canceled" /\ aborted
            \/ status = "failed" /\ (~LayerSucceeded \/ LastLayer)
            \/ status = "success" /\ LayerSucceeded /\ LastLayer
         /\ run' = status /\ TellTheRest(status)
  BY DEF EndRun
<1>7. ASSUME status = "success" PROVE \A n \in Nodes : step[n] # "none"
  <2>1. \A n \in Nodes : LayerOf[n] <= layer
    BY <1>1, <1>6, <1>7, NoGap
  <2>2. \A n \in Nodes : LayerOf[n] = layer => step[n] = "success"
    BY <1>6, <1>7 DEF LayerSucceeded, InLayer
  <2> QED BY <1>1, <1>2, <2>1, <2>2 DEF LayersFit
<1> QED BY <1>1, <1>4, <1>5, <1>6, <1>7, RunSettles DEF Settled, Invocations

LEMMA CreateRunKept ==
    ASSUME RunInv, CreateRun
    PROVE  RunInv'
<1>1. /\ TypeOK /\ LayersFit /\ plan \in Plans /\ run = "creating"
      /\ UNCHANGED <<plan, aborted, gate>>
  BY DEF RunInv, TypeOK, CreateRun
<1>2. /\ \A n \in Nodes : step[n] = "none"
      /\ \A i \in Invocations : phase[i] \notin InProgress
  BY <1>1 DEF LayersFit
<1>3. LayerOf \in [Nodes -> Nat]
  BY <1>1, PlanFacts
<1>4. CASE run' = "unstarted" /\ UNCHANGED <<layer, step, phase, log>>
  <2>1. /\ Nodes' = Nodes /\ ChoiceNodes' = ChoiceNodes /\ Arms' = Arms /\ Invocations' = Invocations
        /\ LayerOf' = LayerOf
    BY <1>1 DEF Nodes, ChoiceNodes, Arms, Invocations, LayerOf
  <2>2. \A n \in Nodes : NodeFits(n)' /\ ToldFits(n)'
    BY <1>1, <1>4, NodeKept DEF Settled
  <2>3. \A c \in ChoiceNodes : ArmsFit(c)'
    BY <1>1, <1>4, ChoiceKept DEF Settled
  <2>4. \A a \in Arms : ArmFits(a)'
    BY <1>1, <1>4, ArmKept
  <2>5. TypeOK' /\ LayersFit'
    BY <1>1, <1>2, <1>4, <2>1 DEF TypeOK, LayersFit
  <2>6. EveryoneTold' /\ \A i \in Invocations : EndsOnce(log'[i])
    BY <1>4, <2>1 DEF RunInv, EveryoneTold, Settled
  <2> QED BY <2>1, <2>2, <2>3, <2>4, <2>5, <2>6 DEF RunInv
<1>5. CASE run' = "running" /\ StartLayer(0) /\ UNCHANGED log
  BY <1>1, <1>2, <1>3, <1>5, LayerStarts DEF Settled
<1>6. CASE run' = "failed" /\ TellTheRest("failed") /\ UNCHANGED <<layer, step, phase>>
  BY <1>1, <1>2, <1>6, RunSettles DEF Settled
<1> QED BY <1>4, <1>5, <1>6 DEF CreateRun

-----------------------------------------------------------------------------
(* The theorems. *)

LEMMA RunInvInit == Init => RunInv
<1> SUFFICES ASSUME Init PROVE RunInv
  OBVIOUS
<1>1. \A i \in Invocations : log[i] = <<"created">> /\ phase[i] = "idle"
  BY DEF Init
<1>2. /\ <<"created">> \in Seq(LogEvents) /\ EndsOnce(<<"created">>) /\ ~HasEnd(<<"created">>)
      /\ ToSet(<<"created">>) = {"created"}
  BY DEF LogEvents, EndsOnce, HasEnd, ToSet, Ends
<1>3. /\ plan \in Plans /\ aborted = FALSE /\ run = "creating" /\ layer = 0
      /\ \A n \in Nodes : step[n] = "none" /\ gate[n] = "none" /\ n \in Invocations
  BY DEF Init, Invocations
<1>4. /\ LayerOf \in [Nodes -> Nat] /\ ChoiceNodes \subseteq Nodes
      /\ \A c \in ChoiceNodes : ArmsOf(c) \subseteq Invocations
  BY <1>3, PlanFacts DEF Invocations
<1>5. TypeOK
  <2>1. log \in [Invocations -> Seq(LogEvents)]
    BY <1>2 DEF Init
  <2>2. phase \in [Invocations -> Phases]
    BY DEF Init, Phases
  <2>3. /\ step \in [Nodes -> Settled \cup {"none", "running"}]
        /\ gate \in [Nodes -> {"none", "succeeded", "failed"}]
    BY DEF Init
  <2> QED BY <1>3, <2>1, <2>2, <2>3 DEF TypeOK, LogEvents, Phases
<1>6. LayersFit
  BY <1>1, <1>3, <1>4 DEF LayersFit, InProgress
<1>7. \A n \in Nodes : NodeFits(n)
  BY <1>1, <1>3 DEF NodeFits, InProgress, Settled
<1>8. \A i \in Invocations : ~Ended(i) /\ ~Has(i, "started")
  BY <1>1, <1>2 DEF Ended, HasEnd, Has
<1>9. \A n \in Nodes : ToldFits(n)
  BY <1>1, <1>3, <1>8 DEF ToldFits, InProgress
<1>10. \A c \in ChoiceNodes : ArmsFit(c)
  BY <1>1, <1>3, <1>4, <1>8 DEF ArmsFit
<1>11. \A a \in Arms : ArmFits(a)
  BY <1>1, <1>8 DEF ArmFits, InProgress, Invocations
<1>12. EveryoneTold /\ \A i \in Invocations : EndsOnce(log[i])
  BY <1>1, <1>2, <1>3 DEF EveryoneTold, Settled
<1> QED BY <1>5, <1>6, <1>7, <1>9, <1>10, <1>11, <1>12 DEF RunInv

LEMMA RunInvNext == RunInv /\ [Next]_vars => RunInv'
<1> SUFFICES ASSUME RunInv, [Next]_vars PROVE RunInv'
  OBVIOUS
<1>1. CASE UNCHANGED vars
  <2>1. /\ Nodes' = Nodes /\ ChoiceNodes' = ChoiceNodes /\ Arms' = Arms /\ Invocations' = Invocations
        /\ LayerOf' = LayerOf /\ UNCHANGED <<plan, aborted, run, layer, step, phase, log, gate>>
    BY <1>1 DEF vars, Nodes, ChoiceNodes, Arms, Invocations, LayerOf
  <2>2. \A n \in Nodes : NodeFits(n)' /\ ToldFits(n)'
    BY <2>1, NodeKept
  <2>3. \A c \in ChoiceNodes : ArmsFit(c)'
    BY <2>1, ChoiceKept
  <2>4. \A a \in Arms : ArmFits(a)'
    BY <2>1, ArmKept
  <2>5. TypeOK' /\ LayersFit'
    BY <2>1 DEF RunInv, TypeOK, LayersFit
  <2>6. EveryoneTold' /\ \A i \in Invocations : EndsOnce(log'[i])
    BY <2>1 DEF RunInv, EveryoneTold, Ended, ArmsOf
  <2> QED BY <2>1, <2>2, <2>3, <2>4, <2>5, <2>6 DEF RunInv
<1>2. CASE Abort
  BY <1>2, AbortKept
<1>3. CASE CreateRun \/ NextLayer \/ EndRun
  BY <1>3, CreateRunKept, NextLayerKept, EndRunKept
<1>4. ASSUME NEW n \in Nodes,
             ResolveInput(n) \/ Admit(n) \/ Execute(n) \/ Choose(n) \/ EndChoice(n)
      PROVE  RunInv'
  BY <1>4, ResolveInputKept, AdmitKept, ExecuteKept, ChooseKept, EndChoiceKept
<1>5. ASSUME NEW a \in Arms,
             ResolveArmInput(a) \/ PassGate(a) \/ AdmitArm(a) \/ ExecuteArm(a)
      PROVE  RunInv'
  BY <1>5, ResolveArmInputKept, PassGateKept, AdmitArmKept, ExecuteArmKept
<1> QED BY <1>1, <1>2, <1>3, <1>4, <1>5 DEF Next, Advance, Done

(* The invariant holds in every run of every plan.                         *)
THEOREM RunInvariant == Spec => []RunInv
<1> QED BY RunInvInit, RunInvNext, PTL DEF Spec

(* The variables keep their types, the logs of all invocations included.   *)
THEOREM RunTypeCorrect == Spec => []TypeOK
<1>1. RunInv => TypeOK
  BY DEF RunInv
<1> QED BY <1>1, RunInvariant, PTL

(* The invariant says what the property does.                              *)
LEMMA InvOrderly == RunInv => InvocationsOrderly
<1>1. ASSUME RunInv PROVE InvocationsOrderly
  <2>1. TypeOK /\ LayersFit /\ plan \in Plans
    BY <1>1 DEF RunInv, TypeOK
  <2>2. /\ ChoiceNodes \subseteq Nodes /\ LayerOf \in [Nodes -> Nat] /\ layer \in Nat
        /\ \A c \in ChoiceNodes : ArmsOf(c) \subseteq Arms
        /\ \A a \in Arms : plan.source[a] # NoSource => plan.source[a] \in Nodes
        /\ \A n \in Nodes : plan.deps[n] \subseteq Nodes
        /\ \A n \in Nodes : \A d \in plan.deps[n] : LayerOf[d] < LayerOf[n]
    BY <2>1, PlanFacts DEF TypeOK
  <2>3. ASSUME NEW n \in Nodes, Has(n, "started"), NEW d \in plan.deps[n]
        PROVE  Has(d, "succeeded")
    <3>1. step[n] # "none"
      BY <1>1, <2>3 DEF RunInv, ToldFits
    <3>2. LayerOf[d] < layer
      BY <2>1, <2>2, <3>1 DEF LayersFit
    <3>3. step[d] = "success"
      BY <2>1, <2>2, <3>2 DEF LayersFit
    <3> QED BY <1>1, <2>2, <3>3 DEF RunInv, ToldFits
  <2>4. ASSUME NEW a \in Arms, Has(a, "started"), plan.source[a] # NoSource
        PROVE  Has(plan.source[a], "succeeded")
    BY <1>1, <2>2, <2>4 DEF RunInv, ArmFits, NodeFits
  <2>5. ASSUME NEW c \in ChoiceNodes, NEW a \in ArmsOf(c), NEW b \in ArmsOf(c),
               Has(a, "started"), Has(b, "started")
        PROVE  a = b
    BY <1>1, <2>2, <2>5 DEF RunInv, ArmFits, ArmsFit
  <2>6. OneEnding
    BY <1>1 DEF RunInv, OneEnding, EndsOnce
  <2>7. EveryoneTold
    BY <1>1 DEF RunInv
  <2> QED BY <2>3, <2>4, <2>5, <2>6, <2>7 DEF InvocationsOrderly, StartedInOrder, EveryoneToldOnce
<1> QED BY <1>1

(* Whatever is chosen and cancelled, nodes start after what they depend on *)
(* succeeded, arms after the source of their session, one arm at most, and *)
(* every invocation of a run hears of one end (terminalTrackingSink,       *)
(* emitMastraNonTerminalInvocations).                                      *)
THEOREM Orderly == Spec => []InvocationsOrderly
BY InvOrderly, RunInvariant, PTL

-----------------------------------------------------------------------------
(* The run that is displayed. *)

(* What the pipe, the renderers and the invocations inside nodes do is a   *)
(* step of the run or leaves it alone, and the run does nothing else.      *)
THEOREM DisplayRuns == DisplaySpec => Init /\ [][Next]_vars
<1>1. DisplayInit => Init
  BY DEF DisplayInit
<1>2. [DisplayNext]_allVars => [Next]_vars
  <2> SUFFICES ASSUME [DisplayNext]_allVars PROVE [Next]_vars
    OBVIOUS
  <2>1. CASE RunStep
    BY <2>1 DEF RunStep, Next
  <2>2. CASE Inner \/ Report \/ Draw \/ RunnerFails \/ FinishRun
    BY <2>2 DEF Inner, Report, Draw, RunnerFails, FinishRun
  <2>3. CASE Shown \/ UNCHANGED allVars
    BY <2>3 DEF Shown, allVars
  <2> QED BY <2>1, <2>2, <2>3 DEF DisplayNext
<1> QED BY <1>1, <1>2, PTL DEF DisplaySpec

(* The order of invocations does not rest on the fairness of the run: it   *)
(* holds in a run that waits for its pipe or is lost.                      *)
THEOREM DisplayedOrderly == DisplaySpec => []InvocationsOrderly
<1>1. RunInv => InvocationsOrderly
  BY InvOrderly
<1>2. Init /\ [][Next]_vars => []RunInv
  BY RunInvInit, RunInvNext, PTL
<1> QED BY <1>1, <1>2, DisplayRuns, PTL

-----------------------------------------------------------------------------
(* The calls of an OpenCode adapter. *)

(* A prompt stands in the queue of its run, and the first of the queue is   *)
(* at work; what it was told of may be unread until the events are drained. *)
AtHead == Watched \cup Draining \cup {"stopping"}
Standing == AtHead \cup {"queued"}
Telling == {"prompting", "reading", "stopping"} \cup Draining
Leaving == {"ending", "releasing", "settled"}
Entered == {c \in Calls : pc[c] # "idle"}
At(c, r) == pc[c] = "resolving" /\ at[c] = r

(* A run that was stopped when no prompt was at work starts none. *)
Spoiled(r) == stop[r] # "none" /\ \A c \in Calls : at[c] = r => pc[c] \notin AtHead

SessionTyped ==
    /\ SessionTypeOK
    /\ signal \cup invalidated \cup unheard \subseteq Calls
    /\ opener \in [Runs -> SUBSET Calls] /\ based \in [Runs -> BOOLEAN] /\ native \in BOOLEAN

(* Runs are made one after the other, each for a call that waits for it; an *)
(* open one is owned, closed, or about to be either.                        *)
SessionRuns ==
    /\ \E m \in 0 .. Cardinality(Entered) : \A r \in Runs : made[r] # "none" <=> r <= m
    /\ \A c \in Calls : pc[c] \in Standing \cup {"resolving", "releasing"} => at[c] \in Runs
    /\ \A c \in Calls : pc[c] \in Standing \cup {"ending", "releasing"} /\ at[c] # 0
         => made[at[c]] = "open"
    /\ \A r \in Runs : made[r] = "creating" => \E c \in Calls : At(c, r)
    /\ \A r \in Runs : made[r] = "open" => r \in owned \cup shut \/ \E c \in Calls : At(c, r)
    /\ adapter \in {"releasing", "closed"} => owned = {} /\ \A c \in Calls : pc[c] # "resolving"
    /\ adapter = "closed" => \A r \in shut : Down(r)

SessionQueue ==
    /\ \A c \in Calls : pc[c] \in Standing => \E k \in 1 .. Len(queue[at[c]]) : queue[at[c]][k] = c
    /\ \A c \in Calls : pc[c] \in AtHead => Head(queue[at[c]]) = c

SessionWatch ==
    /\ \A c \in Calls : pc[c] \in Standing => attempt[c] >= 1
    /\ \A c \in Calls : pc[c] \in {"prompting", "reading", "accepting"} => watch[c] # "off"
    /\ \A c \in Calls : pc[c] = "stopping" => stop[at[c]] # "none"
    /\ \A c \in Calls : pc[c] = "draining" /\ watch[c] = "off" => stop[at[c]] # "none"

(* Work that goes on beyond its prompt was lost, or belongs to a run that   *)
(* was stopped; the same holds of events that are still unread.             *)
SessionWork ==
    \A c \in work :
        /\ attempt[c] >= 1 /\ at[c] \in Runs
        /\ pc[c] \in {"prompting", "stopping", "draining"} \cup Leaving
        /\ pc[c] = "draining" => c \in unheard \/ stop[at[c]] # "none"
        /\ pc[c] \in Leaving => c \in unheard \/ Spoiled(at[c])

Own(r, e) == \E c \in Calls : at[c] = r /\ pc[c] \in Telling /\ e = <<c, attempt[c]>>

SessionUnread ==
    \A r \in Runs : based[r] => \A e \in unread[r] : e[1] \in unheard \/ Spoiled(r) \/ Own(r, e)

SessionInv ==
    SessionTyped /\ SessionRuns /\ SessionQueue /\ SessionWatch /\ SessionWork /\ SessionUnread

LEMMA Moved ==
    ASSUME SessionTyped, NEW c \in Calls, NEW to \in Open \cup {"idle", "settled"}, Goto(c, to)
    PROVE  /\ pc' \in [Calls -> Open \cup {"idle", "settled"}]
           /\ pc'[c] = to /\ \A d \in Calls \ {c} : pc'[d] = pc[d]
BY DEF SessionTyped, SessionTypeOK, Goto

(* What stands in a queue when the first has gone, and when one is added.   *)
LEMMA TailIs ==
    ASSUME NEW S, NEW q \in Seq(S), q # <<>>
    PROVE  /\ Tail(q) \in Seq(S)
           /\ \A d : (\E k \in 1 .. Len(q) : q[k] = d) /\ d # Head(q)
                => \E k \in 1 .. Len(Tail(q)) : Tail(q)[k] = d
<1>1. /\ Tail(q) \in Seq(S) /\ Len(q) \in Nat /\ Len(Tail(q)) = Len(q) - 1 /\ Head(q) = q[1]
      /\ \A n \in 1 .. Len(q) - 1 : Tail(q)[n] = q[n + 1]
  OBVIOUS
<1>2. ASSUME NEW d, NEW k \in 1 .. Len(q), q[k] = d, d # Head(q)
      PROVE  \E n \in 1 .. Len(Tail(q)) : Tail(q)[n] = d
  <2>1. k - 1 \in 1 .. Len(Tail(q)) /\ (k - 1) + 1 = k
    BY <1>1, <1>2
  <2> QED BY <1>1, <1>2, <2>1
<1> QED BY <1>1, <1>2

LEMMA AppendIs ==
    ASSUME NEW S, NEW q \in Seq(S), NEW c \in S
    PROVE  /\ Append(q, c) \in Seq(S) /\ Append(q, c) # <<>>
           /\ \A d : (\E k \in 1 .. Len(q) : q[k] = d) \/ d = c
                => \E k \in 1 .. Len(Append(q, c)) : Append(q, c)[k] = d
           /\ q # <<>> => Head(Append(q, c)) = Head(q)
<1>1. /\ Append(q, c) \in Seq(S) /\ Len(q) \in Nat /\ Len(Append(q, c)) = Len(q) + 1
      /\ Append(q, c)[Len(q) + 1] = c /\ \A n \in 1 .. Len(q) : Append(q, c)[n] = q[n]
  OBVIOUS
<1>2. ASSUME NEW d, NEW k \in 1 .. Len(q), q[k] = d
      PROVE  \E n \in 1 .. Len(Append(q, c)) : Append(q, c)[n] = d
  BY <1>1, <1>2
<1>3. \E n \in 1 .. Len(Append(q, c)) : Append(q, c)[n] = c
  BY <1>1
<1>4. q # <<>> => Head(Append(q, c)) = Head(q)
  OBVIOUS
<1> QED BY <1>1, <1>2, <1>3, <1>4

(* Whoever stands in a queue has one that is not empty. *)
LEMMA StandsIn ==
    ASSUME SessionTyped, SessionRuns, SessionQueue, NEW c \in Calls, pc[c] \in Standing
    PROVE  at[c] \in Runs /\ queue[at[c]] \in Seq(Calls) /\ queue[at[c]] # <<>>
<1>1. at[c] \in Runs /\ queue[at[c]] \in Seq(Calls)
  BY DEF SessionTyped, SessionTypeOK, SessionRuns
<1>2. PICK k \in 1 .. Len(queue[at[c]]) : queue[at[c]][k] = c
  BY DEF SessionQueue
<1> QED BY <1>1, <1>2

(* The runs are as they were. *)
LEMMA RunsKept ==
    ASSUME SessionRuns, UNCHANGED <<at, made, owned, shut, adapter>>,
           \A r \in Runs : Down(r) => Down(r)', shut \subseteq Runs,
           \A c \in Calls : /\ pc'[c] = "idle" <=> pc[c] = "idle"
                            /\ pc'[c] = "resolving" <=> pc[c] = "resolving"
                            /\ pc'[c] \in Standing \cup {"releasing"}
                                 => pc[c] \in Standing \cup {"releasing"}
                            /\ pc'[c] \in Standing \cup {"ending", "releasing"}
                                 => pc[c] \in Standing \cup {"ending", "releasing"}
    PROVE  SessionRuns'
<1>1. Entered' = Entered /\ \A c \in Calls, r \in Runs : At(c, r)' <=> At(c, r)
  BY DEF Entered, At
<1> QED BY <1>1 DEF SessionRuns

(* Nobody comes to a queue, or leaves one. *)
LEMMA QueueKept ==
    ASSUME SessionQueue,
           \A c \in Calls : pc'[c] \in Standing =>
              /\ pc[c] \in Standing /\ at'[c] = at[c] /\ queue'[at[c]] = queue[at[c]]
              /\ pc'[c] \in AtHead => pc[c] \in AtHead \/ Head(queue[at[c]]) = c
    PROVE  SessionQueue'
<1>1. AtHead \subseteq Standing
  BY DEF Standing
<1> QED BY <1>1 DEF SessionQueue

LEMMA StaysSpoiled ==
    ASSUME NEW r \in Runs, Spoiled(r), stop'[r] # "none",
           \A c \in Calls : pc'[c] \in AtHead /\ at'[c] = r => pc[c] \in AtHead /\ at[c] = r
    PROVE  Spoiled(r)'
BY DEF Spoiled

(* No call comes, goes or joins a queue. *)
LEMMA Undisturbed ==
    ASSUME SessionInv, UNCHANGED <<at, made, owned, shut, adapter, queue>>,
           \A r \in Runs : (stop[r] # "none" => stop'[r] # "none")
             /\ (stop[r] = "answered" => stop'[r] = "answered"),
           \A c \in Calls : pc'[c] = pc[c] \/ {pc[c], pc'[c]} \subseteq AtHead
    PROVE  SessionRuns' /\ SessionQueue' /\ \A r \in Runs : Spoiled(r) => Spoiled(r)'
<1>1. "idle" \notin AtHead /\ "resolving" \notin AtHead /\ AtHead \subseteq Standing
  BY DEF AtHead, Watched, Draining, Standing
<1>2. SessionRuns'
  BY <1>1, RunsKept DEF SessionInv, SessionTyped, SessionTypeOK, Down
<1>3. SessionQueue'
  BY <1>1, QueueKept DEF SessionInv
<1>4. \A r \in Runs : Spoiled(r) => Spoiled(r)'
  BY StaysSpoiled DEF Spoiled
<1> QED BY <1>2, <1>3, <1>4

(* The prompt at work goes on. *)
LEMMA HeadMoves ==
    ASSUME SessionInv, NEW c \in Calls, pc[c] \in AtHead, NEW to \in AtHead, Goto(c, to),
           UNCHANGED <<at, made, owned, shut, adapter, queue>>,
           \A r \in Runs : (stop[r] # "none" => stop'[r] # "none")
             /\ (stop[r] = "answered" => stop'[r] = "answered")
    PROVE  /\ pc' \in [Calls -> Open \cup {"idle", "settled"}]
           /\ pc'[c] = to /\ \A d \in Calls \ {c} : pc'[d] = pc[d]
           /\ SessionRuns' /\ SessionQueue' /\ \A r \in Runs : Spoiled(r) => Spoiled(r)'
<1>1. /\ pc' \in [Calls -> Open \cup {"idle", "settled"}]
      /\ pc'[c] = to /\ \A d \in Calls \ {c} : pc'[d] = pc[d]
  BY Moved DEF SessionInv, AtHead, Open
<1>2. \A d \in Calls : pc'[d] = pc[d] \/ {pc[d], pc'[d]} \subseteq AtHead
  BY <1>1
<1> QED BY <1>1, <1>2, Undisturbed

(* The first prompt of a queue leaves it, to end or to come again.          *)
LEMMA HeadLeaves ==
    ASSUME SessionInv, NEW c \in Calls, pc[c] \in Standing, Head(queue[at[c]]) = c,
           NEW to \in {"ending", "queued"}, Goto(c, to), NEW rest,
           rest = IF to = "ending" THEN Tail(queue[at[c]]) ELSE Append(Tail(queue[at[c]]), c),
           queue' = [queue EXCEPT ![at[c]] = rest],
           UNCHANGED <<at, made, owned, shut, adapter, stop>>
    PROVE  /\ pc' \in [Calls -> Open \cup {"idle", "settled"}]
           /\ pc'[c] = to /\ \A d \in Calls \ {c} : pc'[d] = pc[d]
           /\ queue' \in [Runs -> Seq(Calls)]
           /\ SessionRuns' /\ SessionQueue' /\ \A r \in Runs : Spoiled(r) => Spoiled(r)'
           /\ \A d \in Calls : at[d] = at[c] => pc'[d] \notin AtHead
<1>1. /\ pc' \in [Calls -> Open \cup {"idle", "settled"}]
      /\ pc'[c] = to /\ \A d \in Calls \ {c} : pc'[d] = pc[d]
  BY Moved DEF SessionInv, Open
<1>2. at[c] \in Runs /\ queue[at[c]] \in Seq(Calls) /\ queue[at[c]] # <<>>
  BY StandsIn DEF SessionInv
<1>3. /\ rest \in Seq(Calls)
      /\ \A d : (\E k \in 1 .. Len(queue[at[c]]) : queue[at[c]][k] = d) /\ d # c
           => \E k \in 1 .. Len(rest) : rest[k] = d
      /\ to = "queued" => \E k \in 1 .. Len(rest) : rest[k] = c
  <2>1. /\ Tail(queue[at[c]]) \in Seq(Calls)
        /\ \A d : (\E k \in 1 .. Len(queue[at[c]]) : queue[at[c]][k] = d) /\ d # c
                     => \E k \in 1 .. Len(Tail(queue[at[c]])) : Tail(queue[at[c]])[k] = d
    BY <1>2, TailIs
  <2>2. CASE to = "ending"
    BY <2>1, <2>2
  <2>3. CASE to = "queued"
    <3>1. rest = Append(Tail(queue[at[c]]), c)
      BY <2>3
    <3>2. /\ rest \in Seq(Calls)
          /\ \A d : (\E k \in 1 .. Len(Tail(queue[at[c]])) : Tail(queue[at[c]])[k] = d) \/ d = c
                     => \E k \in 1 .. Len(rest) : rest[k] = d
      <4> DEFINE q == Tail(queue[at[c]])
      <4>1. q \in Seq(Calls) /\ rest = Append(q, c)
        BY <2>1, <3>1
      <4> HIDE DEF q
      <4>2. /\ Append(q, c) \in Seq(Calls)
            /\ \A d : (\E k \in 1 .. Len(q) : q[k] = d) \/ d = c
                 => \E k \in 1 .. Len(Append(q, c)) : Append(q, c)[k] = d
        BY <4>1, AppendIs
      <4> QED BY <4>1, <4>2 DEF q
    <3>3. ASSUME NEW d, \E k \in 1 .. Len(queue[at[c]]) : queue[at[c]][k] = d, d # c
          PROVE  \E k \in 1 .. Len(rest) : rest[k] = d
      <4>1. \E k \in 1 .. Len(Tail(queue[at[c]])) : Tail(queue[at[c]])[k] = d
        BY <2>1, <3>3
      <4> QED BY <3>2, <4>1
    <3>4. \E k \in 1 .. Len(rest) : rest[k] = c
      BY <3>2
    <3> QED BY <3>2, <3>3, <3>4
  <2> QED BY <2>2, <2>3
<1>4. /\ queue' \in [Runs -> Seq(Calls)] /\ queue'[at[c]] = rest
      /\ \A r \in Runs \ {at[c]} : queue'[r] = queue[r]
  BY <1>2, <1>3 DEF SessionInv, SessionTyped, SessionTypeOK
<1>5. /\ "ending" \notin Standing /\ "queued" \in Standing /\ "queued" \notin AtHead
           /\ AtHead \subseteq Standing
      /\ "idle" \notin Standing /\ "resolving" \notin Standing
  BY DEF AtHead, Watched, Draining, Standing
<1>6. \A d \in Calls : at[d] = at[c] => pc'[d] \notin AtHead
  BY <1>1, <1>5 DEF SessionInv, SessionQueue
<1>7. SessionRuns'
  <2>1. \A r \in Runs : Down(r) => Down(r)'
    BY <1>2, <1>4 DEF Down
  <2> QED BY <1>1, <1>5, <2>1, RunsKept DEF SessionInv, SessionTyped, SessionTypeOK
<1>8. SessionQueue'
  <2> SUFFICES ASSUME NEW d \in Calls, pc'[d] \in Standing
               PROVE  /\ \E k \in 1 .. Len(queue'[at[d]]) : queue'[at[d]][k] = d
                      /\ pc'[d] \in AtHead => Head(queue'[at[d]]) = d
    BY <1>5 DEF SessionQueue
  <2>1. CASE d = c
    BY <1>1, <1>3, <1>4, <1>5, <2>1
  <2>2. CASE d # c
    <3>1. pc[d] \in Standing /\ pc'[d] = pc[d] /\ at[d] \in Runs
      BY <1>1, <2>2 DEF SessionInv, SessionRuns
    <3>2. CASE at[d] = at[c]
      <4>1. \E k \in 1 .. Len(queue[at[c]]) : queue[at[c]][k] = d
        BY <3>1, <3>2 DEF SessionInv, SessionQueue
      <4>2. \E k \in 1 .. Len(rest) : rest[k] = d
        BY <1>3, <2>2, <4>1
      <4>3. at'[d] = at[c]
        BY <3>2
      <4> QED BY <1>4, <1>6, <3>2, <4>2, <4>3
    <3>3. CASE at[d] # at[c]
      BY <1>4, <3>1, <3>3 DEF SessionInv, SessionQueue
    <3> QED BY <3>2, <3>3
  <2> QED BY <2>1, <2>2
<1>9. \A r \in Runs : Spoiled(r) => Spoiled(r)'
  BY <1>1, <1>5, StaysSpoiled DEF Spoiled
<1> QED BY <1>1, <1>4, <1>6, <1>7, <1>8, <1>9

(* Runs are stopped once, and the work of theirs becomes known. *)
LEMMA StopRunsIs ==
    ASSUME SessionTyped, NEW rs, StopRuns(rs)
    PROVE  /\ stop' \in [Runs -> {"none", "pending", "answered"}]
           /\ \A r \in Runs : /\ stop[r] # "none" => stop'[r] = stop[r]
                              /\ r \in rs => stop'[r] # "none"
           /\ known' \subseteq work
<1>1. stop' = [r \in Runs |-> IF r \in {n \in rs : stop[n] = "none"} THEN "pending" ELSE stop[r]]
  BY DEF StopRuns
<1>2. known' \subseteq work
  BY DEF StopRuns, SessionTyped, SessionTypeOK
<1> QED BY <1>1, <1>2 DEF SessionTyped, SessionTypeOK

(* The calls are as they were. *)
LEMMA CallsKept ==
    ASSUME SessionInv, UNCHANGED <<pc, at, attempt, watch, queue, work, unread, based, unheard>>,
           \A r \in Runs : stop[r] # "none" => stop'[r] # "none"
    PROVE  SessionQueue' /\ SessionWatch' /\ SessionWork' /\ SessionUnread'
<1> USE DEF SessionInv
<1>1. SessionQueue'
  BY DEF SessionQueue
<1>2. \A c \in Calls : pc[c] \in {"stopping", "draining"} => at[c] \in Runs
  BY DEF SessionRuns, Standing, AtHead, Draining
<1>3. SessionWatch'
  BY <1>2 DEF SessionWatch
<1>4. \A r \in Runs : Spoiled(r) => Spoiled(r)'
  BY StaysSpoiled DEF Spoiled
<1>5. SessionWork'
  BY <1>4 DEF SessionWork
<1>6. SessionUnread'
  BY <1>4 DEF SessionUnread, Own
<1> QED BY <1>1, <1>3, <1>5, <1>6

(* Nothing happens but to a call that has no prompt at work. *)
LEMMA Aside ==
    ASSUME SessionInv, NEW c \in Calls, pc[c] \notin AtHead, pc'[c] \notin AtHead,
           \A d \in Calls \ {c} : pc'[d] = pc[d] /\ at'[d] = at[d] /\ attempt'[d] = attempt[d],
           pc'[c] \in Standing => attempt'[c] >= 1,
           c \in work => {pc[c], pc'[c]} \subseteq Leaving /\ at'[c] = at[c]
             /\ attempt'[c] = attempt[c],
           \A r \in Runs : stop[r] # "none" => stop'[r] # "none",
           UNCHANGED <<watch, work, unread, based, unheard>>
    PROVE  SessionWatch' /\ SessionWork' /\ SessionUnread'
<1> USE DEF SessionInv
<1>1. \A d \in Calls : pc[d] \in {"stopping", "draining"} => at[d] \in Runs
  BY DEF SessionRuns, Standing, AtHead, Draining
<1>2. /\ {"prompting", "reading", "accepting", "stopping", "draining"} \subseteq AtHead
      /\ Telling \subseteq AtHead
  BY DEF AtHead, Watched, Draining, Telling
<1>3. SessionWatch'
  <2> SUFFICES ASSUME NEW d \in Calls
               PROVE  /\ pc'[d] \in Standing => attempt'[d] >= 1
                      /\ pc'[d] \in {"prompting", "reading", "accepting"} => watch'[d] # "off"
                      /\ pc'[d] = "stopping" => stop'[at'[d]] # "none"
                      /\ pc'[d] = "draining" /\ watch'[d] = "off" => stop'[at'[d]] # "none"
    BY DEF SessionWatch
  <2>1. CASE d = c
    BY <1>2, <2>1
  <2>2. CASE d # c
    BY <1>1, <2>2 DEF SessionWatch
  <2> QED BY <2>1, <2>2
<1>4. \A r \in Runs : Spoiled(r) => Spoiled(r)'
  <2>1. ASSUME NEW r \in Runs, Spoiled(r) PROVE Spoiled(r)'
    <3>1. \A d \in Calls : pc'[d] \in AtHead /\ at'[d] = r => pc[d] \in AtHead /\ at[d] = r
      OBVIOUS
    <3>2. stop'[r] # "none"
      BY <2>1 DEF Spoiled
    <3> QED BY <2>1, <3>1, <3>2, StaysSpoiled
  <2> QED BY <2>1
<1>5. SessionWork'
  <2> SUFFICES ASSUME NEW d \in work
               PROVE  /\ attempt'[d] >= 1 /\ at'[d] \in Runs
                      /\ pc'[d] \in {"prompting", "stopping", "draining"} \cup Leaving
                      /\ pc'[d] = "draining" => d \in unheard \/ stop'[at'[d]] # "none"
                      /\ pc'[d] \in Leaving => at'[d] = at[d] /\ (d \in unheard \/ Spoiled(at[d])')
    BY DEF SessionWork
  <2>1. d \in Calls
    BY DEF SessionTyped, SessionTypeOK
  <2>2. CASE d = c
    <3>1. "draining" \notin Leaving
      BY DEF Leaving
    <3> QED BY <1>4, <2>2, <3>1 DEF SessionWork
  <2>3. CASE d # c
    BY <1>1, <1>4, <2>1, <2>3 DEF SessionWork
  <2> QED BY <2>2, <2>3
<1>6. SessionUnread'
  <2>1. \A r \in Runs : \A e : Own(r, e) => Own(r, e)'
    BY <1>2 DEF Own
  <2> QED BY <1>4, <2>1 DEF SessionUnread
<1> QED BY <1>3, <1>5, <1>6

(* A call has asked for a run, and no run or the next one has been begun.   *)
LEMMA EntersRun ==
    ASSUME SessionTyped, NEW c \in Calls, pc[c] = "idle",
           NEW m \in 0 .. Cardinality(Entered), \A r \in Runs : made[r] # "none" <=> r <= m
    PROVE  /\ m \in Nat /\ m + 1 \in Runs
           /\ pc'[c] # "idle" /\ (\A d \in Calls \ {c} : pc'[d] = pc[d]) =>
                 m \in 0 .. Cardinality(Entered') /\ m + 1 \in 0 .. Cardinality(Entered')
<1>1. IsFiniteSet(Calls) /\ Entered \subseteq Calls /\ c \notin Entered
        /\ Entered \cup {c} \subseteq Calls
  BY OpenCodeAssumption DEF Entered
<1>2. IsFiniteSet(Entered) /\ Cardinality(Entered) \in Nat
  BY <1>1, FS_Subset, FS_CardinalityType
<1>3. Cardinality(Entered \cup {c}) = Cardinality(Entered) + 1
  BY <1>1, <1>2, FS_AddElement
<1>4. Cardinality(Entered \cup {c}) <= Cardinality(Calls) /\ Cardinality(Calls) \in Nat
  BY <1>1, FS_Subset, FS_CardinalityType
<1>5. m \in Nat /\ m + 1 \in Runs
  BY OpenCodeAssumption, <1>2, <1>3, <1>4
<1>6. ASSUME pc'[c] # "idle", \A d \in Calls \ {c} : pc'[d] = pc[d]
      PROVE  m \in 0 .. Cardinality(Entered') /\ m + 1 \in 0 .. Cardinality(Entered')
  <2>1. Entered' = Entered \cup {c}
    BY <1>6 DEF Entered
  <2> QED BY <1>2, <1>3, <2>1
<1> QED BY <1>5, <1>6

LEMMA EnterKeeps ==
    ASSUME SessionInv, NEW c \in Calls, Enter(c)
    PROVE  SessionInv'
<1> USE DEF SessionInv
<1>1. /\ pc[c] = "idle"
      /\ UNCHANGED <<attempt, strategy, watch, signal, invalidated, queue, shut, stop,
                     owned, adapter, native, work, known, unread, based, unheard>>
  BY DEF Enter, serverVars
<1>2. PICK to \in {"settled", "resolving"} : Goto(c, to)
  BY DEF Enter
<1>3. /\ pc' \in [Calls -> Open \cup {"idle", "settled"}]
      /\ pc'[c] = to /\ \A d \in Calls \ {c} : pc'[d] = pc[d]
  BY <1>2, Moved DEF Open
<1>4. PICK m \in 0 .. Cardinality(Entered) : \A r \in Runs : made[r] # "none" <=> r <= m
  BY DEF SessionRuns
<1>5. m \in Nat /\ m + 1 \in Runs /\ m \in 0 .. Cardinality(Entered')
        /\ m + 1 \in 0 .. Cardinality(Entered')
  <2>1. pc'[c] # "idle" /\ \A d \in Calls \ {c} : pc'[d] = pc[d]
    BY <1>3
  <2> QED BY <1>1, <1>4, <2>1, EntersRun
<1>6. \/ adapter # "open" /\ to = "settled" /\ UNCHANGED <<at, current, made, opener>>
      \/ /\ adapter = "open" /\ to = "resolving" /\ current # 0
         /\ at' = [at EXCEPT ![c] = current] /\ UNCHANGED <<current, made, opener>>
      \/ /\ adapter = "open" /\ to = "resolving" /\ current = 0
         /\ at' = [at EXCEPT ![c] = m + 1] /\ current' = m + 1
         /\ made' = [made EXCEPT ![m + 1] = "creating"] /\ opener' = [opener EXCEPT ![m + 1] = {c}]
  <2>1. CASE adapter # "open"
    <3>1. Goto(c, "settled") /\ UNCHANGED <<at, current, made, opener>>
      BY <2>1 DEF Enter
    <3> QED BY <1>1, <1>2, <1>3, <2>1, <3>1 DEF Goto, SessionTyped, SessionTypeOK
  <2>2. CASE adapter = "open" /\ current # 0
    <3>1. Goto(c, "resolving") /\ at' = [at EXCEPT ![c] = current]
            /\ UNCHANGED <<current, made, opener>>
      BY <2>2 DEF Enter
    <3> QED BY <1>1, <1>2, <1>3, <2>2, <3>1 DEF Goto, SessionTyped, SessionTypeOK
  <2>3. CASE adapter = "open" /\ current = 0
    <3> DEFINE Free(n) == made[n] = "none" /\ \A k \in 1 .. n - 1 : made[k] # "none"
               next == CHOOSE n \in Runs : Free(n)
    <3>1. /\ Goto(c, "resolving") /\ at' = [at EXCEPT ![c] = next] /\ current' = next
          /\ made' = [made EXCEPT ![next] = "creating"] /\ opener' = [opener EXCEPT ![next] = {c}]
      BY <2>3 DEF Enter
    <3>2. Runs \subseteq Nat \ {0} /\ \A r \in Runs : 1 .. r - 1 \subseteq Runs
      BY OpenCodeAssumption, FS_CardinalityType
    <3>3. Free(m + 1)
      <4>1. made[m + 1] = "none"
        BY <1>4, <1>5
      <4>2. ASSUME NEW k \in 1 .. (m + 1) - 1 PROVE made[k] # "none"
        <5>1. k \in Runs /\ k <= m
          BY <1>5, <3>2
        <5> QED BY <1>4, <5>1
      <4> QED BY <4>1, <4>2
    <3>4. ASSUME NEW n \in Runs, Free(n) PROVE n = m + 1
      <4>1. ~(n <= m)
        BY <1>4, <3>4
      <4>2. ~(m + 1 < n)
        <5> SUFFICES ASSUME m + 1 < n PROVE FALSE
          OBVIOUS
        <5>1. m + 1 \in 1 .. n - 1
          BY <1>5, <3>2
        <5> QED BY <3>3, <3>4, <5>1
      <4> QED BY <1>5, <3>2, <4>1, <4>2
    <3>5. next = m + 1
      <4> HIDE DEF Free
      <4> QED BY <1>5, <3>3, <3>4
    <3> HIDE DEF Free, next
    <3> QED BY <1>1, <1>2, <1>3, <2>3, <3>1, <3>5 DEF Goto, SessionTyped, SessionTypeOK
  <2> QED BY <2>1, <2>2, <2>3
<1> DEFINE had == at'[c]
<1>7. /\ (to = "resolving" => had \in Runs) /\ \A d \in Calls \ {c} : at'[d] = at[d]
      /\ made' \in [Runs -> {"none", "creating", "open", "failed"}]
      /\ \/ made' = made
         \/ had = m + 1 /\ to = "resolving" /\ made'[had] = "creating"
              /\ \A r \in Runs \ {had} : made'[r] = made[r]
      /\ at' \in [Calls -> Runs \cup {0}] /\ current' \in Runs \cup {0}
           /\ opener' \in [Runs -> SUBSET Calls]
  <2>1. CASE UNCHANGED <<at, current, made, opener>> /\ to = "settled"
    BY <2>1 DEF SessionTyped, SessionTypeOK
  <2>2. CASE at' = [at EXCEPT ![c] = current] /\ UNCHANGED <<current, made, opener>> /\ current # 0
    BY <2>2 DEF SessionTyped, SessionTypeOK
  <2>3. CASE /\ at' = [at EXCEPT ![c] = m + 1] /\ current' = m + 1 /\ to = "resolving"
             /\ made' = [made EXCEPT ![m + 1] = "creating"] /\ opener' = [opener EXCEPT ![m + 1] = {c}]
    BY <1>5, <2>3 DEF SessionTyped, SessionTypeOK
  <2> QED BY <1>6, <2>1, <2>2, <2>3
<1>8. c \notin work /\ AtHead \subseteq Standing
        /\ {"settled", "resolving", "idle", "releasing", "ending"} \cap Standing = {}
  BY <1>1 DEF SessionWork, Leaving, Standing, AtHead, Watched, Draining
<1>9. SessionTyped'
  BY <1>1, <1>3, <1>7 DEF SessionTyped, SessionTypeOK
<1>10. SessionRuns'
  <2>1. \E n \in 0 .. Cardinality(Entered') : \A r \in Runs : made'[r] # "none" <=> r <= n
    <3>1. CASE made' = made
      BY <1>4, <1>5, <3>1
    <3>2. CASE made' # made
      <4>1. \A r \in Runs : made'[r] # "none" <=> r <= m + 1
        <5>1. \A r \in Runs : r \in Nat
          BY OpenCodeAssumption, FS_CardinalityType
        <5> QED BY <1>4, <1>5, <1>7, <3>2, <5>1
      <4> QED BY <1>5, <4>1
    <3> QED BY <3>1, <3>2
  <2>2. \A d \in Calls : pc'[d] \in Standing \cup {"resolving", "releasing"} => at'[d] \in Runs
    BY <1>3, <1>7, <1>8 DEF SessionRuns
  <2>3. \A r \in Runs : made[r] = "open" <=> made'[r] = "open"
    BY <1>4, <1>5, <1>7
  <2>4. \A d \in Calls : pc'[d] \in Standing \cup {"ending", "releasing"} /\ at'[d] # 0
          => made'[at'[d]] = "open"
    <3> SUFFICES ASSUME NEW d \in Calls, pc'[d] \in Standing \cup {"ending", "releasing"}, at'[d] # 0
                 PROVE  made'[at'[d]] = "open"
      OBVIOUS
    <3>1. d # c /\ pc'[d] = pc[d] /\ at'[d] = at[d] /\ at[d] \in Runs
      BY <1>3, <1>7, <1>8
    <3> QED BY <2>3, <3>1 DEF SessionRuns
  <2>5. \A d \in Calls, r \in Runs : At(d, r) => At(d, r)'
    BY <1>1, <1>3, <1>7 DEF At
  <2>6. \A r \in Runs : made'[r] = "creating" => \E d \in Calls : At(d, r)'
    <3> SUFFICES ASSUME NEW r \in Runs, made'[r] = "creating" PROVE \E d \in Calls : At(d, r)'
      OBVIOUS
    <3>1. CASE made[r] = "creating"
      BY <2>5, <3>1 DEF SessionRuns
    <3>2. CASE made[r] # "creating"
      <4>1. At(c, r)'
        BY <1>3, <1>7, <3>2 DEF At
      <4> QED BY <4>1
    <3> QED BY <3>1, <3>2
  <2>7. \A r \in Runs : made'[r] = "open" => r \in owned \cup shut \/ \E d \in Calls : At(d, r)'
    BY <2>3, <2>5 DEF SessionRuns
  <2>8. adapter # "open" => to = "settled"
    BY <1>6
  <2>9. adapter \in {"releasing", "closed"} => owned = {} /\ \A d \in Calls : pc'[d] # "resolving"
    BY <1>3, <2>8 DEF SessionRuns
  <2>10. adapter = "closed" => \A r \in shut : Down(r)'
    BY <1>1 DEF SessionRuns, Down
  <2> QED BY <1>1, <2>1, <2>2, <2>4, <2>6, <2>7, <2>9, <2>10 DEF SessionRuns
<1>11. SessionQueue'
  <2>1. \A d \in Calls : pc'[d] \in Standing =>
              /\ pc[d] \in Standing /\ at'[d] = at[d] /\ queue'[at[d]] = queue[at[d]]
              /\ pc'[d] \in AtHead => pc[d] \in AtHead \/ Head(queue[at[d]]) = d
    BY <1>1, <1>3, <1>7, <1>8
  <2> QED BY <2>1, QueueKept
<1>12. SessionWatch' /\ SessionWork' /\ SessionUnread'
  BY <1>1, <1>3, <1>7, <1>8, Aside
<1> QED BY <1>9, <1>10, <1>11, <1>12

LEMMA CreateKeeps ==
    ASSUME SessionInv, NEW r \in Runs, Create(r)
    PROVE  SessionInv'
<1> USE DEF SessionInv
<1>1. /\ made[r] = "creating" /\ \E to \in {"open", "failed"} : made' = [made EXCEPT ![r] = to]
      /\ UNCHANGED <<pc, at, attempt, strategy, watch, signal, invalidated, current, opener, queue,
           shut, stop,
                     owned, adapter, native, work, known, unread, based, unheard>>
  BY DEF Create, callVars, serverVars
<1>2. /\ made' \in [Runs -> {"none", "creating", "open", "failed"}] /\ made'[r] \in {"open", "failed"}
      /\ \A n \in Runs \ {r} : made'[n] = made[n]
  BY <1>1 DEF SessionTyped, SessionTypeOK
<1>3. SessionTyped'
  BY <1>1, <1>2 DEF SessionTyped, SessionTypeOK
<1>4. SessionRuns'
  <2>1. \A c \in Calls : at[c] \in Runs \cup {0}
    BY DEF SessionTyped, SessionTypeOK
  <2>2. Entered' = Entered /\ \A c \in Calls, n \in Runs : At(c, n)' <=> At(c, n)
    BY <1>1 DEF Entered, At
  <2>3. \A n \in Runs : /\ made'[n] # "none" <=> made[n] # "none"
                        /\ made[n] = "open" => made'[n] = "open"
                        /\ made'[n] = "creating" => made[n] = "creating"
                        /\ made'[n] = "open" => made[n] \in {"open", "creating"}
    BY <1>1, <1>2
  <2>4. \A n \in shut : Down(n)' <=> Down(n)
    BY <1>1 DEF Down
  <2> QED BY <1>1, <2>1, <2>2, <2>3, <2>4 DEF SessionRuns
<1>5. SessionQueue' /\ SessionWatch' /\ SessionWork' /\ SessionUnread'
  BY <1>1, CallsKept
<1> QED BY <1>3, <1>4, <1>5

LEMMA ResolveKeeps ==
    ASSUME SessionInv, NEW c \in Calls, Resolve(c)
    PROVE  SessionInv'
<1> USE DEF SessionInv
<1>1. /\ pc[c] = "resolving" /\ made[at[c]] = "open"
      /\ UNCHANGED <<at, watch, signal, invalidated, current, made, opener, adapter, native, work,
           unread, based, unheard>>
  BY DEF Resolve
<1>2. c \notin work /\ AtHead \subseteq Standing /\ {"resolving", "idle", "releasing", "ending"} \cap Standing = {}
      /\ "queued" \in Standing /\ "queued" \notin AtHead /\ at[c] \in Runs
  BY <1>1 DEF SessionWork, Leaving, Standing, AtHead, Watched, Draining, SessionRuns
<1>3. adapter \notin {"releasing", "closed"}
  BY <1>1 DEF SessionRuns
<1>4. CASE /\ Goto(c, "queued") /\ owned' = owned \cup {at[c]} /\ UNCHANGED <<shut, stop, known>>
           /\ strategy' = [strategy EXCEPT ![c] = ResolvedStrategy]
                /\ attempt' = [attempt EXCEPT ![c] = 1]
           /\ queue' = [queue EXCEPT ![at[c]] = Append(@, c)]
  <2>1. /\ pc' \in [Calls -> Open \cup {"idle", "settled"}]
        /\ pc'[c] = "queued" /\ \A d \in Calls \ {c} : pc'[d] = pc[d]
    BY <1>4, Moved DEF Open
  <2>2. /\ attempt' \in [Calls -> 0 .. Retries + 1] /\ attempt'[c] = 1
             /\ \A d \in Calls \ {c} : attempt'[d] = attempt[d]
        /\ strategy' \in [Calls -> {"native", "prompt"}]
    BY OpenCodeAssumption, <1>4 DEF SessionTyped, SessionTypeOK, ResolvedStrategy
  <2>3. /\ Append(queue[at[c]], c) \in Seq(Calls)
        /\ \A d : (\E k \in 1 .. Len(queue[at[c]]) : queue[at[c]][k] = d) \/ d = c
                     => \E k \in 1 .. Len(Append(queue[at[c]], c)) : Append(queue[at[c]], c)[k] = d
        /\ queue[at[c]] # <<>> => Head(Append(queue[at[c]], c)) = Head(queue[at[c]])
    <3>1. queue[at[c]] \in Seq(Calls)
      BY <1>2 DEF SessionTyped, SessionTypeOK
    <3> DEFINE q == queue[at[c]]
    <3> HIDE DEF q
    <3>2. q \in Seq(Calls)
      BY <3>1 DEF q
    <3>3. /\ Append(q, c) \in Seq(Calls)
          /\ \A d : (\E k \in 1 .. Len(q) : q[k] = d) \/ d = c
               => \E k \in 1 .. Len(Append(q, c)) : Append(q, c)[k] = d
          /\ q # <<>> => Head(Append(q, c)) = Head(q)
      BY <3>2, AppendIs
    <3> QED BY <3>3 DEF q
  <2>4. /\ queue' \in [Runs -> Seq(Calls)] /\ queue'[at[c]] = Append(queue[at[c]], c)
        /\ \A r \in Runs \ {at[c]} : queue'[r] = queue[r]
    BY <1>2, <1>4, <2>3 DEF SessionTyped, SessionTypeOK
  <2>5. SessionTyped'
    BY <1>1, <1>2, <1>4, <2>1, <2>2, <2>4 DEF SessionTyped, SessionTypeOK
  <2>6. SessionRuns'
    <3>1. Entered' = Entered /\ \A d \in Calls \ {c}, r \in Runs : At(d, r) <=> At(d, r)'
      BY <1>1, <2>1 DEF Entered, At
    <3>2. \A r \in Runs : At(c, r) => r = at[c]
      BY DEF At
    <3>3. \A d \in Calls : pc'[d] \in Standing \cup {"resolving", "releasing"} => at[d] \in Runs
      BY <1>2, <2>1 DEF SessionRuns
    <3>4. \A d \in Calls : pc'[d] \in Standing \cup {"ending", "releasing"} /\ at[d] # 0
            => made[at[d]] = "open"
      BY <1>1, <2>1 DEF SessionRuns
    <3>5. \A r \in Runs : made[r] = "creating" => \E d \in Calls : At(d, r)'
      BY <1>1, <3>1, <3>2 DEF SessionRuns
    <3>6. \A r \in Runs : made[r] = "open" => r \in owned' \cup shut' \/ \E d \in Calls : At(d, r)'
      BY <1>4, <3>1, <3>2 DEF SessionRuns
    <3> QED BY <1>1, <1>3, <3>1, <3>3, <3>4, <3>5, <3>6 DEF SessionRuns
  <2>7. SessionQueue'
    <3> SUFFICES ASSUME NEW d \in Calls, pc'[d] \in Standing
                 PROVE  /\ \E k \in 1 .. Len(queue'[at[d]]) : queue'[at[d]][k] = d
                        /\ pc'[d] \in AtHead => Head(queue'[at[d]]) = d
      BY <1>1, <1>2 DEF SessionQueue
    <3>1. CASE d = c
      BY <1>2, <2>1, <2>3, <2>4, <3>1
    <3>2. CASE d # c
      <4>1. /\ pc[d] \in Standing /\ pc'[d] = pc[d] /\ at[d] \in Runs /\ queue[at[d]] # <<>>
            /\ \E k \in 1 .. Len(queue[at[d]]) : queue[at[d]][k] = d
            /\ pc'[d] \in AtHead => Head(queue[at[d]]) = d
        BY <2>1, <3>2, StandsIn DEF SessionQueue
      <4>2. CASE at[d] = at[c]
        <5> DEFINE had == at[c]
        <5>1. at[d] = had
          BY <4>2
        <5> HIDE DEF had
        <5>2. /\ \E k \in 1 .. Len(queue[had]) : queue[had][k] = d
              /\ queue[had] # <<>> /\ (pc'[d] \in AtHead => Head(queue[had]) = d)
          BY <4>1, <5>1
        <5>3. queue'[had] = Append(queue[had], c)
          BY <2>4 DEF had
        <5>4. \E k \in 1 .. Len(Append(queue[had], c)) : Append(queue[had], c)[k] = d
          BY <2>3, <5>2 DEF had
        <5>5. Head(Append(queue[had], c)) = Head(queue[had])
          BY <2>3, <5>2 DEF had
        <5> QED BY <5>1, <5>2, <5>3, <5>4, <5>5
      <4>3. CASE at[d] # at[c]
        BY <2>4, <4>1, <4>3
      <4> QED BY <4>2, <4>3
    <3> QED BY <3>1, <3>2
  <2>8. SessionWatch' /\ SessionWork' /\ SessionUnread'
    BY <1>1, <1>2, <1>4, <2>1, <2>2, Aside
  <2> QED BY <2>5, <2>6, <2>7, <2>8
<1>5. CASE Goto(c, "releasing") /\ Release({at[c]}) /\ UNCHANGED <<strategy, attempt, queue>>
  <2>1. /\ pc' \in [Calls -> Open \cup {"idle", "settled"}]
        /\ pc'[c] = "releasing" /\ \A d \in Calls \ {c} : pc'[d] = pc[d]
    BY <1>5, Moved DEF Open
  <2>2. /\ stop' \in [Runs -> {"none", "pending", "answered"}] /\ known' \subseteq work
        /\ \A r \in Runs : stop[r] # "none" => stop'[r] = stop[r]
        /\ owned' = owned \ {at[c]} /\ shut' = shut \cup {at[c]}
    BY <1>5, StopRunsIs DEF Release
  <2>3. SessionTyped'
    BY <1>1, <1>2, <1>5, <2>1, <2>2 DEF SessionTyped, SessionTypeOK
  <2>4. SessionRuns'
    <3>1. Entered' = Entered /\ \A d \in Calls \ {c}, r \in Runs : At(d, r) <=> At(d, r)'
      BY <1>1, <2>1 DEF Entered, At
    <3>2. \A r \in Runs : At(c, r) => r = at[c]
      BY DEF At
    <3>3. \A d \in Calls : pc'[d] \in Standing \cup {"resolving", "releasing"} => at[d] \in Runs
      BY <1>2, <2>1 DEF SessionRuns
    <3>4. \A d \in Calls : pc'[d] \in Standing \cup {"ending", "releasing"} /\ at[d] # 0
            => made[at[d]] = "open"
      BY <1>1, <2>1 DEF SessionRuns
    <3>5. \A r \in Runs : made[r] = "creating" => \E d \in Calls : At(d, r)'
      BY <1>1, <3>1, <3>2 DEF SessionRuns
    <3>6. \A r \in Runs : made[r] = "open" => r \in owned' \cup shut' \/ \E d \in Calls : At(d, r)'
      BY <2>2, <3>1, <3>2 DEF SessionRuns
    <3> QED BY <1>1, <1>3, <3>1, <3>3, <3>4, <3>5, <3>6 DEF SessionRuns
  <2>5. SessionQueue'
    <3>1. \A d \in Calls : pc'[d] \in Standing =>
              /\ pc[d] \in Standing /\ at'[d] = at[d] /\ queue'[at[d]] = queue[at[d]]
              /\ pc'[d] \in AtHead => pc[d] \in AtHead \/ Head(queue[at[d]]) = d
      BY <1>1, <1>2, <1>5, <2>1
    <3> QED BY <3>1, QueueKept
  <2>6. SessionWatch' /\ SessionWork' /\ SessionUnread'
    BY <1>1, <1>2, <1>5, <2>1, <2>2, Aside
  <2> QED BY <2>3, <2>4, <2>5, <2>6
<1> QED BY <1>4, <1>5 DEF Resolve

LEMMA ResolveFailsKeeps ==
    ASSUME SessionInv, NEW c \in Calls, ResolveFails(c)
    PROVE  SessionInv'
<1> USE DEF SessionInv
<1>1. /\ pc[c] = "resolving" /\ made[at[c]] = "failed" /\ Goto(c, "ending")
           /\ at' = [at EXCEPT ![c] = 0]
      /\ UNCHANGED <<attempt, strategy, watch, signal, invalidated, current, made, opener, queue, shut,
           stop,
                     owned, adapter, native, work, known, unread, based, unheard>>
  BY DEF ResolveFails, runVars, serverVars
<1>2. /\ pc' \in [Calls -> Open \cup {"idle", "settled"}]
      /\ pc'[c] = "ending" /\ \A d \in Calls \ {c} : pc'[d] = pc[d]
  BY <1>1, Moved DEF Open
<1>3. at' \in [Calls -> Runs \cup {0}] /\ at'[c] = 0 /\ \A d \in Calls \ {c} : at'[d] = at[d]
  BY <1>1 DEF SessionTyped, SessionTypeOK
<1>4. c \notin work /\ AtHead \subseteq Standing
        /\ {"resolving", "ending", "idle", "releasing"} \cap Standing = {}
  BY <1>1 DEF SessionWork, Leaving, Standing, AtHead, Watched, Draining
<1>5. SessionTyped'
  BY <1>1, <1>2, <1>3 DEF SessionTyped, SessionTypeOK
<1>6. SessionRuns'
  <2>1. Entered' = Entered
    BY <1>1, <1>2 DEF Entered
  <2>2. \A d \in Calls, r \in Runs : At(d, r) /\ made[r] # "failed" => At(d, r)'
    BY <1>1, <1>2, <1>3 DEF At
  <2>3. \A d \in Calls : pc'[d] = "resolving" => pc[d] = "resolving"
    BY <1>2
  <2>4. \A r \in shut : Down(r) => Down(r)'
    BY <1>1 DEF Down
  <2>5. \A d \in Calls : pc'[d] \in Standing \cup {"resolving", "releasing"} => at'[d] \in Runs
    BY <1>2, <1>3, <1>4 DEF SessionRuns
  <2>6. \A d \in Calls : pc'[d] \in Standing \cup {"ending", "releasing"} /\ at'[d] # 0
          => made[at'[d]] = "open"
    BY <1>2, <1>3, <1>4 DEF SessionRuns
  <2> QED BY <1>1, <2>1, <2>2, <2>3, <2>4, <2>5, <2>6 DEF SessionRuns
<1>7. SessionQueue'
  <2>1. \A d \in Calls : pc'[d] \in Standing =>
              /\ pc[d] \in Standing /\ at'[d] = at[d] /\ queue'[at[d]] = queue[at[d]]
              /\ pc'[d] \in AtHead => pc[d] \in AtHead \/ Head(queue[at[d]]) = d
    BY <1>1, <1>2, <1>3, <1>4
  <2> QED BY <2>1, QueueKept
<1>8. SessionWatch' /\ SessionWork' /\ SessionUnread'
  BY <1>1, <1>2, <1>3, <1>4, Aside
<1> QED BY <1>5, <1>6, <1>7, <1>8

LEMMA BeginKeeps ==
    ASSUME SessionInv, NEW c \in Calls, Begin(c)
    PROVE  SessionInv'
<1> USE DEF SessionInv
<1>1. /\ pc[c] = "queued" /\ Head(queue[at[c]]) = c
      /\ UNCHANGED <<at, attempt, strategy, watch, signal, invalidated, current, made, opener, shut,
           stop,
                     owned, adapter, native, work, known, unread, based, unheard>>
  BY DEF Begin, serverVars
<1>2. c \notin work /\ pc[c] \in Standing /\ pc[c] \notin AtHead /\ at[c] \in Runs
  BY <1>1 DEF SessionWork, Standing, AtHead, Watched, Draining, Leaving, SessionRuns
<1>3. CASE Refuse(c)
  <2>1. /\ pc' \in [Calls -> Open \cup {"idle", "settled"}]
        /\ pc'[c] = "ending" /\ \A d \in Calls \ {c} : pc'[d] = pc[d]
        /\ queue' \in [Runs -> Seq(Calls)]
        /\ SessionRuns' /\ SessionQueue' /\ \A r \in Runs : Spoiled(r) => Spoiled(r)'
    <3> DEFINE rest == Tail(queue[at[c]])
    <3>1. Goto(c, "ending") /\ queue' = [queue EXCEPT ![at[c]] = rest]
            /\ rest = IF "ending" = "ending" THEN Tail(queue[at[c]]) ELSE Append(Tail(queue[at[c]]), c)
      BY <1>3, <1>2 DEF Refuse, SessionTyped, SessionTypeOK
    <3> HIDE DEF rest
    <3> QED BY <1>1, <1>2, <3>1, HeadLeaves
  <2>2. SessionTyped'
    BY <1>1, <2>1 DEF SessionTyped, SessionTypeOK
  <2>3. SessionWatch'
    BY <1>1, <2>1 DEF SessionWatch, Standing, AtHead, Watched, Draining
  <2>4. SessionWork'
    <3>1. \A d \in work : d \in Calls /\ d # c /\ pc'[d] = pc[d]
      BY <1>2, <2>1 DEF SessionTyped, SessionTypeOK
    <3> QED BY <1>1, <2>1, <3>1 DEF SessionWork
  <2>5. SessionUnread'
    <3>1. \A r \in Runs : \A e : Own(r, e) => Own(r, e)'
      BY <1>1, <2>1 DEF Own, Telling, Draining
    <3> QED BY <1>1, <2>1, <3>1 DEF SessionUnread
  <2> QED BY <2>1, <2>2, <2>3, <2>4, <2>5
<1>4. CASE Goto(c, "preparing") /\ UNCHANGED queue /\ stop[at[c]] = "none"
  <2>1. /\ pc' \in [Calls -> Open \cup {"idle", "settled"}]
        /\ pc'[c] = "preparing" /\ \A d \in Calls \ {c} : pc'[d] = pc[d]
    BY <1>4, Moved DEF Open, Watched
  <2>2. "preparing" \in Standing /\ "preparing" \in AtHead /\ "preparing" \in Open
    BY DEF Standing, AtHead, Watched, Open
  <2>3. SessionRuns'
    <3>1. \A r \in Runs : Down(r) => Down(r)'
      BY <1>1, <1>4 DEF Down
    <3>2. "idle" # "preparing" /\ "resolving" # "preparing" /\ "idle" # "queued"
            /\ "resolving" # "queued"
      OBVIOUS
    <3> QED BY <1>1, <1>2, <1>4, <2>1, <2>2, <3>1, <3>2, RunsKept DEF SessionTyped, SessionTypeOK
  <2>4. SessionQueue'
    <3>1. \A d \in Calls : pc'[d] \in Standing =>
              /\ pc[d] \in Standing /\ at'[d] = at[d] /\ queue'[at[d]] = queue[at[d]]
              /\ pc'[d] \in AtHead => pc[d] \in AtHead \/ Head(queue[at[d]]) = d
      BY <1>1, <1>2, <1>4, <2>1
    <3> QED BY <3>1, QueueKept
  <2>5. \A r \in Runs : Spoiled(r) => Spoiled(r)'
    BY <1>1, <1>4, <2>1, StaysSpoiled DEF Spoiled
  <2>6. SessionTyped'
    BY <1>1, <1>4, <2>1 DEF SessionTyped, SessionTypeOK
  <2>7. SessionWatch'
    BY <1>1, <1>2, <2>1 DEF SessionWatch
  <2>8. SessionWork'
    <3>1. \A d \in work : d \in Calls /\ d # c /\ pc'[d] = pc[d]
      BY <1>2, <2>1 DEF SessionTyped, SessionTypeOK
    <3> QED BY <1>1, <2>1, <2>5, <3>1 DEF SessionWork
  <2>9. SessionUnread'
    <3>1. \A r \in Runs : \A e : Own(r, e) => Own(r, e)'
      BY <1>1, <2>1 DEF Own, Telling, Draining
    <3> QED BY <1>1, <2>1, <2>5, <3>1 DEF SessionUnread
  <2> QED BY <2>3, <2>4, <2>6, <2>7, <2>8, <2>9
<1> QED BY <1>2, <1>3, <1>4 DEF Begin, SessionTyped, SessionTypeOK

LEMMA PrepareFailsKeeps ==
    ASSUME SessionInv, NEW c \in Calls, PrepareFails(c)
    PROVE  SessionInv'
<1> USE DEF SessionInv
<1>1. /\ pc[c] = "preparing" /\ Refuse(c)
      /\ UNCHANGED <<at, attempt, strategy, watch, signal, invalidated, current, made, opener, shut,
           stop,
                     owned, adapter, native, work, known, unread, based, unheard>>
  BY DEF PrepareFails, serverVars
<1>2. c \notin work /\ pc[c] \in Standing /\ pc[c] \in AtHead /\ at[c] \in Runs
        /\ Head(queue[at[c]]) = c
  BY <1>1 DEF SessionWork, Standing, AtHead, Watched, Draining, Leaving, SessionRuns, SessionQueue
<1>3. /\ pc' \in [Calls -> Open \cup {"idle", "settled"}]
      /\ pc'[c] = "ending" /\ \A d \in Calls \ {c} : pc'[d] = pc[d]
      /\ queue' \in [Runs -> Seq(Calls)]
      /\ SessionRuns' /\ SessionQueue' /\ \A r \in Runs : Spoiled(r) => Spoiled(r)'
  <2> DEFINE rest == Tail(queue[at[c]])
  <2>1. Goto(c, "ending") /\ queue' = [queue EXCEPT ![at[c]] = rest]
          /\ rest = IF "ending" = "ending" THEN Tail(queue[at[c]]) ELSE Append(Tail(queue[at[c]]), c)
    BY <1>1, <1>2 DEF Refuse, SessionTyped, SessionTypeOK
  <2> HIDE DEF rest
  <2> QED BY <1>1, <1>2, <2>1, HeadLeaves
<1>4. SessionTyped'
  BY <1>1, <1>3 DEF SessionTyped, SessionTypeOK
<1>5. SessionWatch'
  BY <1>1, <1>3 DEF SessionWatch, Standing, AtHead, Watched, Draining
<1>6. SessionWork'
  <2>1. \A d \in work : d \in Calls /\ d # c /\ pc'[d] = pc[d]
    BY <1>2, <1>3 DEF SessionTyped, SessionTypeOK
  <2> QED BY <1>1, <1>3, <2>1 DEF SessionWork
<1>7. SessionUnread'
  <2>1. \A r \in Runs : \A e : Own(r, e) => Own(r, e)'
    BY <1>1, <1>3 DEF Own, Telling, Draining
  <2> QED BY <1>1, <1>3, <2>1 DEF SessionUnread
<1> QED BY <1>3, <1>4, <1>5, <1>6, <1>7

LEMMA PromptKeeps ==
    ASSUME SessionInv, NEW c \in Calls, Prompt(c)
    PROVE  SessionInv'
<1> USE DEF SessionInv
<1>1. /\ pc[c] = "preparing" /\ Goto(c, "prompting") /\ based' = [based EXCEPT ![at[c]] = TRUE]
      /\ unread' = [unread EXCEPT ![at[c]] = IF based[at[c]] THEN @ ELSE {}]
      /\ watch' = [watch EXCEPT ![c] = "on"] /\ work' \in {work, work \cup {c}}
      /\ UNCHANGED <<at, attempt, strategy, signal, invalidated, current, made, opener, queue, shut,
           stop,
                     owned, adapter, native, known, unheard>>
  BY DEF Prompt, runVars
<1>2. pc[c] \in AtHead /\ "prompting" \in AtHead /\ at[c] \in Runs /\ attempt[c] >= 1
  BY <1>1 DEF AtHead, Watched, SessionRuns, SessionWatch, Standing
<1>3. /\ pc' \in [Calls -> Open \cup {"idle", "settled"}]
      /\ pc'[c] = "prompting" /\ \A d \in Calls \ {c} : pc'[d] = pc[d]
      /\ SessionRuns' /\ SessionQueue' /\ \A r \in Runs : Spoiled(r) => Spoiled(r)'
  BY <1>1, <1>2, HeadMoves
<1>4. /\ based' \in [Runs -> BOOLEAN] /\ unread' \in [Runs -> SUBSET (Calls \X (1 .. Retries + 1))]
      /\ unread'[at[c]] = (IF based[at[c]] THEN unread[at[c]] ELSE {})
      /\ \A r \in Runs \ {at[c]} : based'[r] = based[r] /\ unread'[r] = unread[r]
  BY <1>1, <1>2 DEF SessionTyped, SessionTypeOK
<1>5. /\ watch' \in [Calls -> {"off", "on", "failed"}] /\ watch'[c] = "on"
      /\ \A d \in Calls \ {c} : watch'[d] = watch[d]
  BY <1>1 DEF SessionTyped, SessionTypeOK
<1>6. SessionTyped'
  BY <1>1, <1>3, <1>4, <1>5 DEF SessionTyped, SessionTypeOK
<1>7. SessionWatch'
  BY <1>1, <1>2, <1>3, <1>5 DEF SessionWatch, Standing
<1>8. SessionWork'
  BY <1>1, <1>2, <1>3 DEF SessionWork, SessionTyped, SessionTypeOK, Leaving
<1>9. SessionUnread'
  <2>1. \A r \in Runs : \A e : Own(r, e) => Own(r, e)'
    BY <1>1, <1>3 DEF Own, Telling
  <2>2. ASSUME NEW r \in Runs, based'[r], NEW e \in unread'[r] PROVE based[r] /\ e \in unread[r]
    BY <1>4, <2>2
  <2> QED BY <1>1, <1>3, <2>1, <2>2 DEF SessionUnread
<1> QED BY <1>3, <1>6, <1>7, <1>8, <1>9

LEMMA EndTurnKeeps ==
    ASSUME SessionInv, NEW c \in Calls, EndTurn(c)
    PROVE  SessionInv'
<1> USE DEF SessionInv
<1>1. /\ c \in work /\ work' = work \ {c} /\ known' = known \ {c}
      /\ unread' = [unread EXCEPT ![at[c]] = IF at[c] \in shut THEN @ ELSE @ \cup {<<c, attempt[c]>>}]
      /\ UNCHANGED <<pc, at, attempt, strategy, watch, signal, invalidated, current, made, opener,
           queue, shut, stop,
                     owned, adapter, native, based, unheard>>
  BY DEF EndTurn, callVars, runVars
<1>2. at[c] \in Runs /\ attempt[c] \in 1 .. Retries + 1
  BY <1>1 DEF SessionWork, SessionTyped, SessionTypeOK
<1>3. /\ unread' \in [Runs -> SUBSET (Calls \X (1 .. Retries + 1))]
      /\ \A r \in Runs : \A e \in unread'[r] : e \in unread[r] \/ (r = at[c] /\ e = <<c, attempt[c]>>)
  BY <1>1, <1>2 DEF SessionTyped, SessionTypeOK
<1>4. SessionTyped'
  BY <1>1, <1>3 DEF SessionTyped, SessionTypeOK
<1>5. SessionRuns' /\ SessionQueue' /\ \A r \in Runs : Spoiled(r) => Spoiled(r)'
  BY <1>1, Undisturbed
<1>6. SessionWatch' /\ SessionWork'
  BY <1>1, <1>5 DEF SessionWatch, SessionWork
<1>7. SessionUnread'
  <2>1. \A r \in Runs : \A e : Own(r, e) => Own(r, e)'
    BY <1>1 DEF Own
  <2>2. c \in unheard \/ Spoiled(at[c]) \/ Own(at[c], <<c, attempt[c]>>)
    BY <1>1 DEF SessionWork, Own, Telling, Leaving, Draining
  <2>3. <<c, attempt[c]>>[1] = c
    OBVIOUS
  <2> QED BY <1>1, <1>2, <1>3, <1>5, <2>1, <2>2, <2>3 DEF SessionUnread
<1> QED BY <1>4, <1>5, <1>6, <1>7

LEMMA AnsweredKeeps ==
    ASSUME SessionInv, NEW c \in Calls, Answered(c)
    PROVE  SessionInv'
<1> USE DEF SessionInv
<1>1. /\ pc[c] = "prompting" /\ c \notin work /\ Goto(c, "reading")
      /\ UNCHANGED <<at, attempt, strategy, watch, signal, invalidated, current, made, opener, queue,
           shut, stop,
                     owned, adapter, native, work, known, unread, based, unheard>>
  BY DEF Answered, HasAnswer, runVars, serverVars
<1>2. pc[c] \in AtHead /\ "reading" \in AtHead
  BY <1>1 DEF AtHead, Watched
<1>3. /\ pc' \in [Calls -> Open \cup {"idle", "settled"}]
      /\ pc'[c] = "reading" /\ \A d \in Calls \ {c} : pc'[d] = pc[d]
      /\ SessionRuns' /\ SessionQueue' /\ \A r \in Runs : Spoiled(r) => Spoiled(r)'
  BY <1>1, <1>2, HeadMoves
<1>4. SessionTyped'
  BY <1>1, <1>3 DEF SessionTyped, SessionTypeOK
<1>5. SessionWatch'
  BY <1>1, <1>2, <1>3 DEF SessionWatch, Standing
<1>6. SessionWork'
  <2>1. \A d \in work : d \in Calls /\ d # c /\ pc'[d] = pc[d]
    BY <1>1, <1>3 DEF SessionTyped, SessionTypeOK
  <2> QED BY <1>1, <1>3, <2>1 DEF SessionWork
<1>7. SessionUnread'
  <2>1. \A r \in Runs : \A e : Own(r, e) => Own(r, e)'
    BY <1>1, <1>3 DEF Own, Telling
  <2> QED BY <1>1, <1>3, <2>1 DEF SessionUnread
<1> QED BY <1>3, <1>4, <1>5, <1>6, <1>7

LEMMA IncompatibleKeeps ==
    ASSUME SessionInv, NEW c \in Calls, Incompatible(c)
    PROVE  SessionInv'
<1> USE DEF SessionInv
<1>1. /\ pc[c] = "prompting" /\ c \notin work /\ Goto(c, "draining") /\ native' = FALSE
      /\ UNCHANGED <<at, attempt, strategy, watch, signal, invalidated, current, made, opener, queue,
           shut, stop,
                     owned, adapter, work, known, unread, based, unheard>>
  BY DEF Incompatible, HasAnswer, serverVars
<1>2. pc[c] \in AtHead /\ "draining" \in AtHead
  BY <1>1 DEF AtHead, Watched, Draining
<1>3. /\ pc' \in [Calls -> Open \cup {"idle", "settled"}]
      /\ pc'[c] = "draining" /\ \A d \in Calls \ {c} : pc'[d] = pc[d]
      /\ SessionRuns' /\ SessionQueue' /\ \A r \in Runs : Spoiled(r) => Spoiled(r)'
  BY <1>1, <1>2, HeadMoves
<1>4. SessionTyped'
  BY <1>1, <1>3 DEF SessionTyped, SessionTypeOK
<1>5. SessionWatch'
  BY <1>1, <1>2, <1>3 DEF SessionWatch, Standing
<1>6. SessionWork'
  <2>1. \A d \in work : d \in Calls /\ d # c /\ pc'[d] = pc[d]
    BY <1>1, <1>3 DEF SessionTyped, SessionTypeOK
  <2> QED BY <1>1, <1>3, <2>1 DEF SessionWork
<1>7. SessionUnread'
  <2>1. \A r \in Runs : \A e : Own(r, e) => Own(r, e)'
    BY <1>1, <1>3 DEF Own, Telling, Draining
  <2> QED BY <1>1, <1>3, <2>1 DEF SessionUnread
<1> QED BY <1>3, <1>4, <1>5, <1>6, <1>7

LEMMA DisconnectKeeps ==
    ASSUME SessionInv, NEW c \in Calls, Disconnect(c)
    PROVE  SessionInv'
<1> USE DEF SessionInv
<1>1. /\ pc[c] = "prompting" /\ Goto(c, "draining") /\ known' = known \cup ({c} \cap work)
           /\ unheard' = unheard \cup {c}
      /\ UNCHANGED <<at, attempt, strategy, watch, signal, invalidated, current, made, opener, queue,
           shut, stop,
                     owned, adapter, native, work, unread, based>>
  BY DEF Disconnect, runVars
<1>2. pc[c] \in AtHead /\ "draining" \in AtHead
  BY <1>1 DEF AtHead, Watched, Draining
<1>3. /\ pc' \in [Calls -> Open \cup {"idle", "settled"}]
      /\ pc'[c] = "draining" /\ \A d \in Calls \ {c} : pc'[d] = pc[d]
      /\ SessionRuns' /\ SessionQueue' /\ \A r \in Runs : Spoiled(r) => Spoiled(r)'
  BY <1>1, <1>2, HeadMoves
<1>4. SessionTyped'
  BY <1>1, <1>3 DEF SessionTyped, SessionTypeOK
<1>5. SessionWatch'
  BY <1>1, <1>2, <1>3 DEF SessionWatch, Standing
<1>6. SessionWork'
  BY <1>1, <1>3 DEF SessionWork, SessionTyped, SessionTypeOK, Leaving
<1>7. SessionUnread'
  <2>1. \A r \in Runs : \A e : Own(r, e) => Own(r, e)'
    BY <1>1, <1>3 DEF Own, Telling, Draining
  <2> QED BY <1>1, <1>3, <2>1 DEF SessionUnread
<1> QED BY <1>3, <1>4, <1>5, <1>6, <1>7

LEMMA InterruptedKeeps ==
    ASSUME SessionInv, NEW c \in Calls, Interrupted(c)
    PROVE  SessionInv'
<1> USE DEF SessionInv
<1>1. /\ pc[c] = "prompting" /\ Goto(c, "stopping") /\ StopRuns({at[c]})
           /\ invalidated' = invalidated \cup {c} /\ current' = 0
      /\ UNCHANGED <<at, attempt, strategy, signal, made, opener, queue, shut, owned, adapter, native,
                     work, unread, based, unheard>>
  BY DEF Interrupted
<1>2. watch' \in [Calls -> {"off", "on", "failed"}] /\ \A d \in Calls \ {c} : watch'[d] = watch[d]
  BY DEF Interrupted, SessionTyped, SessionTypeOK
<1>3. pc[c] \in AtHead /\ "stopping" \in AtHead /\ at[c] \in Runs
  BY <1>1 DEF AtHead, Watched, SessionRuns, Standing
<1>4. /\ stop' \in [Runs -> {"none", "pending", "answered"}]
      /\ stop'[at[c]] # "none" /\ \A r \in Runs : stop[r] # "none" => stop'[r] = stop[r]
      /\ known' \subseteq work
  BY <1>1, <1>3, StopRunsIs
<1>5. /\ pc' \in [Calls -> Open \cup {"idle", "settled"}]
      /\ pc'[c] = "stopping" /\ \A d \in Calls \ {c} : pc'[d] = pc[d]
      /\ SessionRuns' /\ SessionQueue' /\ \A r \in Runs : Spoiled(r) => Spoiled(r)'
  BY <1>1, <1>3, <1>4, HeadMoves
<1>6. SessionTyped'
  BY <1>1, <1>2, <1>4, <1>5 DEF SessionTyped, SessionTypeOK
<1>7. SessionWatch'
  BY <1>1, <1>2, <1>3, <1>4, <1>5 DEF SessionWatch, SessionRuns, Standing, AtHead, Draining
<1>8. SessionWork'
  BY <1>1, <1>4, <1>5 DEF SessionWork, SessionTyped, SessionTypeOK, Leaving
<1>9. SessionUnread'
  <2>1. \A r \in Runs : \A e : Own(r, e) => Own(r, e)'
    BY <1>1, <1>5 DEF Own, Telling
  <2> QED BY <1>1, <1>5, <2>1 DEF SessionUnread
<1> QED BY <1>5, <1>6, <1>7, <1>8, <1>9

LEMMA StoppedKeeps ==
    ASSUME SessionInv, NEW c \in Calls, Stopped(c)
    PROVE  SessionInv'
<1> USE DEF SessionInv
<1>1. /\ pc[c] \in {"stopping", "prompting"} /\ stop[at[c]] # "none" /\ Goto(c, "draining")
      /\ UNCHANGED <<at, attempt, strategy, watch, signal, invalidated, current, made, opener, queue,
           shut, stop,
                     owned, adapter, native, work, known, unread, based, unheard>>
  BY DEF Stopped, runVars, serverVars
<1>2. pc[c] \in AtHead /\ "draining" \in AtHead
  BY <1>1 DEF AtHead, Watched, Draining
<1>3. /\ pc' \in [Calls -> Open \cup {"idle", "settled"}]
      /\ pc'[c] = "draining" /\ \A d \in Calls \ {c} : pc'[d] = pc[d]
      /\ SessionRuns' /\ SessionQueue' /\ \A r \in Runs : Spoiled(r) => Spoiled(r)'
  BY <1>1, <1>2, HeadMoves
<1>4. SessionTyped'
  BY <1>1, <1>3 DEF SessionTyped, SessionTypeOK
<1>5. SessionWatch'
  BY <1>1, <1>2, <1>3 DEF SessionWatch, Standing
<1>6. SessionWork'
  BY <1>1, <1>3 DEF SessionWork, SessionTyped, SessionTypeOK, Leaving
<1>7. SessionUnread'
  <2>1. \A r \in Runs : \A e : Own(r, e) => Own(r, e)'
    BY <1>1, <1>3 DEF Own, Telling, Draining
  <2> QED BY <1>1, <1>3, <2>1 DEF SessionUnread
<1> QED BY <1>3, <1>4, <1>5, <1>6, <1>7

LEMMA ReadBackKeeps ==
    ASSUME SessionInv, NEW c \in Calls, ReadBack(c)
    PROVE  SessionInv'
<1> USE DEF SessionInv
<1>1. /\ pc[c] = "reading" /\ native' \in BOOLEAN
      /\ UNCHANGED <<at, attempt, strategy, watch, signal, invalidated, current, made, opener, queue,
           shut, stop,
                     owned, adapter, work, known, unread, based, unheard>>
  BY DEF ReadBack, serverVars, SessionTyped
<1>2. PICK to \in Draining : Goto(c, to)
  BY DEF ReadBack, Draining
<1>3. pc[c] \in AtHead /\ to \in AtHead /\ c \notin work
  BY <1>1 DEF AtHead, Watched, SessionWork, Leaving
<1>4. /\ pc' \in [Calls -> Open \cup {"idle", "settled"}]
      /\ pc'[c] = to /\ \A d \in Calls \ {c} : pc'[d] = pc[d]
      /\ SessionRuns' /\ SessionQueue' /\ \A r \in Runs : Spoiled(r) => Spoiled(r)'
  BY <1>1, <1>2, <1>3, HeadMoves
<1>5. SessionTyped'
  BY <1>1, <1>4 DEF SessionTyped, SessionTypeOK
<1>6. SessionWatch'
  BY <1>1, <1>3, <1>4 DEF SessionWatch, Standing, Draining
<1>7. SessionWork'
  <2>1. \A d \in work : d \in Calls /\ d # c /\ pc'[d] = pc[d]
    BY <1>3, <1>4 DEF SessionTyped, SessionTypeOK
  <2> QED BY <1>1, <1>4, <2>1 DEF SessionWork
<1>8. SessionUnread'
  <2>1. \A r \in Runs : \A e : Own(r, e) => Own(r, e)'
    BY <1>1, <1>4 DEF Own, Telling
  <2> QED BY <1>1, <1>4, <2>1 DEF SessionUnread
<1> QED BY <1>4, <1>5, <1>6, <1>7, <1>8

LEMMA PollKeeps ==
    ASSUME SessionInv, NEW c \in Calls, Poll(c)
    PROVE  SessionInv'
<1> USE DEF SessionInv
<1>1. /\ pc[c] \in AtHead /\ unread' = [unread EXCEPT ![at[c]] = {}]
      /\ UNCHANGED <<pc, at, attempt, strategy, watch, signal, invalidated, current, made, opener,
           queue, shut, stop,
                     owned, adapter, native, work, known, based, unheard>>
  BY DEF Poll, callVars, runVars, AtHead, Watched
<1>2. at[c] \in Runs
  BY <1>1 DEF SessionRuns, Standing
<1>3. /\ unread' \in [Runs -> SUBSET (Calls \X (1 .. Retries + 1))]
      /\ \A r \in Runs : unread'[r] \subseteq unread[r]
  BY <1>1, <1>2 DEF SessionTyped, SessionTypeOK
<1>4. SessionTyped'
  BY <1>1, <1>3 DEF SessionTyped, SessionTypeOK
<1>5. SessionRuns' /\ SessionQueue' /\ \A r \in Runs : Spoiled(r) => Spoiled(r)'
  BY <1>1, Undisturbed
<1>6. SessionWatch' /\ SessionWork'
  BY <1>1, <1>5 DEF SessionWatch, SessionWork
<1>7. SessionUnread'
  <2>1. \A r \in Runs : \A e : Own(r, e) => Own(r, e)'
    BY <1>1 DEF Own
  <2> QED BY <1>1, <1>3, <1>5, <2>1 DEF SessionUnread
<1> QED BY <1>4, <1>5, <1>6, <1>7

LEMMA BackgroundKeeps ==
    ASSUME SessionInv, NEW c \in Calls, Background(c)
    PROVE  SessionInv'
<1> USE DEF SessionInv
<1>1. /\ c \in work /\ known' = known \cup {c}
      /\ UNCHANGED <<pc, at, attempt, strategy, watch, signal, invalidated, current, made, opener,
           queue, shut, stop,
                     owned, adapter, native, work, unread, based, unheard>>
  BY DEF Background, callVars, runVars
<1>2. SessionTyped'
  BY <1>1 DEF SessionTyped, SessionTypeOK
<1>3. SessionRuns' /\ SessionQueue' /\ \A r \in Runs : Spoiled(r) => Spoiled(r)'
  BY <1>1, Undisturbed
<1>4. SessionWatch' /\ SessionWork'
  BY <1>1, <1>3 DEF SessionWatch, SessionWork
<1>5. SessionUnread'
  BY <1>1, <1>3 DEF SessionUnread, Own
<1> QED BY <1>2, <1>3, <1>4, <1>5

LEMMA PollFailsKeeps ==
    ASSUME SessionInv, NEW c \in Calls, PollFails(c)
    PROVE  SessionInv'
<1> USE DEF SessionInv
<1>1. /\ pc[c] = "reading" /\ watch' = [watch EXCEPT ![c] = "failed"]
      /\ UNCHANGED <<pc, at, attempt, strategy, signal, invalidated, current, made, opener, queue, shut,
           stop,
                     owned, adapter, native, work, known, unread, based, unheard>>
  BY DEF PollFails, runVars, serverVars
<1>2. watch' \in [Calls -> {"off", "on", "failed"}] /\ watch'[c] = "failed"
        /\ \A d \in Calls \ {c} : watch'[d] = watch[d]
  BY <1>1 DEF SessionTyped, SessionTypeOK
<1>3. SessionTyped'
  BY <1>1, <1>2 DEF SessionTyped, SessionTypeOK
<1>4. SessionRuns' /\ SessionQueue' /\ \A r \in Runs : Spoiled(r) => Spoiled(r)'
  BY <1>1, Undisturbed
<1>5. SessionWatch' /\ SessionWork'
  BY <1>1, <1>2, <1>4 DEF SessionWatch, SessionWork
<1>6. SessionUnread'
  BY <1>1, <1>4 DEF SessionUnread, Own
<1> QED BY <1>3, <1>4, <1>5, <1>6

LEMMA DrainKeeps ==
    ASSUME SessionInv, NEW c \in Calls, Drain(c)
    PROVE  SessionInv'
<1> USE DEF SessionInv
<1>1. /\ pc[c] \in Draining /\ watch' = [watch EXCEPT ![c] = "off"]
      /\ UNCHANGED <<at, strategy, signal, invalidated, current, made, opener, shut, stop,
                     owned, adapter, native, work, known>>
  BY DEF Drain
<1>2. /\ pc[c] \in AtHead /\ pc[c] \in Standing /\ at[c] \in Runs /\ Head(queue[at[c]]) = c
           /\ attempt[c] \in Nat /\ attempt[c] >= 1
      /\ pc[c] \in {"draining", "accepting"}
  BY <1>1
     DEF AtHead, Draining, SessionRuns, Standing, SessionQueue, SessionWatch, SessionTyped,
         SessionTypeOK
<1>3. PICK to \in {"ending", "queued"}, rest \in {Tail(queue[at[c]]), Append(Tail(queue[at[c]]), c)} :
         /\ Goto(c, to) /\ queue' = [queue EXCEPT ![at[c]] = rest]
         /\ rest = IF to = "ending" THEN Tail(queue[at[c]]) ELSE Append(Tail(queue[at[c]]), c)
         /\ to = "ending" => attempt' = attempt
         /\ to = "queued" => /\ pc[c] = "accepting" /\ attempt[c] <= Retries
                             /\ attempt' = [attempt EXCEPT ![c] = @ + 1]
  BY DEF Drain, MayRepeat
<1>4. /\ pc' \in [Calls -> Open \cup {"idle", "settled"}]
      /\ pc'[c] = to /\ \A d \in Calls \ {c} : pc'[d] = pc[d]
      /\ queue' \in [Runs -> Seq(Calls)]
      /\ SessionRuns' /\ SessionQueue' /\ \A r \in Runs : Spoiled(r) => Spoiled(r)'
      /\ \A d \in Calls : at[d] = at[c] => pc'[d] \notin AtHead
  BY <1>1, <1>2, <1>3, HeadLeaves
<1>5. /\ attempt' \in [Calls -> 0 .. Retries + 1] /\ attempt'[c] >= 1
      /\ \A d \in Calls \ {c} : attempt'[d] = attempt[d]
  BY OpenCodeAssumption, <1>2, <1>3 DEF SessionTyped, SessionTypeOK
<1>6. /\ unheard' \in {unheard, unheard \cup {c}}
      /\ unread' \in [Runs -> SUBSET (Calls \X (1 .. Retries + 1))] /\ based' \in [Runs -> BOOLEAN]
      /\ \A r \in Runs \ {at[c]} : unread'[r] = unread[r] /\ based'[r] = based[r]
      /\ \/ unread'[at[c]] = {} \/ ~based'[at[c]]
         \/ unread' = unread /\ based' = based /\ (watch[c] = "off" \/ c \in unheard')
  <2>1. CASE FinalRead(at[c])
    BY <1>2, <2>1 DEF FinalRead, SessionTyped, SessionTypeOK
  <2>2. CASE unheard' = unheard \cup {c} /\ UNCHANGED <<unread, based>>
    BY <2>2 DEF SessionTyped, SessionTypeOK
  <2>3. CASE watch[c] = "off" /\ UNCHANGED <<unread, based, unheard>>
    BY <2>3 DEF SessionTyped, SessionTypeOK
  <2> QED BY <2>1, <2>2, <2>3 DEF Drain
<1>7. SessionTyped'
  <2>1. watch' \in [Calls -> {"off", "on", "failed"}] /\ unheard' \subseteq Calls
    BY <1>1, <1>6 DEF SessionTyped, SessionTypeOK
  <2> QED BY <1>1, <1>4, <1>5, <1>6, <2>1 DEF SessionTyped, SessionTypeOK
<1>8. SessionWatch'
  <2>1. \A d \in Calls \ {c} : watch'[d] = watch[d] /\ attempt'[d] = attempt[d] /\ pc'[d] = pc[d]
    BY <1>1, <1>4, <1>5 DEF SessionTyped, SessionTypeOK
  <2>2. ASSUME NEW d \in Calls, d # c
        PROVE  /\ pc'[d] \in Standing => attempt'[d] >= 1
               /\ pc'[d] \in {"prompting", "reading", "accepting"} => watch'[d] # "off"
               /\ pc'[d] = "stopping" => stop[at[d]] # "none"
               /\ pc'[d] = "draining" /\ watch'[d] = "off" => stop[at[d]] # "none"
    BY <2>1, <2>2 DEF SessionWatch
  <2> QED BY <1>1, <1>4, <1>5, <2>2 DEF SessionWatch
<1>9. stop[at[c]] # "none" => Spoiled(at[c])'
  BY <1>1, <1>4 DEF Spoiled
<1>10. SessionWork'
  <2>1. \A d \in work : d \in Calls /\ (d # c => pc'[d] = pc[d] /\ attempt'[d] = attempt[d])
    BY <1>4, <1>5 DEF SessionTyped, SessionTypeOK
  <2>2. c \in work => pc[c] = "draining" /\ to = "ending" /\ (c \in unheard' \/ Spoiled(at[c])')
    BY <1>2, <1>3, <1>6, <1>9 DEF SessionWork, Leaving
  <2>3. "ending" \in Leaving /\ "draining" \notin Leaving /\ unheard \subseteq unheard'
    BY <1>6 DEF Leaving
  <2> QED BY <1>1, <1>4, <1>5, <2>1, <2>2, <2>3 DEF SessionWork
<1>11. SessionUnread'
  <2> SUFFICES ASSUME NEW r \in Runs, based'[r], NEW e \in unread'[r]
               PROVE  e[1] \in unheard' \/ Spoiled(r)' \/ Own(r, e)'
    BY DEF SessionUnread
  <2>1. CASE r = at[c]
    <3>1. unread' = unread /\ based' = based /\ (watch[c] = "off" \/ c \in unheard')
      BY <1>6, <2>1
    <3>2. CASE watch[c] = "off"
      BY <1>1, <1>2, <1>9, <2>1, <3>2 DEF SessionWatch
    <3>3. CASE c \in unheard'
      <4>1. e[1] \in unheard \/ Spoiled(r) \/ Own(r, e)
        BY <3>1 DEF SessionUnread
      <4>2. Own(r, e) => e[1] = c
        <5> SUFFICES ASSUME NEW d \in Calls, at[d] = r, pc[d] \in Telling,
                              e = <<d, attempt[d]>> PROVE e[1] = c
          BY DEF Own
        <5>1. pc[d] \in AtHead
          BY DEF Telling, AtHead, Watched
        <5> QED BY <1>2, <2>1, <5>1 DEF SessionQueue
      <4> QED BY <1>4, <1>6, <3>3, <4>1, <4>2
    <3> QED BY <3>1, <3>2, <3>3
  <2>2. CASE r # at[c]
    <3>1. e[1] \in unheard \/ Spoiled(r) \/ Own(r, e)
      BY <1>6, <2>2 DEF SessionUnread
    <3>2. Own(r, e) => Own(r, e)'
      BY <1>1, <1>4, <1>5, <2>2 DEF Own
    <3> QED BY <1>4, <1>6, <3>1, <3>2
  <2> QED BY <2>1, <2>2
<1> QED BY <1>4, <1>7, <1>8, <1>10, <1>11

LEMMA EndKeeps ==
    ASSUME SessionInv, NEW c \in Calls, End(c)
    PROVE  SessionInv'
<1> USE DEF SessionInv
<1>1. /\ pc[c] = "ending" /\ current' \in {0, current}
      /\ UNCHANGED <<at, attempt, watch, made, opener, queue, adapter, native, work, unread, based,
           unheard>>
  BY DEF End
<1>2. {"ending", "releasing", "settled"} \cap Standing = {} /\ AtHead \subseteq Standing
      /\ {"ending", "releasing", "settled"} \subseteq Leaving
           /\ {"releasing", "settled"} \subseteq Open \cup {"settled"}
  BY DEF Leaving, Standing, AtHead, Watched, Draining, Open
<1>3. CASE at[c] # 0 /\ Release({at[c]}) /\ Goto(c, "releasing")
             /\ UNCHANGED <<strategy, signal, invalidated>>
  <2>1. /\ pc' \in [Calls -> Open \cup {"idle", "settled"}]
        /\ pc'[c] = "releasing" /\ \A d \in Calls \ {c} : pc'[d] = pc[d]
    BY <1>3, Moved DEF Open
  <2>2. at[c] \in Runs /\ made[at[c]] = "open"
    BY <1>1, <1>3 DEF SessionTyped, SessionTypeOK, SessionRuns
  <2>3. /\ stop' \in [Runs -> {"none", "pending", "answered"}] /\ known' \subseteq work
        /\ \A r \in Runs : stop[r] # "none" => stop'[r] = stop[r]
        /\ owned' = owned \ {at[c]} /\ shut' = shut \cup {at[c]}
    BY <1>3, StopRunsIs DEF Release
  <2>4. SessionTyped'
    BY <1>1, <1>3, <2>1, <2>2, <2>3 DEF SessionTyped, SessionTypeOK
  <2>5. SessionRuns'
    <3>1. Entered' = Entered /\ \A d \in Calls, r \in Runs : At(d, r) <=> At(d, r)'
      BY <1>1, <2>1 DEF Entered, At
    <3>2. \A d \in Calls : pc'[d] = "resolving" => pc[d] = "resolving"
      BY <2>1
    <3>3. adapter = "closed" => at[c] \in shut
      BY <2>2 DEF SessionRuns, At
    <3>4. \A r \in Runs : Down(r) => Down(r)'
      BY <1>1, <2>3 DEF Down
    <3>5. adapter' = "closed" => \A r \in shut' : Down(r)'
      BY <1>1, <2>2, <2>3, <3>3, <3>4 DEF SessionRuns, SessionTyped, SessionTypeOK
    <3>6. \A d \in Calls : pc'[d] \in Standing \cup {"resolving", "releasing"} => at[d] \in Runs
      BY <2>1, <2>2 DEF SessionRuns
    <3>7. \A d \in Calls : pc'[d] \in Standing \cup {"ending", "releasing"} /\ at[d] # 0
            => made[at[d]] = "open"
      BY <2>1, <2>2 DEF SessionRuns
    <3> QED BY <1>1, <2>3, <3>1, <3>2, <3>5, <3>6, <3>7 DEF SessionRuns
  <2>6. SessionQueue'
    <3>1. \A d \in Calls : pc'[d] \in Standing =>
              /\ pc[d] \in Standing /\ at'[d] = at[d] /\ queue'[at[d]] = queue[at[d]]
              /\ pc'[d] \in AtHead => pc[d] \in AtHead \/ Head(queue[at[d]]) = d
      BY <1>1, <1>2, <2>1
    <3> QED BY <3>1, QueueKept
  <2>7. SessionWatch' /\ SessionWork' /\ SessionUnread'
    BY <1>1, <1>2, <2>1, <2>3, Aside
  <2> QED BY <2>4, <2>5, <2>6, <2>7
<1>4. CASE UNCHANGED <<owned, shut, stop, known>> /\ SettleCall(c)
  <2>1. /\ pc' \in [Calls -> Open \cup {"idle", "settled"}]
        /\ pc'[c] = "settled" /\ \A d \in Calls \ {c} : pc'[d] = pc[d]
    BY <1>4, Moved DEF SettleCall
  <2>2. SessionTyped'
    BY <1>1, <1>4, <2>1 DEF SessionTyped, SessionTypeOK, SettleCall
  <2>3. SessionRuns'
    <3>1. \A r \in Runs : Down(r) => Down(r)'
      BY <1>1, <1>4 DEF Down
    <3> QED BY <1>1, <1>2, <1>4, <2>1, <3>1, RunsKept DEF SessionTyped, SessionTypeOK
  <2>4. SessionQueue'
    <3>1. \A d \in Calls : pc'[d] \in Standing =>
              /\ pc[d] \in Standing /\ at'[d] = at[d] /\ queue'[at[d]] = queue[at[d]]
              /\ pc'[d] \in AtHead => pc[d] \in AtHead \/ Head(queue[at[d]]) = d
      BY <1>1, <1>2, <2>1
    <3> QED BY <3>1, QueueKept
  <2>5. SessionWatch' /\ SessionWork' /\ SessionUnread'
    BY <1>1, <1>2, <1>4, <2>1, Aside
  <2> QED BY <2>2, <2>3, <2>4, <2>5
<1> QED BY <1>3, <1>4 DEF End

LEMMA ReleasedKeeps ==
    ASSUME SessionInv, NEW c \in Calls, Released(c)
    PROVE  SessionInv'
<1> USE DEF SessionInv
<1>1. /\ pc[c] = "releasing" /\ SettleCall(c)
      /\ UNCHANGED <<at, attempt, watch, current, made, opener, queue, shut, stop,
                     owned, adapter, native, work, known, unread, based, unheard>>
  BY DEF Released, runVars, serverVars
<1>2. /\ pc' \in [Calls -> Open \cup {"idle", "settled"}]
      /\ pc'[c] = "settled" /\ \A d \in Calls \ {c} : pc'[d] = pc[d]
  BY <1>1, Moved DEF Open, SettleCall
<1>3. {"releasing", "settled"} \cap Standing = {} /\ AtHead \subseteq Standing
        /\ {"releasing", "settled"} \subseteq Leaving
  BY DEF Leaving, Standing, AtHead, Watched, Draining
<1>4. SessionTyped'
  BY <1>1, <1>2 DEF SessionTyped, SessionTypeOK, SettleCall
<1>5. SessionRuns'
  <2>1. \A r \in Runs : Down(r) => Down(r)'
    BY <1>1 DEF Down
  <2> QED BY <1>1, <1>2, <1>3, <2>1, RunsKept DEF SessionTyped, SessionTypeOK
<1>6. SessionQueue'
  <2>1. \A d \in Calls : pc'[d] \in Standing =>
              /\ pc[d] \in Standing /\ at'[d] = at[d] /\ queue'[at[d]] = queue[at[d]]
              /\ pc'[d] \in AtHead => pc[d] \in AtHead \/ Head(queue[at[d]]) = d
    BY <1>1, <1>2, <1>3
  <2> QED BY <2>1, QueueKept
<1>7. SessionWatch' /\ SessionWork' /\ SessionUnread'
  BY <1>1, <1>2, <1>3, Aside
<1> QED BY <1>4, <1>5, <1>6, <1>7

LEMMA StopAnsweredKeeps ==
    ASSUME SessionInv, NEW r \in Runs, StopAnswered(r)
    PROVE  SessionInv'
<1> USE DEF SessionInv
<1>1. /\ stop[r] = "pending" /\ stop' = [stop EXCEPT ![r] = "answered"] /\ work' \subseteq work
      /\ UNCHANGED <<pc, at, attempt, strategy, watch, signal, invalidated, current, made, opener,
           queue, shut,
                     owned, adapter, native, unread, based, unheard>>
  BY DEF StopAnswered, callVars
<1>2. known' \subseteq work'
  BY DEF StopAnswered, SessionTyped, SessionTypeOK
<1>3. /\ stop' \in [Runs -> {"none", "pending", "answered"}]
      /\ \A n \in Runs : (stop[n] # "none" => stop'[n] # "none")
           /\ (stop[n] = "answered" => stop'[n] = "answered")
  BY <1>1 DEF SessionTyped, SessionTypeOK
<1>4. SessionTyped'
  BY <1>1, <1>2, <1>3 DEF SessionTyped, SessionTypeOK
<1>5. SessionRuns' /\ SessionQueue' /\ \A n \in Runs : Spoiled(n) => Spoiled(n)'
  BY <1>1, <1>3, Undisturbed
<1>6. SessionWatch' /\ SessionWork'
  BY <1>1, <1>3, <1>5 DEF SessionWatch, SessionWork, SessionRuns, Standing, AtHead, Draining
<1>7. SessionUnread'
  BY <1>1, <1>5 DEF SessionUnread, Own
<1> QED BY <1>4, <1>5, <1>6, <1>7

LEMMA AbortKeeps ==
    ASSUME SessionInv, NEW c \in Calls, AbortCall(c)
    PROVE  SessionInv'
<1> USE DEF SessionInv
<1>1. /\ signal' = signal \cup {c}
      /\ UNCHANGED <<pc, at, attempt, strategy, watch, invalidated, current, made, opener, queue, shut,
                     owned, adapter, native, work, unread, based, unheard>>
  BY DEF AbortCall
<1>2. /\ stop' \in [Runs -> {"none", "pending", "answered"}] /\ known' \subseteq work
      /\ \A r \in Runs : stop[r] # "none" => stop'[r] = stop[r]
  <2>1. CASE StopRuns({at[c]})
    BY <2>1, StopRunsIs
  <2>2. CASE UNCHANGED <<stop, known>>
    BY <2>2 DEF SessionTyped, SessionTypeOK
  <2> QED BY <2>1, <2>2 DEF AbortCall
<1>3. SessionTyped'
  BY <1>1, <1>2 DEF SessionTyped, SessionTypeOK
<1>4. SessionRuns' /\ SessionQueue' /\ \A r \in Runs : Spoiled(r) => Spoiled(r)'
  BY <1>1, <1>2, Undisturbed
<1>5. SessionWatch' /\ SessionWork'
  BY <1>1, <1>2, <1>4 DEF SessionWatch, SessionWork, SessionRuns, Standing, AtHead, Draining
<1>6. SessionUnread'
  BY <1>1, <1>4 DEF SessionUnread, Own
<1> QED BY <1>3, <1>4, <1>5, <1>6

LEMMA CloseKeeps ==
    ASSUME SessionInv, Close
    PROVE  SessionInv'
<1> USE DEF SessionInv
<1>1. /\ adapter = "open" /\ adapter' = "closing"
      /\ UNCHANGED <<pc, at, attempt, strategy, watch, signal, invalidated, current, made, opener,
           queue, shut, stop,
                     owned, native, work, known, unread, based, unheard>>
  BY DEF Close, callVars, serverVars
<1>2. SessionTyped'
  BY <1>1 DEF SessionTyped, SessionTypeOK
<1>3. SessionRuns'
  BY <1>1 DEF SessionRuns, Entered, At
<1>4. SessionQueue' /\ SessionWatch' /\ SessionWork' /\ SessionUnread'
  BY <1>1, CallsKept
<1> QED BY <1>2, <1>3, <1>4

LEMMA CloseOwnedKeeps ==
    ASSUME SessionInv, CloseOwned
    PROVE  SessionInv'
<1> USE DEF SessionInv
<1>1. /\ adapter = "closing" /\ adapter' = "releasing" /\ \A c \in Calls : pc[c] # "resolving"
      /\ owned' = {} /\ shut' = shut \cup owned /\ StopRuns(owned)
      /\ UNCHANGED <<pc, at, attempt, strategy, watch, signal, invalidated, current, made, opener,
           queue,
                     native, work, unread, based, unheard>>
  BY DEF CloseOwned, Release, callVars
<1>2. /\ stop' \in [Runs -> {"none", "pending", "answered"}] /\ known' \subseteq work
      /\ \A r \in Runs : stop[r] # "none" => stop'[r] = stop[r]
  BY <1>1, StopRunsIs
<1>3. SessionTyped'
  BY <1>1, <1>2 DEF SessionTyped, SessionTypeOK
<1>4. SessionRuns'
  BY <1>1 DEF SessionRuns, Entered, At
<1>5. SessionQueue' /\ SessionWatch' /\ SessionWork' /\ SessionUnread'
  BY <1>1, <1>2, CallsKept
<1> QED BY <1>3, <1>4, <1>5

LEMMA CloseReturnsKeeps ==
    ASSUME SessionInv, CloseReturns
    PROVE  SessionInv'
<1> USE DEF SessionInv
<1>1. /\ adapter = "releasing" /\ adapter' = "closed" /\ \A r \in shut : Down(r)
      /\ UNCHANGED <<pc, at, attempt, strategy, watch, signal, invalidated, current, made, opener,
           queue, shut, stop,
                     owned, native, work, known, unread, based, unheard>>
  BY DEF CloseReturns, callVars, serverVars
<1>2. SessionTyped'
  BY <1>1 DEF SessionTyped, SessionTypeOK
<1>3. SessionRuns'
  BY <1>1 DEF SessionRuns, Entered, At, Down
<1>4. SessionQueue' /\ SessionWatch' /\ SessionWork' /\ SessionUnread'
  BY <1>1, CallsKept
<1> QED BY <1>2, <1>3, <1>4

LEMMA SessionStarts ==
    ASSUME SessionInit PROVE SessionInv
<1>1. /\ SessionTyped
  BY OpenCodeAssumption DEF SessionInit, SessionTyped, SessionTypeOK
<1>2. SessionRuns
  <2>1. Entered = {} /\ 0 \in 0 .. Cardinality(Entered)
    <3>1. Entered = {}
      BY DEF Entered, SessionInit
    <3> QED BY <3>1, FS_EmptySet
  <2>2. \A r \in Runs : made[r] # "none" <=> r <= 0
    BY OpenCodeAssumption, FS_CardinalityType DEF SessionInit
  <2>3. "idle" \notin Standing
    BY DEF Standing, AtHead, Watched, Draining
  <2> QED BY <2>1, <2>2, <2>3 DEF SessionRuns, SessionInit
<1>3. SessionQueue /\ SessionWatch
  <2>1. "idle" \notin Standing /\ "idle" \notin AtHead
    BY DEF Standing, AtHead, Watched, Draining
  <2> QED BY <2>1 DEF SessionQueue, SessionWatch, SessionInit
<1>4. SessionWork /\ SessionUnread
  BY DEF SessionWork, SessionUnread, SessionInit
<1> QED BY <1>1, <1>2, <1>3, <1>4 DEF SessionInv

LEMMA SessionKeeps ==
    ASSUME SessionInv, [SessionNext]_sessionVars PROVE SessionInv'
<1>1. CASE SessionProgress
  <2>1. CASE CloseOwned
    BY <2>1, CloseOwnedKeeps
  <2>2. CASE CloseReturns
    BY <2>2, CloseReturnsKeeps
  <2>3. ASSUME NEW r \in Runs, Create(r) PROVE SessionInv'
    BY <2>3, CreateKeeps
  <2>4. ASSUME NEW r \in Runs, StopAnswered(r) PROVE SessionInv'
    BY <2>4, StopAnsweredKeeps
  <2>5. ASSUME NEW c \in Calls,
               \/ Resolve(c) \/ ResolveFails(c) \/ Begin(c) \/ PrepareFails(c) \/ Prompt(c)
               \/ Answered(c) \/ Incompatible(c) \/ Disconnect(c) \/ Stopped(c)
               \/ ReadBack(c) \/ Drain(c) \/ End(c) \/ Released(c)
        PROVE  SessionInv'
    BY <2>5, ResolveKeeps, ResolveFailsKeeps, BeginKeeps, PrepareFailsKeeps, PromptKeeps,
       AnsweredKeeps, IncompatibleKeeps, DisconnectKeeps, StoppedKeeps, ReadBackKeeps, DrainKeeps,
       EndKeeps, ReleasedKeeps
  <2> QED BY <1>1, <2>1, <2>2, <2>3, <2>4, <2>5 DEF SessionProgress
<1>2. CASE Close
  BY <1>2, CloseKeeps
<1>3. ASSUME NEW c \in Calls,
             \/ Enter(c) \/ AbortCall(c) \/ EndTurn(c) \/ Interrupted(c) \/ Poll(c) \/ Background(c)
                  \/ PollFails(c)
      PROVE  SessionInv'
  BY <1>3, EnterKeeps, AbortKeeps, EndTurnKeeps, InterruptedKeeps, PollKeeps, BackgroundKeeps,
     PollFailsKeeps
<1>4. CASE UNCHANGED sessionVars
  <2>1. UNCHANGED <<pc, at, attempt, strategy, watch, signal, invalidated, current, made, opener, queue,
          shut, stop,
                    owned, adapter, native, work, known, unread, based, unheard>>
    BY <1>4 DEF sessionVars, callVars, runVars, serverVars
  <2>2. SessionTyped'
    BY <2>1 DEF SessionInv, SessionTyped, SessionTypeOK
  <2>3. SessionRuns'
    BY <2>1 DEF SessionInv, SessionRuns, Entered, At, Down
  <2>4. SessionQueue' /\ SessionWatch' /\ SessionWork' /\ SessionUnread'
    BY <2>1, CallsKept
  <2> QED BY <2>2, <2>3, <2>4 DEF SessionInv
<1> QED BY <1>1, <1>2, <1>3, <1>4 DEF SessionNext

(* Whatever the steps of a closed adapter were, nothing is left in it. *)
LEMMA SessionCloses ==
    ASSUME SessionInv PROVE ClosedLeavesNothing
<1> SUFFICES ASSUME adapter = "closed"
             PROVE  /\ \A r \in Runs : made[r] # "creating" /\ (made[r] = "open" => r \in shut)
                    /\ \A c \in Calls : pc[c] \notin AtHead
  BY DEF ClosedLeavesNothing, AtHead
<1> USE DEF SessionInv
<1>1. \A c \in Calls, r \in Runs : ~At(c, r)
  BY DEF SessionRuns, At
<1>2. \A r \in Runs : made[r] # "creating" /\ (made[r] = "open" => r \in shut)
  BY <1>1 DEF SessionRuns
<1>3. ASSUME NEW c \in Calls, pc[c] \in AtHead PROVE FALSE
  <2>1. pc[c] \in Standing
    BY <1>3 DEF Standing
  <2>2. at[c] \in Runs /\ queue[at[c]] # <<>>
    BY <2>1, StandsIn
  <2>3. made[at[c]] = "open"
    <3>1. at[c] # 0
      BY OpenCodeAssumption, <2>2, FS_CardinalityType
    <3> QED BY <2>1, <3>1 DEF SessionRuns
  <2> QED BY <1>2, <2>2, <2>3 DEF SessionRuns, Down
<1> QED BY <1>2, <1>3

(* Events leave what is unread of a session by a poll, when they are skipped*)
(* before a prompt, and when they are read at its end.                      *)
LEMMA SessionReads ==
    ASSUME SessionInv, [SessionNext]_sessionVars, NEW r \in Runs, based[r],
             NEW e \in unread[r] \ unread'[r]
    PROVE  e = <<Head(queue[r]), attempt[Head(queue[r])]>> \/ e[1] \in unheard
<1> USE DEF SessionInv
<1>1. ASSUME NEW c \in Calls, at[c] = r, pc[c] \in AtHead,
             pc[c] \in {"prompting", "reading"} \/ (pc[c] \in Draining /\ watch[c] = "on")
      PROVE  e = <<Head(queue[r]), attempt[Head(queue[r])]>> \/ e[1] \in unheard
  <2>1. Head(queue[r]) = c
    BY <1>1 DEF SessionQueue
  <2>2. ~Spoiled(r)
    BY <1>1 DEF Spoiled
  <2>3. CASE Own(r, e)
    <3>1. PICK d \in Calls : at[d] = r /\ pc[d] \in Telling /\ e = <<d, attempt[d]>>
      BY <2>3 DEF Own
    <3>2. pc[d] \in AtHead
      BY <3>1 DEF Telling, AtHead, Watched
    <3>3. Head(queue[r]) = d
      BY <3>1, <3>2 DEF SessionQueue
    <3> QED BY <3>1, <3>3
  <2> QED BY <2>2, <2>3 DEF SessionUnread
<1>2. unread'[r] # unread[r]
  OBVIOUS
<1>3. r \in Runs /\ unread \in [Runs -> SUBSET (Calls \X (1 .. Retries + 1))]
  BY DEF SessionTyped, SessionTypeOK
<1>4. ASSUME NEW c \in Calls, Poll(c)
      PROVE  e = <<Head(queue[r]), attempt[Head(queue[r])]>> \/ e[1] \in unheard
  <2>1. at[c] = r /\ pc[c] \in {"prompting", "reading"}
    BY <1>2, <1>3, <1>4 DEF Poll
  <2> QED BY <1>1, <2>1 DEF AtHead, Watched
<1>5. ASSUME NEW c \in Calls, Drain(c)
      PROVE  e = <<Head(queue[r]), attempt[Head(queue[r])]>> \/ e[1] \in unheard
  <2>1. at[c] = r /\ pc[c] \in Draining /\ watch[c] = "on"
    BY <1>2, <1>3, <1>5 DEF Drain, FinalRead
  <2> QED BY <1>1, <2>1 DEF AtHead
<1>6. ASSUME NEW c \in Calls, Prompt(c) PROVE unread'[r] = unread[r]
  BY <1>3, <1>6 DEF Prompt
<1>7. ASSUME NEW c \in Calls, EndTurn(c) PROVE unread[r] \subseteq unread'[r]
  BY <1>3, <1>7 DEF EndTurn
<1>8. \/ \E c \in Calls : Poll(c) \/ Drain(c) \/ Prompt(c) \/ EndTurn(c)
      \/ unread' = unread
  <2>1. CASE SessionProgress
    <3>1. CASE CloseOwned \/ CloseReturns \/ \E n \in Runs : Create(n) \/ StopAnswered(n)
      BY <3>1 DEF CloseOwned, CloseReturns, Create, StopAnswered, serverVars
    <3>2. ASSUME NEW c \in Calls,
                 Resolve(c) \/ ResolveFails(c) \/ Begin(c) \/ PrepareFails(c) \/ Answered(c)
                   \/ Incompatible(c)
          PROVE  unread' = unread
      BY <3>2 DEF Resolve, ResolveFails, Begin, PrepareFails, Answered, Incompatible, serverVars
    <3>3. ASSUME NEW c \in Calls, Disconnect(c) \/ Stopped(c) \/ ReadBack(c) \/ End(c) \/ Released(c)
          PROVE  unread' = unread
      BY <3>3 DEF Disconnect, Stopped, ReadBack, End, Released, serverVars
    <3> QED BY <2>1, <3>1, <3>2, <3>3 DEF SessionProgress
  <2>2. CASE Close
    BY <2>2 DEF Close, serverVars
  <2>3. ASSUME NEW c \in Calls, Enter(c) \/ AbortCall(c) \/ Interrupted(c) \/ Background(c)
                 \/ PollFails(c)
        PROVE  unread' = unread
    BY <2>3 DEF Enter, AbortCall, Interrupted, Background, PollFails, serverVars
  <2>4. CASE UNCHANGED sessionVars
    BY <2>4 DEF sessionVars, serverVars
  <2> QED BY <2>1, <2>2, <2>3, <2>4 DEF SessionNext
<1> QED BY <1>2, <1>4, <1>5, <1>6, <1>7, <1>8

-----------------------------------------------------------------------------
(* What the server works on is known of as soon as nobody waits for it: a   *)
(* run that is stopped has told its work to stop, only a prompt that waits  *)
(* for its answer has work that is not known, and a prompt that is prepared *)
(* when its run is stopped is not sent.                                     *)
SessionAccounts ==
    /\ \A c \in work : stop[at[c]] # "none" => c \in known
    /\ \A c \in work \ known : pc[c] = "prompting"
    /\ \A c \in Calls : pc[c] = "preparing" /\ stop[at[c]] # "none" => PromptAborted(c)

(* One call moves, and no run is stopped. *)
LEMMA AccountsMoved ==
    ASSUME SessionInv, SessionAccounts, NEW c \in Calls, NEW to \in Open \cup {"idle", "settled"},
           Goto(c, to), UNCHANGED <<at, work, known, stop, shut, signal>>,
           c \in work \ known => to = "prompting",
           to = "preparing" => stop[at[c]] = "none"
    PROVE  SessionAccounts'
<1>1. pc'[c] = to /\ \A d \in Calls \ {c} : pc'[d] = pc[d]
  BY Moved DEF SessionInv
<1>2. work \subseteq Calls
  BY DEF SessionInv, SessionTyped, SessionTypeOK
<1> QED BY <1>1, <1>2 DEF SessionAccounts, PromptAborted

(* Runs are stopped, and their work with them. *)
LEMMA AccountsStopped ==
    ASSUME SessionInv, SessionAccounts, NEW rs \in SUBSET Runs, StopRuns(rs), UNCHANGED <<at, work>>,
           \A c \in work \ known' : pc'[c] = "prompting",
           \A c \in Calls : pc'[c] = "preparing" =>
               pc[c] = "preparing" /\ (PromptAborted(c) \/ at[c] \in rs => PromptAborted(c)')
    PROVE  SessionAccounts'
<1>1. /\ stop' \in [Runs -> {"none", "pending", "answered"}] /\ known \subseteq known'
      /\ \A r \in Runs \ rs : stop'[r] = stop[r]
      /\ \A r \in rs : stop[r] # "none" => stop'[r] = stop[r]
      /\ \A c \in work : at[c] \in rs /\ stop[at[c]] = "none" => c \in known'
  BY DEF StopRuns, SessionInv, SessionTyped, SessionTypeOK
<1>2. \A c \in work : at[c] \in Runs
  BY DEF SessionInv, SessionWork
<1>3. \A c \in Calls : pc[c] = "preparing" => at[c] \in Runs
  BY DEF SessionInv, SessionRuns, Standing, AtHead, Watched
<1>4. ASSUME NEW c \in work, stop'[at[c]] # "none" PROVE c \in known'
  <2>1. at[c] \in Runs /\ (stop[at[c]] # "none" => c \in known)
    BY <1>2 DEF SessionAccounts
  <2> QED BY <1>1, <1>4, <2>1
<1>5. ASSUME NEW c \in Calls, pc'[c] = "preparing", stop'[at[c]] # "none" PROVE PromptAborted(c)'
  BY <1>1, <1>3, <1>5 DEF SessionAccounts
<1> QED BY <1>4, <1>5 DEF SessionAccounts

LEMMA AccountsKept ==
    ASSUME SessionInv, SessionAccounts, [SessionNext]_sessionVars
    PROVE  SessionAccounts'
<1> DEFINE Still == UNCHANGED <<at, work, known, stop, shut, signal>>
           To(c, to) == Goto(c, to) /\ Still
<1>0. work \subseteq Calls /\ \A c \in Calls : pc[c] \in {"preparing", "prompting"} => at[c] \in Runs
  BY DEF SessionInv, SessionTyped, SessionTypeOK, SessionRuns, Standing, AtHead, Watched
<1>1. ASSUME NEW c \in Calls, NEW to \in Open \cup {"idle", "settled"}, To(c, to),
             pc[c] # "prompting" \/ c \notin work \/ c \in known, to # "preparing"
      PROVE  SessionAccounts'
  <2>1. c \in work \ known => pc[c] = "prompting"
    BY DEF SessionAccounts
  <2> QED BY <1>1, <2>1, AccountsMoved
<1>2. ASSUME pc' = pc, Still PROVE SessionAccounts'
  BY <1>2 DEF SessionAccounts, PromptAborted
<1>3. ASSUME NEW c \in Calls, Enter(c) PROVE SessionAccounts'
  <2>1. pc[c] = "idle" /\ c \notin work /\ UNCHANGED <<work, known, stop, shut, signal>>
    BY <1>3 DEF Enter, serverVars, SessionInv, SessionWork, Leaving
  <2>2. PICK to \in {"resolving", "settled"} : Goto(c, to)
    BY <1>3 DEF Enter
  <2>3. pc'[c] = to /\ \A d \in Calls \ {c} : pc'[d] = pc[d]
    BY <2>2, Moved DEF SessionInv, Open
  <2>4. \A d \in Calls \ {c} : at'[d] = at[d]
    BY <1>3 DEF Enter, SessionInv, SessionTyped, SessionTypeOK
  <2> QED BY <1>0, <2>1, <2>2, <2>3, <2>4 DEF SessionAccounts, PromptAborted
<1>4. ASSUME NEW c \in Calls, ResolveFails(c) PROVE SessionAccounts'
  <2>1. pc[c] = "resolving" /\ c \notin work /\ UNCHANGED <<work, known, stop, shut, signal>>
    BY <1>4 DEF ResolveFails, runVars, serverVars, SessionInv, SessionWork, Leaving
  <2>2. pc'[c] = "ending" /\ \A d \in Calls \ {c} : pc'[d] = pc[d]
    BY <1>4, Moved DEF ResolveFails, SessionInv, Open
  <2>3. \A d \in Calls \ {c} : at'[d] = at[d]
    BY <1>4 DEF ResolveFails, SessionInv, SessionTyped, SessionTypeOK
  <2> QED BY <1>0, <2>1, <2>2, <2>3 DEF SessionAccounts, PromptAborted
<1>5. ASSUME NEW r \in Runs, Create(r) PROVE SessionAccounts'
  BY <1>2, <1>5 DEF Create, callVars, serverVars
<1>6. ASSUME NEW c \in Calls, Resolve(c) PROVE SessionAccounts'
  <2>1. at[c] \in Runs /\ pc[c] = "resolving"
    BY <1>6 DEF Resolve, SessionInv, SessionRuns
  <2>2. CASE adapter = "open"
    <3>1. To(c, "queued")
      BY <1>6, <2>2 DEF Resolve
    <3> QED BY <1>1, <2>1, <3>1 DEF Open
  <2>3. CASE adapter # "open"
    <3>1. Goto(c, "releasing") /\ Release({at[c]}) /\ UNCHANGED <<at, work, signal>>
      BY <1>6, <2>3 DEF Resolve
    <3>2. pc'[c] = "releasing" /\ \A d \in Calls \ {c} : pc'[d] = pc[d]
      BY <3>1, Moved DEF SessionInv, Open
    <3>3. StopRuns({at[c]}) /\ shut' = shut \cup {at[c]}
      BY <3>1 DEF Release
    <3>4. known \subseteq known'
      BY <3>3 DEF StopRuns
    <3>5. \A d \in work \ known' : pc'[d] = "prompting"
      BY <1>0, <2>1, <3>2, <3>4 DEF SessionAccounts
    <3>6. \A d \in Calls : pc'[d] = "preparing" =>
             pc[d] = "preparing" /\ (PromptAborted(d) \/ at[d] \in {at[c]} => PromptAborted(d)')
      BY <3>1, <3>2, <3>3 DEF PromptAborted
    <3> QED BY <2>1, <3>1, <3>3, <3>5, <3>6, AccountsStopped
  <2> QED BY <2>2, <2>3
<1>7. ASSUME NEW c \in Calls, Begin(c) PROVE SessionAccounts'
  <2>1. PICK to \in {"ending", "preparing"} : To(c, to) /\ (to = "preparing" => stop[at[c]] = "none")
    BY <1>7 DEF Begin, Refuse, serverVars
  <2>2. c \in work \ known => FALSE
    BY <1>7 DEF Begin, SessionAccounts
  <2> QED BY <2>1, <2>2, AccountsMoved DEF Open, Watched
<1>8. ASSUME NEW c \in Calls, PrepareFails(c) PROVE SessionAccounts'
  <2>1. To(c, "ending") /\ pc[c] = "preparing"
    BY <1>8 DEF PrepareFails, Refuse, serverVars
  <2> QED BY <1>1, <2>1 DEF Open
<1>9. ASSUME NEW c \in Calls, Prompt(c) PROVE SessionAccounts'
  <2>1. /\ pc[c] = "preparing" /\ Goto(c, "prompting")
        /\ UNCHANGED <<at, known, stop, shut, signal>>
        /\ work' = IF PromptAborted(c) THEN work ELSE work \cup {c}
    BY <1>9 DEF Prompt, runVars
  <2>2. pc'[c] = "prompting" /\ \A d \in Calls \ {c} : pc'[d] = pc[d]
    BY <2>1, Moved DEF SessionInv, Open, Watched
  <2> QED BY <1>0, <2>1, <2>2 DEF SessionAccounts, PromptAborted
<1>10. ASSUME NEW c \in Calls, EndTurn(c) PROVE SessionAccounts'
  BY <1>10 DEF EndTurn, callVars, runVars, SessionAccounts, PromptAborted
<1>11. ASSUME NEW c \in Calls, Answered(c) \/ Incompatible(c) \/ ReadBack(c) PROVE SessionAccounts'
  <2>1. PICK to \in {"reading", "draining", "accepting"} : To(c, to)
    BY <1>11 DEF Answered, Incompatible, ReadBack, runVars, serverVars
  <2>2. pc[c] # "prompting" \/ c \notin work
    BY <1>11 DEF Answered, Incompatible, HasAnswer, ReadBack
  <2> QED BY <1>1, <2>1, <2>2 DEF Open, Watched, Draining
<1>12. ASSUME NEW c \in Calls, Disconnect(c) PROVE SessionAccounts'
  <2>1. Goto(c, "draining") /\ known' = known \cup ({c} \cap work)
          /\ UNCHANGED <<at, work, stop, shut, signal>>
    BY <1>12 DEF Disconnect, runVars
  <2>2. pc'[c] = "draining" /\ \A d \in Calls \ {c} : pc'[d] = pc[d]
    BY <2>1, Moved DEF SessionInv, Open, Draining
  <2> QED BY <1>0, <2>1, <2>2 DEF SessionAccounts, PromptAborted
<1>13. ASSUME NEW c \in Calls, Interrupted(c) PROVE SessionAccounts'
  <2>1. pc[c] = "prompting" /\ Goto(c, "stopping") /\ StopRuns({at[c]})
          /\ UNCHANGED <<at, work, signal, shut>>
    BY <1>13 DEF Interrupted
  <2>2. pc'[c] = "stopping" /\ \A d \in Calls \ {c} : pc'[d] = pc[d]
    BY <2>1, Moved DEF SessionInv, Open
  <2>3. known \subseteq known' /\ (c \in work => c \in known')
    BY <2>1 DEF StopRuns, SessionAccounts
  <2>4. \A d \in work \ known' : pc'[d] = "prompting"
    BY <1>0, <2>2, <2>3 DEF SessionAccounts
  <2>5. \A d \in Calls : pc[d] = "preparing" => at[d] # at[c]
    BY <2>1 DEF SessionInv, SessionQueue, AtHead, Watched
  <2>6. \A d \in Calls : pc'[d] = "preparing" =>
            pc[d] = "preparing" /\ (PromptAborted(d) \/ at[d] \in {at[c]} => PromptAborted(d)')
    BY <2>1, <2>2, <2>5 DEF PromptAborted
  <2> QED BY <1>0, <2>1, <2>4, <2>6, AccountsStopped
<1>14. ASSUME NEW c \in Calls, Stopped(c) PROVE SessionAccounts'
  <2>1. To(c, "draining") /\ stop[at[c]] = "answered"
    BY <1>14 DEF Stopped, runVars, serverVars
  <2> QED BY <1>1, <2>1 DEF SessionAccounts, Open, Draining
<1>15. ASSUME NEW c \in Calls, Drain(c) PROVE SessionAccounts'
  <2>1. pc[c] # "prompting" /\ \E to \in {"ending", "queued"} : To(c, to)
    BY <1>15 DEF Drain, Draining
  <2> QED BY <1>1, <2>1 DEF Open
<1>16. ASSUME NEW c \in Calls, End(c) PROVE SessionAccounts'
  <2>1. pc[c] = "ending" /\ UNCHANGED <<at, work>> /\ at[c] \in Runs \cup {0}
    BY <1>16 DEF End, SessionInv, SessionTyped, SessionTypeOK
  <2>2. CASE c \in signal \cup invalidated /\ at[c] # 0
    <3>1. Goto(c, "releasing") /\ Release({at[c]}) /\ UNCHANGED signal
      BY <1>16, <2>2 DEF End
    <3>2. pc'[c] = "releasing" /\ \A d \in Calls \ {c} : pc'[d] = pc[d]
      BY <3>1, Moved DEF SessionInv, Open
    <3>3. StopRuns({at[c]}) /\ shut' = shut \cup {at[c]}
      BY <3>1 DEF Release
    <3>4. known \subseteq known'
      BY <3>3 DEF StopRuns
    <3>5. \A d \in work \ known' : pc'[d] = "prompting"
      BY <1>0, <2>1, <3>2, <3>4 DEF SessionAccounts
    <3>6. \A d \in Calls : pc'[d] = "preparing" =>
             pc[d] = "preparing" /\ (PromptAborted(d) \/ at[d] \in {at[c]} => PromptAborted(d)')
      BY <2>1, <3>1, <3>2, <3>3 DEF PromptAborted
    <3> QED BY <2>1, <2>2, <3>1, <3>3, <3>5, <3>6, AccountsStopped
  <2>3. CASE ~(c \in signal \cup invalidated /\ at[c] # 0)
    <3>1. Goto(c, "settled") /\ signal' = signal \ {c} /\ UNCHANGED <<shut, stop, known>>
      BY <1>16, <2>3 DEF End, SettleCall
    <3>2. pc'[c] = "settled" /\ \A d \in Calls \ {c} : pc'[d] = pc[d]
      BY <3>1, Moved DEF SessionInv
    <3> QED BY <1>0, <2>1, <3>1, <3>2 DEF SessionAccounts, PromptAborted
  <2> QED BY <2>2, <2>3
<1>17. ASSUME NEW c \in Calls, Released(c) PROVE SessionAccounts'
  <2>1. pc[c] = "releasing" /\ Goto(c, "settled") /\ signal' = signal \ {c}
          /\ UNCHANGED <<at, work, known, shut, stop>>
    BY <1>17 DEF Released, SettleCall, runVars, serverVars
  <2>2. pc'[c] = "settled" /\ \A d \in Calls \ {c} : pc'[d] = pc[d]
    BY <2>1, Moved DEF SessionInv
  <2> QED BY <1>0, <2>1, <2>2 DEF SessionAccounts, PromptAborted
<1>18. ASSUME NEW r \in Runs, StopAnswered(r) PROVE SessionAccounts'
  <2>1. \A n \in Runs : stop'[n] # "none" => stop[n] # "none"
    BY <1>18 DEF StopAnswered, SessionInv, SessionTyped, SessionTypeOK
  <2>2. \A c \in work : at[c] \in Runs
    BY DEF SessionInv, SessionWork
  <2> QED BY <1>0, <1>18, <2>1, <2>2 DEF StopAnswered, callVars, SessionAccounts, PromptAborted
<1>19. ASSUME NEW c \in Calls, AbortCall(c) PROVE SessionAccounts'
  <2>1. signal' = signal \cup {c} /\ UNCHANGED <<pc, at, work, shut>>
    BY <1>19 DEF AbortCall
  <2>2. CASE pc[c] \in Watched
    <3>1. StopRuns({at[c]}) /\ at[c] \in Runs
      BY <1>19, <2>2 DEF AbortCall, SessionInv, SessionRuns, Standing, AtHead
    <3>2. known \subseteq known'
      BY <3>1 DEF StopRuns
    <3>3. \A d \in work \ known' : pc'[d] = "prompting"
      BY <2>1, <3>2 DEF SessionAccounts
    <3>4. \A d \in Calls : pc[d] = "preparing" /\ at[d] = at[c] => d = c
      BY <2>2 DEF SessionInv, SessionQueue, AtHead, Watched
    <3>5. \A d \in Calls : pc'[d] = "preparing" =>
             pc[d] = "preparing" /\ (PromptAborted(d) \/ at[d] \in {at[c]} => PromptAborted(d)')
      BY <2>1, <3>4 DEF PromptAborted
    <3> QED BY <2>1, <3>1, <3>3, <3>5, AccountsStopped
  <2>3. CASE pc[c] \notin Watched
    BY <1>19, <2>1, <2>3 DEF AbortCall, SessionAccounts, PromptAborted
  <2> QED BY <2>2, <2>3
<1>20. ASSUME Close \/ CloseReturns PROVE SessionAccounts'
  BY <1>2, <1>20 DEF Close, CloseReturns, callVars, serverVars
<1>21. ASSUME CloseOwned PROVE SessionAccounts'
  <2>1. StopRuns(owned) /\ shut' = shut \cup owned /\ UNCHANGED <<pc, at, work, signal>>
          /\ owned \subseteq Runs
    BY <1>21 DEF CloseOwned, Release, callVars, SessionInv, SessionTyped, SessionTypeOK
  <2>2. known \subseteq known'
    BY <2>1 DEF StopRuns
  <2>3. \A d \in work \ known' : pc'[d] = "prompting"
    BY <2>1, <2>2 DEF SessionAccounts
  <2>4. \A d \in Calls : pc'[d] = "preparing" =>
           pc[d] = "preparing" /\ (PromptAborted(d) \/ at[d] \in owned => PromptAborted(d)')
    BY <2>1 DEF PromptAborted
  <2> QED BY <2>1, <2>3, <2>4, AccountsStopped
<1>22. ASSUME NEW c \in Calls, Poll(c) \/ PollFails(c) PROVE SessionAccounts'
  BY <1>2, <1>22 DEF Poll, PollFails, callVars, runVars, serverVars
<1>23. ASSUME NEW c \in Calls, Background(c) PROVE SessionAccounts'
  BY <1>23 DEF Background, callVars, runVars, SessionAccounts, PromptAborted
<1>24. CASE UNCHANGED sessionVars
  BY <1>2, <1>24 DEF sessionVars, callVars, runVars, serverVars
<1>25. CASE SessionProgress
  BY <1>4, <1>5, <1>6, <1>7, <1>8, <1>9, <1>11, <1>12, <1>14, <1>15, <1>16, <1>17, <1>18, <1>20,
     <1>21, <1>25 DEF SessionProgress
<1> QED BY <1>3, <1>10, <1>13, <1>19, <1>20, <1>22, <1>23, <1>24, <1>25 DEF SessionNext

-----------------------------------------------------------------------------
(* What a step does, as the contract of an adapter sees it. *)
Prompts == Standing \cup {"ending"}

(* A call that has a run moves between the places of its prompts, or enters *)
(* or leaves them; what is known of stays known while it goes on.           *)
LEMMA SessionMoves ==
    ASSUME SessionInv, SessionAccounts, [SessionNext]_sessionVars
    PROVE  \/ \E c \in Calls : pc[c] = "preparing" /\ ~PromptAborted(c) /\ Prompt(c)
           \/ /\ work' \subseteq work /\ known \cap work' \subseteq known'
              /\ \/ UNCHANGED <<pc, at>>
                 \/ \E c \in Calls, to \in Prompts : pc[c] \in Prompts /\ Goto(c, to) /\ UNCHANGED at
                 \/ \E c \in Calls : Enter(c) \/ Resolve(c) \/ ResolveFails(c) \/ End(c) \/ Released(c)
<1> DEFINE Subsides == work' \subseteq work /\ known \cap work' \subseteq known'
           Moves == \E c \in Calls, to \in Prompts : pc[c] \in Prompts /\ Goto(c, to) /\ UNCHANGED at
<1> USE DEF Prompts, Standing, AtHead, Watched, Draining
<1>1. ASSUME NEW rs, StopRuns(rs), UNCHANGED work PROVE Subsides
  BY <1>1 DEF StopRuns
<1>2. ASSUME NEW c \in Calls, Enter(c) \/ ResolveFails(c) \/ Released(c) PROVE Subsides
  BY <1>2 DEF Enter, ResolveFails, Released, runVars, serverVars
<1>3. ASSUME NEW c \in Calls, Resolve(c) PROVE Subsides
  BY <1>1, <1>3 DEF Resolve, Release
<1>4. ASSUME NEW c \in Calls, End(c) PROVE Subsides
  BY <1>1, <1>4 DEF End, Release
<1>5. ASSUME NEW c \in Calls, Begin(c) \/ PrepareFails(c) PROVE Subsides /\ Moves
  <2>1. PICK to \in {"ending", "preparing"} : Goto(c, to) /\ UNCHANGED <<at, work, known>>
    BY <1>5 DEF Begin, PrepareFails, Refuse, serverVars
  <2>2. pc[c] \in {"queued", "preparing"}
    BY <1>5 DEF Begin, PrepareFails
  <2> QED BY <2>1, <2>2
<1>6. ASSUME NEW c \in Calls, Prompt(c)
      PROVE  pc[c] = "preparing" /\ (PromptAborted(c) => Subsides /\ Moves)
  <2>1. pc[c] = "preparing" /\ Goto(c, "prompting") /\ UNCHANGED <<at, known>>
    BY <1>6 DEF Prompt, runVars
  <2>2. PromptAborted(c) => work' = work
    BY <1>6 DEF Prompt
  <2> QED BY <2>1, <2>2
<1>7. ASSUME NEW c \in Calls, EndTurn(c) PROVE Subsides /\ UNCHANGED <<pc, at>>
  BY <1>7 DEF EndTurn, callVars
<1>8. ASSUME NEW c \in Calls, Answered(c) \/ Incompatible(c) \/ Stopped(c) \/ ReadBack(c)
      PROVE  Subsides /\ Moves
  <2>1. PICK to \in {"reading", "draining", "accepting"} : Goto(c, to) /\ UNCHANGED <<at, work, known>>
    BY <1>8 DEF Answered, Incompatible, Stopped, ReadBack, serverVars
  <2>2. pc[c] \in {"prompting", "stopping", "reading"}
    BY <1>8 DEF Answered, Incompatible, HasAnswer, Stopped, ReadBack
  <2> QED BY <2>1, <2>2
<1>9. ASSUME NEW c \in Calls, Disconnect(c) PROVE Subsides /\ Moves
  <2>1. pc[c] = "prompting" /\ Goto(c, "draining") /\ UNCHANGED <<at, work>> /\ known \subseteq known'
    BY <1>9 DEF Disconnect
  <2> QED BY <2>1
<1>10. ASSUME NEW c \in Calls, Interrupted(c) PROVE Subsides /\ Moves
  <2>1. pc[c] = "prompting" /\ Goto(c, "stopping") /\ UNCHANGED <<at, work>> /\ StopRuns({at[c]})
    BY <1>10 DEF Interrupted
  <2> QED BY <1>1, <2>1
<1>11. ASSUME NEW c \in Calls, Drain(c) PROVE Subsides /\ Moves
  <2>1. PICK to \in {"ending", "queued"} : Goto(c, to) /\ UNCHANGED <<at, work, known>>
    BY <1>11 DEF Drain
  <2>2. pc[c] \in Draining
    BY <1>11 DEF Drain
  <2> QED BY <2>1, <2>2
<1>12. ASSUME NEW r \in Runs, Create(r) \/ StopAnswered(r) PROVE Subsides /\ UNCHANGED <<pc, at>>
  BY <1>12 DEF Create, StopAnswered, callVars, serverVars
<1>13. ASSUME NEW c \in Calls, AbortCall(c) PROVE Subsides /\ UNCHANGED <<pc, at>>
  BY <1>1, <1>13 DEF AbortCall
<1>14. ASSUME Close \/ CloseReturns \/ CloseOwned PROVE Subsides /\ UNCHANGED <<pc, at>>
  BY <1>1, <1>14 DEF Close, CloseReturns, CloseOwned, Release, callVars, serverVars
<1>15. ASSUME NEW c \in Calls, Poll(c) \/ PollFails(c) \/ Background(c)
       PROVE  Subsides /\ UNCHANGED <<pc, at>>
  BY <1>15 DEF Poll, PollFails, Background, callVars, serverVars
<1>16. CASE UNCHANGED sessionVars
  BY <1>16 DEF sessionVars, callVars, serverVars
<1> HIDE DEF Subsides, Moves
<1>17. CASE SessionProgress
  BY <1>2, <1>3, <1>4, <1>5, <1>6, <1>8, <1>9, <1>11, <1>12, <1>14, <1>17
     DEF SessionProgress, Subsides, Moves
<1>18. CASE \E c \in Calls : Enter(c) \/ AbortCall(c) \/ EndTurn(c) \/ Interrupted(c) \/ Poll(c)
              \/ Background(c) \/ PollFails(c)
  BY <1>2, <1>7, <1>10, <1>13, <1>15, <1>18 DEF Subsides, Moves
<1> QED BY <1>14, <1>16, <1>17, <1>18 DEF SessionNext, Subsides, Moves

(* A call that leaves its run has nothing under way that is not known of.   *)
LEMMA SessionLeaves ==
    ASSUME SessionInv, SessionAccounts, NEW c \in Calls, End(c) \/ Released(c)
             \/ (Resolve(c) /\ adapter # "open")
    PROVE  /\ c \in work => c \in known
           /\ work' = work /\ known \subseteq known' /\ UNCHANGED at
<1>1. pc[c] # "prompting" /\ work' = work /\ UNCHANGED at
  BY DEF End, Released, Resolve, serverVars
<1>2. known \subseteq known'
  BY DEF End, Released, Resolve, Release, StopRuns, serverVars
<1> QED BY <1>1, <1>2 DEF SessionAccounts

(* Two prompts of one run are not sent at the same time. *)
LEMMA OneSent ==
    ASSUME SessionInv, SessionAccounts, NEW c \in Calls, pc[c] = "preparing", ~PromptAborted(c)
    PROVE  /\ at[c] \in Runs /\ stop[at[c]] = "none" /\ made[at[c]] = "open"
           /\ \A d \in work : at[d] = at[c] => d \in known
<1>1. at[c] \in Runs /\ made[at[c]] = "open"
  <2>1. pc[c] \in Standing
    BY DEF Standing, AtHead, Watched
  <2>2. at[c] \in Runs /\ 0 \notin Runs
    BY <2>1, OpenCodeAssumption, FS_CardinalityType DEF SessionInv, SessionRuns
  <2> QED BY <2>1, <2>2 DEF SessionInv, SessionRuns
<1>2. stop[at[c]] = "none"
  BY DEF SessionAccounts
<1>3. ASSUME NEW d \in work, at[d] = at[c], d \notin known PROVE FALSE
  <2>1. pc[d] = "prompting" /\ d \in Calls
    BY <1>3 DEF SessionAccounts, SessionInv, SessionTyped, SessionTypeOK
  <2>2. Head(queue[at[c]]) = c /\ Head(queue[at[d]]) = d
    BY <2>1 DEF SessionInv, SessionQueue, AtHead, Watched
  <2> QED BY <1>3, <2>1, <2>2
<1> QED BY <1>1, <1>2, <1>3

-----------------------------------------------------------------------------
(* The contract of an adapter. *)

(* A call in the contract: what it is between idle and settled.             *)
CallOf(c) == IF pc[c] \in Open THEN "open" ELSE pc[c]

(* No step but one that invalidates its own run forgets the run that the    *)
(* calls share: it is stopped, or was never made.                           *)
ForgottenWhenStopped ==
    current # 0 /\ current' # current => made[current] = "failed" \/ stop'[current] # "none"

(* The run that the calls share is the only one that is not stopped.        *)
OneShared == \A r \in Runs : made[r] \in {"creating", "open"} /\ stop[r] = "none" => r = current

LEMMA SharedKept ==
    ASSUME SessionInv, OneShared, [SessionNext]_sessionVars, [ForgottenWhenStopped]_sessionVars
    PROVE  OneShared'
<1>1. \A r \in Runs : stop'[r] = "none" => stop[r] = "none"
  <2>1. stop \in [Runs -> {"none", "pending", "answered"}]
    BY DEF SessionInv, SessionTyped, SessionTypeOK
  <2>2. ASSUME NEW rs, StopRuns(rs) PROVE \A r \in Runs : stop'[r] = "none" => stop[r] = "none"
    BY <2>1, <2>2 DEF StopRuns
  <2>3. ASSUME NEW c \in Calls, Resolve(c) \/ End(c)
        PROVE  \A r \in Runs : stop'[r] = "none" => stop[r] = "none"
    BY <2>2, <2>3 DEF Resolve, End, Release
  <2>4. ASSUME NEW c \in Calls, Interrupted(c) \/ AbortCall(c)
        PROVE  \A r \in Runs : stop'[r] = "none" => stop[r] = "none"
    BY <2>2, <2>4 DEF Interrupted, AbortCall
  <2>5. ASSUME NEW n \in Runs, StopAnswered(n)
        PROVE  \A r \in Runs : stop'[r] = "none" => stop[r] = "none"
    BY <2>1, <2>5 DEF StopAnswered
  <2>6. ASSUME CloseOwned PROVE \A r \in Runs : stop'[r] = "none" => stop[r] = "none"
    BY <2>2, <2>6 DEF CloseOwned, Release
  <2>7. \/ UNCHANGED stop \/ CloseOwned \/ \E n \in Runs : StopAnswered(n)
        \/ \E c \in Calls : Resolve(c) \/ End(c) \/ Interrupted(c) \/ AbortCall(c)
    BY DEF SessionNext, SessionProgress, CloseReturns, Create, ResolveFails, Begin, PrepareFails,
           Prompt, Answered, Incompatible, Disconnect, Stopped, ReadBack, Drain, Released, Close,
           Enter, EndTurn, Poll, Background, PollFails, sessionVars, runVars
  <2> QED BY <2>3, <2>4, <2>5, <2>6, <2>7
<1>2. ASSUME NEW c \in Calls, Enter(c) PROVE OneShared'
  <2>1. CASE UNCHANGED <<current, made>>
    BY <1>1, <2>1 DEF OneShared
  <2>2. CASE current = 0 /\ \E r \in Runs : current' = r /\ made' = [made EXCEPT ![r] = "creating"]
    <3>1. \A r \in Runs : r # 0
      BY OpenCodeAssumption, FS_CardinalityType
    <3>2. \A r \in Runs : made[r] \in {"creating", "open"} => stop[r] # "none"
      BY <2>2, <3>1 DEF OneShared
    <3> QED BY <1>1, <2>2, <3>2 DEF OneShared, SessionInv, SessionTyped, SessionTypeOK
  <2>3. CASE current # 0
    BY <1>2, <2>1, <2>3 DEF Enter
  <2>4. ASSUME adapter = "open", current = 0
        PROVE  \E r \in Runs : current' = r /\ made' = [made EXCEPT ![r] = "creating"]
    <3>1. PICK m \in 0 .. Cardinality(Entered) : \A r \in Runs : made[r] # "none" <=> r <= m
      BY DEF SessionInv, SessionRuns
    <3>2. m + 1 \in Runs /\ m \in Nat
      BY <1>2, <3>1, EntersRun DEF Enter, SessionInv
    <3>3. Runs \subseteq Nat \ {0} /\ \A r \in Runs : 1 .. r - 1 \subseteq Runs
      BY OpenCodeAssumption, FS_CardinalityType
    <3>4. made[m + 1] = "none" /\ \A k \in 1 .. (m + 1) - 1 : made[k] # "none"
      BY <3>1, <3>2, <3>3
    <3>5. \E n \in Runs : made[n] = "none" /\ \A k \in 1 .. n - 1 : made[k] # "none"
      BY <3>2, <3>4
    <3> QED BY <1>2, <2>4, <3>5 DEF Enter
  <2>5. CASE adapter # "open"
    BY <1>2, <2>1, <2>5 DEF Enter
  <2> QED BY <2>2, <2>3, <2>4, <2>5
<1>3. ASSUME NEW n \in Runs, Create(n) PROVE OneShared'
  BY <1>1, <1>3 DEF Create, OneShared, SessionInv, SessionTyped, SessionTypeOK
<1>4. CASE UNCHANGED made
  <2>1. CASE current' = current
    BY <1>1, <1>4, <2>1 DEF OneShared
  <2>2. CASE current' # current
    <3>1. current # 0 => made[current] = "failed" \/ stop'[current] # "none"
      BY <2>2 DEF ForgottenWhenStopped, sessionVars, runVars
    <3>2. 0 \notin Runs
      BY OpenCodeAssumption, FS_CardinalityType
    <3>3. ASSUME NEW r \in Runs, made'[r] \in {"creating", "open"}, stop'[r] = "none" PROVE FALSE
      <4>1. r = current /\ made[r] # "failed"
        BY <1>1, <1>4, <3>3 DEF OneShared
      <4> QED BY <3>1, <3>2, <3>3, <4>1
    <3> QED BY <3>3 DEF OneShared
  <2> QED BY <2>1, <2>2
<1>5. UNCHANGED made \/ (\E n \in Runs : Create(n)) \/ \E c \in Calls : Enter(c)
  BY DEF SessionNext, SessionProgress, CloseReturns, CloseOwned, Resolve, End, Interrupted,
         AbortCall, StopAnswered, ResolveFails, Begin, PrepareFails, Prompt, Answered,
         Incompatible, Disconnect, Stopped, ReadBack, Drain, Released, Close, EndTurn, Poll,
         Background, PollFails, sessionVars, runVars
<1> QED BY <1>2, <1>3, <1>4, <1>5

(* A prompt is sent beside no work that is not known of, if the calls share *)
(* one run, or follow one another.                                          *)
LEMMA SentInQuiet ==
    ASSUME SessionInv, SessionAccounts, NEW c \in Calls, pc[c] = "preparing", ~PromptAborted(c),
           OneShared \/ \A d \in Calls : pc[d] \in Open => d = c
    PROVE  work \subseteq known
<1>1. SUFFICES ASSUME NEW d \in work, d \notin known PROVE FALSE
  OBVIOUS
<1>2. pc[d] = "prompting" /\ d \in Calls
  BY <1>1 DEF SessionAccounts, SessionInv, SessionTyped, SessionTypeOK
<1>3. CASE OneShared
  <2>1. at[c] = current
    BY <1>3, OneSent DEF OneShared
  <2>2. pc[d] \in Standing /\ at[d] \in Runs /\ at[d] # 0
    BY <1>2, OpenCodeAssumption, FS_CardinalityType
       DEF Standing, AtHead, Watched, SessionInv, SessionRuns
  <2>3. made[at[d]] = "open"
    BY <1>2, <2>2 DEF SessionInv, SessionRuns
  <2>4. stop[at[d]] = "none"
    BY <1>1 DEF SessionAccounts
  <2>5. at[d] = current
    BY <1>3, <2>2, <2>3, <2>4 DEF OneShared
  <2> QED BY <1>1, <2>1, <2>5, OneSent
<1>4. CASE \A e \in Calls : pc[e] \in Open => e = c
  BY <1>2, <1>4 DEF Open, Watched
<1> QED BY <1>3, <1>4

LEMMA AdapterStarts == SessionInit => Contract!Init
BY DEF SessionInit, Contract!Init, Open, Watched, Draining

LEMMA AdapterMeets ==
    ASSUME SessionInv, SessionAccounts, [SessionNext]_sessionVars,
           OneShared \/ \A c, d \in Calls : pc[c] \in Open /\ pc[d] \in Open => d = c
    PROVE  [Contract!Next]_(Contract!vars)
<1> DEFINE mapped == [c \in Calls |-> IF pc[c] \in Open THEN "open" ELSE pc[c]]
           Subsides == work' \subseteq work /\ known \cap work' \subseteq known'
<1>1. pc \in [Calls -> Open \cup {"idle", "settled"}] /\ "idle" \notin Open /\ "settled" \notin Open
      /\ work \subseteq Calls
  BY DEF SessionInv, SessionTyped, SessionTypeOK, Open, Watched, Draining
<1>2. ASSUME Subsides, mapped' = mapped PROVE Contract!Next
  BY <1>2 DEF Contract!Next, Contract!Subside, Contract!Remembered
<1>3. ASSUME NEW c \in Calls, NEW to \in Open, pc[c] \in Open, Goto(c, to), Subsides
      PROVE  Contract!Next
  <2>1. mapped' = mapped
    BY <1>1, <1>3 DEF Goto
  <2> QED BY <1>2, <1>3, <2>1
<1>4. ASSUME NEW c \in Calls, pc[c] # "settled", Goto(c, "settled"), Subsides, c \in work'
               => c \in known'
      PROVE  Contract!Next
  <2>1. mapped' = [mapped EXCEPT ![c] = "settled"] /\ mapped[c] # "settled"
    BY <1>1, <1>4 DEF Goto
  <2>2. Contract!Settle(c)
    BY <1>4, <2>1 DEF Contract!Settle, Contract!Remembered
  <2> QED BY <2>2 DEF Contract!Next
<1>5. ASSUME NEW c \in Calls, Enter(c) PROVE Contract!Next
  <2>1. pc[c] = "idle" /\ UNCHANGED <<work, known>> /\ c \notin work
    BY <1>5 DEF Enter, serverVars, SessionInv, SessionWork, Leaving
  <2>2. CASE Goto(c, "settled")
    BY <1>4, <2>1, <2>2
  <2>3. CASE Goto(c, "resolving")
    <3>1. mapped' = [mapped EXCEPT ![c] = "open"] /\ mapped[c] = "idle"
      BY <1>1, <2>1, <2>3 DEF Goto, Open
    <3>2. Contract!Enter(c)
      BY <2>1, <3>1 DEF Contract!Enter
    <3> QED BY <3>2 DEF Contract!Next
  <2> QED BY <1>5, <2>2, <2>3 DEF Enter
<1>6. ASSUME NEW c \in Calls, pc[c] = "preparing", ~PromptAborted(c), Prompt(c) PROVE Contract!Next
  <2>1. Goto(c, "prompting") /\ work' = work \cup {c} /\ known' = known
    BY <1>6 DEF Prompt
  <2>2. mapped' = mapped /\ mapped[c] = "open"
    BY <1>1, <1>6, <2>1 DEF Goto, Open, Watched
  <2>3. work \subseteq known
    BY <1>6, SentInQuiet DEF Open, Watched
  <2>4. Contract!Send(c)
    BY <2>1, <2>2, <2>3 DEF Contract!Send, Contract!Quiet
  <2> QED BY <2>4 DEF Contract!Next
<1>7. ASSUME NEW c \in Calls, Resolve(c) \/ ResolveFails(c) \/ End(c) \/ Released(c), Subsides
      PROVE  Contract!Next
  <2>1. CASE Resolve(c) \/ ResolveFails(c)
    <3>1. pc[c] = "resolving" /\ \E to \in {"queued", "releasing", "ending"} : Goto(c, to)
      BY <2>1 DEF Resolve, ResolveFails
    <3> QED BY <1>3, <1>7, <3>1 DEF Open
  <2>2. CASE End(c) \/ Released(c)
    <3>1. pc[c] \in {"ending", "releasing"} /\ (Goto(c, "releasing") \/ Goto(c, "settled"))
      BY <2>2 DEF End, Released, SettleCall
    <3>2. c \in work' => c \in known'
      BY <2>2, SessionLeaves
    <3> QED BY <1>3, <1>4, <1>7, <3>1, <3>2 DEF Open
  <2> QED BY <1>7, <2>1, <2>2
<1>8. ASSUME NEW c \in Calls, NEW to \in Prompts, pc[c] \in Prompts, Goto(c, to), Subsides
      PROVE  Contract!Next
  BY <1>3, <1>8 DEF Prompts, Standing, AtHead, Open
<1>9. ASSUME UNCHANGED pc, Subsides PROVE Contract!Next
  BY <1>2, <1>9
<1> HIDE DEF mapped, Subsides
<1> QED BY <1>5, <1>6, <1>7, <1>8, <1>9, SessionMoves DEF Subsides

-----------------------------------------------------------------------------
(* The contract for one run: a call enters the run with its first prompt,   *)
(* and leaves it when it lets go of it.                                     *)
RunContract(r) ==
    INSTANCE AgentSession WITH
        SessionOf <- [c \in Calls |-> "session"],
        call <- [c \in Calls |-> IF at[c] # r \/ pc[c] \in {"idle", "resolving"} THEN "idle"
                                 ELSE IF pc[c] \in {"releasing", "settled"} THEN "settled" ELSE "open"],
        work <- {c \in work : at[c] = r},
        known <- {c \in known : at[c] = r}

LEMMA RunStarts ==
    ASSUME NEW r \in Runs, SessionInit
    PROVE  RunContract(r)!Init
BY DEF SessionInit, RunContract!Init

LEMMA RunMeets ==
    ASSUME SessionInv, SessionAccounts, [SessionNext]_sessionVars, NEW r \in Runs
    PROVE  [RunContract(r)!Next]_(RunContract(r)!vars)
<1> DEFINE mapped == [c \in Calls |-> IF at[c] # r \/ pc[c] \in {"idle", "resolving"} THEN "idle"
                                 ELSE IF pc[c] \in {"releasing", "settled"} THEN "settled" ELSE "open"]
           here == {c \in work : at[c] = r}
           told == {c \in known : at[c] = r}
<1>1. /\ pc \in [Calls -> Open \cup {"idle", "settled"}] /\ at \in [Calls -> Runs \cup {0}]
      /\ work \subseteq Calls /\ known \subseteq work /\ r # 0
  BY OpenCodeAssumption, FS_CardinalityType DEF SessionInv, SessionTyped, SessionTypeOK
<1>2. ASSUME mapped' = mapped, here' \subseteq here, told \cap here' \subseteq told'
      PROVE  RunContract(r)!Next
  BY <1>2 DEF RunContract!Next, RunContract!Subside, RunContract!Remembered
<1>3. ASSUME work' \subseteq work, known \cap work' \subseteq known', \A d \in work : at'[d] = at[d]
      PROVE  here' \subseteq here /\ told \cap here' \subseteq told'
  BY <1>1, <1>3
<1>4. ASSUME NEW c \in Calls, mapped' = [mapped EXCEPT ![c] = "settled"], mapped[c] # "settled",
             here' \subseteq here, told \cap here' \subseteq told', c \in here' => c \in told'
      PROVE  RunContract(r)!Next
  <2>1. RunContract(r)!Settle(c)
    BY <1>4 DEF RunContract!Settle, RunContract!Remembered
  <2> QED BY <2>1 DEF RunContract!Next
<1>5. ASSUME NEW c \in Calls, pc[c] = "preparing", ~PromptAborted(c), Prompt(c)
      PROVE  RunContract(r)!Next
  <2>1. Goto(c, "prompting") /\ work' = work \cup {c} /\ known' = known /\ at' = at
    BY <1>5 DEF Prompt
  <2>2. mapped' = mapped
    BY <1>1, <1>5, <2>1 DEF Goto
  <2>3. CASE at[c] = r
    <3>1. here' = here \cup {c} /\ told' = told /\ mapped[c] = "open"
      BY <1>1, <1>5, <2>1, <2>3
    <3>2. here \subseteq told
      BY <1>5, <2>3, OneSent
    <3>3. RunContract(r)!Send(c)
      BY <2>2, <3>1, <3>2 DEF RunContract!Send, RunContract!Quiet
    <3> QED BY <3>3 DEF RunContract!Next
  <2>4. CASE at[c] # r
    <3>1. here' = here /\ told' = told
      BY <2>1, <2>4
    <3> QED BY <1>2, <2>2, <3>1
  <2> QED BY <2>3, <2>4
<1>6. ASSUME NEW c \in Calls, Enter(c) PROVE RunContract(r)!Next
  <2>1. pc[c] = "idle" /\ UNCHANGED <<work, known>> /\ c \notin work
    BY <1>6 DEF Enter, serverVars, SessionInv, SessionWork, Leaving
  <2>2. \A d \in work : at'[d] = at[d]
    BY <1>1, <1>6, <2>1 DEF Enter
  <2>3. here' \subseteq here /\ told \cap here' \subseteq told'
    BY <1>3, <2>1, <2>2
  <2>4. CASE Goto(c, "settled") /\ UNCHANGED at
    <3>1. CASE at[c] = r
      <4>1. mapped' = [mapped EXCEPT ![c] = "settled"] /\ mapped[c] # "settled"
        BY <1>1, <2>1, <2>4, <3>1 DEF Goto
      <4> QED BY <1>4, <2>1, <2>3, <4>1
    <3>2. CASE at[c] # r
      <4>1. mapped' = mapped
        BY <1>1, <2>4, <3>2 DEF Goto
      <4> QED BY <1>2, <2>3, <4>1
    <3> QED BY <3>1, <3>2
  <2>5. CASE Goto(c, "resolving") /\ \E n : at' = [at EXCEPT ![c] = n]
    <3>1. mapped' = mapped
      BY <1>1, <2>1, <2>5 DEF Goto
    <3> QED BY <1>2, <2>3, <3>1
  <2> QED BY <1>6, <2>4, <2>5 DEF Enter
<1>7. ASSUME NEW c \in Calls, Resolve(c), work' \subseteq work, known \cap work' \subseteq known'
      PROVE  RunContract(r)!Next
  <2>1. pc[c] = "resolving" /\ UNCHANGED <<at, work>> /\ c \notin work
    BY <1>7 DEF Resolve, SessionInv, SessionWork, Leaving
  <2>2. here' \subseteq here /\ told \cap here' \subseteq told'
    BY <1>3, <1>7, <2>1
  <2>3. CASE Goto(c, "queued") /\ UNCHANGED known /\ at[c] = r
    <3>1. mapped' = [mapped EXCEPT ![c] = "open"] /\ mapped[c] = "idle" /\ UNCHANGED <<here, told>>
      BY <1>1, <2>1, <2>3 DEF Goto
    <3>2. RunContract(r)!Enter(c)
      BY <3>1 DEF RunContract!Enter
    <3> QED BY <3>2 DEF RunContract!Next
  <2>4. CASE Goto(c, "releasing") /\ at[c] = r
    <3>1. mapped' = [mapped EXCEPT ![c] = "settled"] /\ mapped[c] # "settled"
      BY <1>1, <2>1, <2>4 DEF Goto
    <3> QED BY <1>4, <2>1, <2>2, <3>1
  <2>5. CASE at[c] # r
    <3>1. mapped' = mapped
      BY <1>1, <1>7, <2>1, <2>5 DEF Resolve, Goto
    <3> QED BY <1>2, <2>2, <3>1
  <2> QED BY <1>7, <2>3, <2>4, <2>5 DEF Resolve
<1>8. ASSUME NEW c \in Calls, ResolveFails(c) PROVE RunContract(r)!Next
  <2>1. pc[c] = "resolving" /\ Goto(c, "ending") /\ at' = [at EXCEPT ![c] = 0]
        /\ UNCHANGED <<work, known>> /\ c \notin work
    BY <1>8 DEF ResolveFails, serverVars, SessionInv, SessionWork, Leaving
  <2>2. mapped' = mapped
    BY <1>1, <2>1 DEF Goto
  <2>3. here' \subseteq here /\ told \cap here' \subseteq told'
    BY <1>1, <1>3, <2>1
  <2> QED BY <1>2, <2>2, <2>3
<1>9. ASSUME NEW c \in Calls, End(c) \/ Released(c) PROVE RunContract(r)!Next
  <2>1. /\ pc[c] \in {"ending", "releasing"}
        /\ Goto(c, "releasing") \/ Goto(c, "settled")
        /\ pc[c] = "releasing" => Goto(c, "settled")
    BY <1>9 DEF End, Released, SettleCall
  <2>2. /\ c \in work => c \in known
        /\ work' = work /\ known \subseteq known' /\ at' = at
    BY <1>9, SessionLeaves
  <2>3. here' \subseteq here /\ told \cap here' \subseteq told' /\ (c \in here' => c \in told')
    BY <2>2
  <2>4. CASE pc[c] = "ending" /\ at[c] = r
    <3>1. mapped' = [mapped EXCEPT ![c] = "settled"] /\ mapped[c] # "settled"
      BY <1>1, <2>1, <2>2, <2>4 DEF Goto
    <3> QED BY <1>4, <2>3, <3>1
  <2>5. CASE pc[c] = "releasing" \/ at[c] # r
    <3>1. mapped' = mapped
      BY <1>1, <2>1, <2>2, <2>5 DEF Goto
    <3> QED BY <1>2, <2>3, <3>1
  <2> QED BY <2>1, <2>4, <2>5
<1>10. ASSUME NEW c \in Calls, NEW to \in Prompts, pc[c] \in Prompts, Goto(c, to), UNCHANGED at,
              work' \subseteq work, known \cap work' \subseteq known'
       PROVE  RunContract(r)!Next
  <2>1. mapped' = mapped
    BY <1>1, <1>10 DEF Goto, Prompts, Standing, AtHead, Watched, Draining
  <2> QED BY <1>2, <1>3, <1>10, <2>1
<1>11. ASSUME UNCHANGED <<pc, at>>, work' \subseteq work, known \cap work' \subseteq known'
       PROVE  RunContract(r)!Next
  <2>1. mapped' = mapped
    BY <1>11
  <2> QED BY <1>2, <1>3, <1>11, <2>1
<1> HIDE DEF mapped, here, told
<1> QED BY <1>5, <1>6, <1>7, <1>8, <1>9, <1>10, <1>11, SessionMoves

-----------------------------------------------------------------------------
(* The theorems about them. *)

(* The inductive invariant of the calls of an OpenCode adapter, for any     *)
(* number of calls and retries.                                             *)
THEOREM OpenCodeInvariant == SessionSpec => [](SessionInv /\ SessionAccounts)
<1>1. SessionInit => SessionInv
  BY SessionStarts
<1>2. SessionInit => SessionAccounts
  BY DEF SessionInit, SessionAccounts
<1>3. SessionInv /\ [SessionNext]_sessionVars => SessionInv'
  BY SessionKeeps
<1>4. SessionInv /\ SessionAccounts /\ [SessionNext]_sessionVars => SessionAccounts'
  BY AccountsKept
<1> QED BY <1>1, <1>2, <1>3, <1>4, PTL DEF SessionSpec

(* When close of an OpenCode adapter has returned, every session it opened  *)
(* was aborted, no prompt is under way, and none is made later.             *)
THEOREM OpenCodeCloses == SessionSpec => []ClosedLeavesNothing
<1>1. SessionInv => ClosedLeavesNothing
  BY SessionCloses
<1> QED BY <1>1, OpenCodeInvariant, PTL

(* The events a prompt passes on as its own are those of its own attempt,   *)
(* or of a call that failed with events to come: OwnEvents.                 *)
THEOREM OpenCodeEventsOwned == SessionSpec => OwnEvents
<1> DEFINE Reads ==
      \A r \in Runs : based[r] =>
          \A event \in unread[r] \ unread'[r] :
              LET c == Head(queue[r])
              IN  event = <<c, attempt[c]>> \/ event[1] \in unheard
<1>1. SessionInv /\ [SessionNext]_sessionVars => [Reads]_sessionVars
  BY SessionReads
<1> QED BY <1>1, OpenCodeInvariant, PTL DEF SessionSpec, OwnEvents

(* Each session by itself keeps the contract of an adapter, whatever the    *)
(* calls do: no prompt is sent to it beside work of it that nobody knows    *)
(* of, and no call leaves it with such work.                                *)
THEOREM OpenCodeRunsAccounted ==
    ASSUME NEW r \in Runs
    PROVE  SessionSpec => RunContract(r)!Spec
<1>1. SessionInit => RunContract(r)!Init
  BY RunStarts
<1>2. SessionInv /\ SessionAccounts /\ [SessionNext]_sessionVars =>
          [RunContract(r)!Next]_(RunContract(r)!vars)
  BY RunMeets
<1> QED BY <1>1, <1>2, OpenCodeInvariant, PTL DEF SessionSpec, RunContract!Spec

(* The adapter as a whole keeps that contract (WorkAccounted), across the   *)
(* sessions that replace each other, as long as no call forgets a session   *)
(* that is in use.  onRunInvalidated of createOpenCodeAdapter does not look *)
(* which session it forgets, so the condition can fail among four calls.    *)
THEOREM OpenCodeAccounted ==
    SessionSpec /\ [][ForgottenWhenStopped]_sessionVars => WorkAccounted
<1>1. SessionInit => OneShared
  BY DEF SessionInit, OneShared
<1>2. SessionInv /\ OneShared /\ [SessionNext]_sessionVars /\ [ForgottenWhenStopped]_sessionVars =>
          OneShared'
  BY SharedKept
<1>3. SessionInv /\ SessionAccounts /\ OneShared /\ [SessionNext]_sessionVars =>
          [Contract!Next]_(Contract!vars)
  BY AdapterMeets
<1> QED BY <1>1, <1>2, <1>3, AdapterStarts, OpenCodeInvariant, PTL DEF SessionSpec, WorkAccounted, Contract!Spec

(* Calls follow one another.                                                *)
OneAtATime == \A c, d \in Calls : pc[c] \in Open /\ pc[d] \in Open => d = c

(* The adapter keeps the contract in any case if calls follow one another,  *)
(* as the lease of a session makes the calls of a run do: then what an      *)
(* earlier call left at the server was told to stop, or was lost and is     *)
(* known of.                                                                *)
THEOREM OpenCodeAccountedInTurn == SessionSpec /\ []OneAtATime => WorkAccounted
<1>1. SessionInv /\ SessionAccounts /\ OneAtATime /\ [SessionNext]_sessionVars =>
          [Contract!Next]_(Contract!vars)
  BY AdapterMeets DEF OneAtATime
<1> QED BY <1>1, AdapterStarts, OpenCodeInvariant, PTL DEF SessionSpec, WorkAccounted, Contract!Spec

=============================================================================
