-------------------------- MODULE ExecutionProofs ---------------------------
(***************************************************************************)
(* Proofs about the execution of commands, for programs nested to any      *)
(* depth: a break or continue finds its loop, errexit takes effect exactly *)
(* where it should, nothing but traps runs in a process that is to end, and*)
(* loops have the exit status they promise.  The last part is about        *)
(* Variables: the stacks of a name stay in the order of the contexts,      *)
(* temporary assignments are undone, and Scopes is implemented.            *)
(***************************************************************************)
EXTENDS Execution, Variables, FiniteSetTheorems, SequenceTheorems, WellFoundedInduction, TLAPS

-----------------------------------------------------------------------------
(***************************************************************************)
(* Extreme elements.                                                       *)
(***************************************************************************)

\* A set of natural numbers that is not empty has a smallest element.
LEMMA Smallest ==
    ASSUME NEW S, S \subseteq Nat, S # {}
    PROVE  \E x \in S : \A y \in S : x <= y
<1> DEFINE Less == OpToRel(<, Nat)
<1>1. IsWellFoundedOn(Less, Nat) BY NatLessThanWellFounded
<1>2. \A x, y \in Nat : y < x => <<y, x>> \in Less BY DEF OpToRel
<1> HIDE DEF Less
<1>3. PICK x \in S : \A y \in S : ~ (<<y, x>> \in Less) BY <1>1, WFMin
<1>4. ASSUME NEW y \in S PROVE x <= y
  <2>1. x \in Nat /\ y \in Nat OBVIOUS
  <2>2. ~ (y < x) BY <1>2, <1>3, <2>1
  <2> QED BY <2>1, <2>2
<1> QED BY <1>4

\* One that is bounded has a greatest element.
LEMMA Greatest ==
    ASSUME NEW n \in Nat, NEW S, S \subseteq 0 .. n, S # {}
    PROVE  \E x \in S : \A y \in S : y <= x
<1>1. PICK T : T = {m \in 0 .. n : n - m \in S} OBVIOUS
<1>2. T \subseteq Nat BY <1>1
<1>3. T # {}
  <2>1. PICK x \in S : TRUE OBVIOUS
  <2>2. n - x \in 0 .. n /\ n - (n - x) = x BY <2>1
  <2> QED BY <1>1, <2>1, <2>2
<1>4. PICK m \in T : \A k \in T : m <= k BY <1>2, <1>3, Smallest
<1>5. n - m \in S BY <1>1, <1>4
<1>6. ASSUME NEW y \in S PROVE y <= n - m
  <2>1. y \in 0 .. n /\ m \in 0 .. n BY <1>1, <1>4
  <2>2. n - y \in 0 .. n /\ n - (n - y) = y BY <2>1
  <2>3. n - y \in T BY <1>1, <2>2
  <2>4. m <= n - y BY <1>4, <2>3
  <2> QED BY <2>1, <2>4
<1> QED BY <1>5, <1>6

-----------------------------------------------------------------------------
(***************************************************************************)
(* Frames that are pushed one after the other.                             *)
(***************************************************************************)

HidingFrames == {"Subshell", "DotScript", "SignalTrap", "ExitTrap"}
Hiding(fs) == {i \in 1..Len(fs) : fs[i] \in HidingFrames}
LoopsIn(fs) == {i \in 1..Len(fs) : fs[i] = "Loop" /\ \A j \in Hiding(fs) : j < i}

\* What pushing a frame does to the frames there are and to the loops in reach.
LEMMA FramePushed ==
    ASSUME NEW fs \in Seq(FrameTypes), NEW x \in FrameTypes, NEW gs, gs = Append(fs, x)
    PROVE  /\ gs \in Seq(FrameTypes)
           /\ Frames(gs) = Frames(fs) \cup {x}
           /\ Len(fs) \in Nat /\ LoopsIn(fs) \subseteq 1..Len(fs)
           /\ LoopsIn(gs) = IF x \in HidingFrames THEN {}
                            ELSE IF x = "Loop" THEN LoopsIn(fs) \cup {Len(fs) + 1}
                            ELSE LoopsIn(fs)
<1>1. PICK n : n = Len(fs) OBVIOUS
<1>2. /\ n \in Nat /\ gs \in Seq(FrameTypes) /\ Len(gs) = n + 1
      /\ \A k \in 1..n : gs[k] = fs[k]
      /\ gs[n + 1] = x
  BY <1>1, AppendProperties, LenProperties
<1>3. \A k : k \in 1..(n + 1) <=> k = n + 1 \/ k \in 1..n BY <1>2
<1>4. Frames(gs) = Frames(fs) \cup {x}
  <2>1. ASSUME NEW f PROVE f \in Frames(gs) <=> f \in Frames(fs) \/ f = x
    BY <1>1, <1>2, <1>3 DEF Frames
  <2> QED BY <2>1
<1>5. \A k : k \in Hiding(gs) <=> k \in Hiding(fs) \/ (k = n + 1 /\ x \in HidingFrames)
  BY <1>1, <1>2, <1>3 DEF Hiding
<1>6. Hiding(fs) \subseteq 1..n BY <1>1 DEF Hiding
<1>7. LoopsIn(fs) \subseteq 1..n BY <1>1 DEF LoopsIn
<1>8. CASE x \in HidingFrames
  <2>1. n + 1 \in Hiding(gs) BY <1>5, <1>8
  <2>2. \A k \in 1..(n + 1) : ~ (n + 1 < k) BY <1>2
  <2>3. LoopsIn(gs) = {} BY <1>2, <2>1, <2>2 DEF LoopsIn
  <2> QED BY <1>1, <1>2, <1>4, <1>7, <1>8, <2>3
<1>9. CASE x \notin HidingFrames
  <2>1. Hiding(gs) = Hiding(fs) BY <1>5, <1>9
  <2>2. \A j \in Hiding(fs) : j < n + 1 BY <1>2, <1>6
  <2>3. ASSUME NEW k
        PROVE  k \in LoopsIn(gs) <=> k \in LoopsIn(fs) \/ (k = n + 1 /\ x = "Loop")
    BY <1>1, <1>2, <1>3, <2>1, <2>2 DEF LoopsIn
  <2>4. LoopsIn(gs) = IF x = "Loop" THEN LoopsIn(fs) \cup {n + 1} ELSE LoopsIn(fs)
    BY <2>3
  <2> QED BY <1>1, <1>2, <1>4, <1>7, <1>9, <2>4
<1> QED BY <1>8, <1>9

\* Pushing at most two frames.
LEMMA FramesPushed ==
    ASSUME NEW fs \in Seq(FrameTypes), NEW x \in FrameTypes, NEW y \in FrameTypes
    PROVE  /\ fs \o <<>> = fs
           /\ fs \o <<x>> = Append(fs, x)
           /\ fs \o <<x, y>> = Append(Append(fs, x), y)
OBVIOUS

\* What a construct pushes.
LEMMA FramesOfKind ==
    ASSUME NEW a \in Acts, a.phase \in Phases(a.kind), NEW F, F = FramesOf(a.kind, a.phase)
    PROVE  /\ F \in Seq(FrameTypes)
           /\ a.kind \in Loops =>
                 F = IF a.phase = "cond" THEN <<"Loop", "Condition">> ELSE <<"Loop">>
           /\ a.kind \in Barriers \ {"main"} =>
                 /\ a.phase # "cond"
                 /\ \/ \E x \in HidingFrames : F = <<x>>
                    \/ F = <<"Builtin", "DotScript">>
           /\ a.kind = "main" => a.phase # "cond" /\ F = <<>>
           /\ a.kind \notin Loops \cup Barriers =>
                 IF a.phase = "cond" THEN F = <<"Condition">> ELSE F \in {<<>>, <<"Builtin">>}
<1>1. \A x \in FrameTypes : <<x>> \in Seq(FrameTypes) OBVIOUS
<1>2. \A x, y \in FrameTypes : <<x, y>> \in Seq(FrameTypes) OBVIOUS
<1>3. <<>> \in Seq(FrameTypes) OBVIOUS
<1>4. a.kind \in AllConstructs \cup ReadEvalLoops BY DEF Acts
<1> QED
  BY <1>1, <1>2, <1>3, <1>4
     DEF FramesOf, Phases, Loops, Barriers, AllConstructs, ReadEvalLoops, FrameTypes, HidingFrames

\* The loops that a break in the k-th construct can reach.
LEMMA AroundNext ==
    ASSUME NEW as, NEW k \in Nat
    PROVE  Around(as, k + 1) =
               IF as[k + 1].kind \in Barriers THEN {}
               ELSE IF as[k + 1].kind \in Loops THEN Around(as, k) \cup {k + 1}
               ELSE Around(as, k)
<1>1. \A j : j \in 1..(k + 1) <=> j = k + 1 \/ j \in 1..k OBVIOUS
<1>2. \A i \in 1..(k + 1) : \A j : j \in i..(k + 1) <=> j = k + 1 \/ j \in i..k OBVIOUS
<1>3. Loops \cap Barriers = {} BY DEF Loops, Barriers
<1>4. ASSUME NEW i
      PROVE  i \in Around(as, k + 1) <=>
                 /\ as[k + 1].kind \notin Barriers
                 /\ i \in Around(as, k) \/ (i = k + 1 /\ as[k + 1].kind \in Loops)
  <2>1. CASE i = k + 1
    <3>1. k + 1 \in 1..(k + 1) /\ k + 1 \notin 1..k OBVIOUS
    <3>2. \A j \in (k + 1)..(k + 1) : j = k + 1 OBVIOUS
    <3>3. k + 1 \in Around(as, k + 1) <=> as[k + 1].kind \in Loops
      BY <1>3, <3>1, <3>2 DEF Around
    <3> QED BY <1>3, <2>1, <3>1, <3>3 DEF Around
  <2>2. CASE i # k + 1
    <3>1. ASSUME i \in 1..k
          PROVE  (\A j \in i..(k + 1) : as[j].kind \notin Barriers) <=>
                     /\ \A j \in i..k : as[j].kind \notin Barriers
                     /\ as[k + 1].kind \notin Barriers
      <4>1. \A j : j \in i..(k + 1) <=> j = k + 1 \/ j \in i..k BY <3>1
      <4> QED BY <4>1
    <3> QED BY <1>1, <2>2, <3>1 DEF Around
  <2> QED BY <2>1, <2>2
<1> QED BY <1>4

\* There are finitely many of them.
LEMMA AroundFinite ==
    ASSUME NEW as, NEW k \in Nat
    PROVE  /\ IsFiniteSet(Around(as, k)) /\ Cardinality(Around(as, k)) \in Nat
           /\ Around(as, k) \subseteq 1..k
<1>1. Around(as, k) \in SUBSET (1..k) BY DEF Around
<1>2. IsFiniteSet(1..k) BY FS_Interval
<1>3. IsFiniteSet(Around(as, k)) BY <1>1, <1>2, FS_Subset
<1> QED BY <1>1, <1>3, FS_CardinalityType

\* Of constructs, the loops around depend on the kinds alone.
LEMMA AroundSame ==
    ASSUME NEW as, NEW bs, NEW k \in Nat, \A i \in 1..k : as[i].kind = bs[i].kind
    PROVE  Around(as, k) = Around(bs, k)
<1>1. \A i \in 1..k : \A j \in i..k : j \in 1..k OBVIOUS
<1> QED BY <1>1 DEF Around

\* How many they are, from one construct to the next.
LEMMA CountAround ==
    ASSUME NEW as, NEW k \in Nat, k > 0
    PROVE  /\ as[k].kind \in Barriers => Cardinality(Around(as, k)) = 0
           /\ as[k].kind \in Loops =>
                 Cardinality(Around(as, k)) = Cardinality(Around(as, k - 1)) + 1
           /\ as[k].kind \notin Loops \cup Barriers =>
                 Cardinality(Around(as, k)) = Cardinality(Around(as, k - 1))
<1>1. k - 1 \in Nat /\ k - 1 + 1 = k OBVIOUS
<1>2. /\ IsFiniteSet(Around(as, k - 1))
      /\ k \notin Around(as, k - 1)
  <2>1. PICK m : m = k - 1 OBVIOUS
  <2>2. m \in Nat /\ k \notin 1..m BY <1>1, <2>1
  <2> QED BY <2>1, <2>2, AroundFinite
<1>3. Loops \cap Barriers = {} BY DEF Loops, Barriers
<1>4. Around(as, k) = IF as[k].kind \in Barriers THEN {}
                      ELSE IF as[k].kind \in Loops THEN Around(as, k - 1) \cup {k}
                      ELSE Around(as, k - 1)
  BY <1>1, AroundNext
<1>5. Cardinality(Around(as, k - 1) \cup {k}) = Cardinality(Around(as, k - 1)) + 1
  BY <1>2, FS_AddElement
<1> QED BY <1>3, <1>4, <1>5, FS_EmptySet

\* The frames of the stack up to the k-th construct tell how many loops are
\* around it, and whether it is in a condition.
Tells(fs, as, k) ==
    /\ fs \in Seq(FrameTypes)
    /\ "Condition" \in Frames(fs) <=> \E i \in 1..k : as[i].phase = "cond"
    /\ IsFiniteSet(LoopsIn(fs))
    /\ Cardinality(LoopsIn(fs)) = Cardinality(Around(as, k))

\* What env.stack tells stays true when a construct pushes its frames.
LEMMA TellsNext ==
    ASSUME NEW as, NEW k \in Nat, NEW fs, Tells(fs, as, k),
           NEW a \in Acts, a = as[k + 1], a.phase \in Phases(a.kind),
           a.kind = "main" => k = 0,
           NEW gs, gs = fs \o FramesOf(a.kind, a.phase)
    PROVE  Tells(gs, as, k + 1)
<1>1. PICK F : F = FramesOf(a.kind, a.phase) OBVIOUS
<1>2. \A x, y \in FrameTypes : /\ fs \o <<>> = fs
                               /\ fs \o <<x>> = Append(fs, x)
                               /\ fs \o <<x, y>> = Append(Append(fs, x), y)
  BY FramesPushed DEF Tells
<1>3. PICK n : n = Cardinality(Around(as, k)) OBVIOUS
<1>4. /\ a.kind \in Barriers => Cardinality(Around(as, k + 1)) = 0
      /\ a.kind \in Loops => Cardinality(Around(as, k + 1)) = n + 1
      /\ a.kind \notin Loops \cup Barriers => Cardinality(Around(as, k + 1)) = n
  <2>1. PICK m : m = k + 1 OBVIOUS
  <2>2. m \in Nat /\ m > 0 /\ m - 1 = k BY <2>1
  <2>3. /\ as[m].kind \in Barriers => Cardinality(Around(as, m)) = 0
        /\ as[m].kind \in Loops =>
              Cardinality(Around(as, m)) = Cardinality(Around(as, m - 1)) + 1
        /\ as[m].kind \notin Loops \cup Barriers =>
              Cardinality(Around(as, m)) = Cardinality(Around(as, m - 1))
    BY <2>2, CountAround
  <2> QED BY <1>3, <2>1, <2>2, <2>3
<1>5. \A i : i \in 1..(k + 1) <=> i = k + 1 \/ i \in 1..k OBVIOUS
<1>6. (\E i \in 1..(k + 1) : as[i].phase = "cond") <=>
          a.phase = "cond" \/ \E i \in 1..k : as[i].phase = "cond"
  BY <1>5
<1>7. fs \in Seq(FrameTypes) /\ IsFiniteSet(LoopsIn(fs)) /\ Cardinality(LoopsIn(fs)) = n
  BY <1>3 DEF Tells
<1>8. "Condition" \in Frames(fs) <=> \E i \in 1..k : as[i].phase = "cond" BY DEF Tells
<1>9. {"Loop", "Condition", "Builtin", "DotScript"} \subseteq FrameTypes
      /\ HidingFrames \subseteq FrameTypes
  BY DEF FrameTypes, HidingFrames
<1>10. HidingFrames \cap {"Loop", "Condition", "Builtin"} = {} /\ "DotScript" \in HidingFrames
       /\ "Condition" \notin HidingFrames
  BY DEF HidingFrames
<1>11. ASSUME NEW x \in FrameTypes
       PROVE  /\ Append(fs, x) \in Seq(FrameTypes)
              /\ Frames(Append(fs, x)) = Frames(fs) \cup {x}
              /\ IsFiniteSet(LoopsIn(Append(fs, x)))
              /\ Cardinality(LoopsIn(Append(fs, x))) =
                     IF x \in HidingFrames THEN 0 ELSE IF x = "Loop" THEN n + 1 ELSE n
  <2>1. PICK hs : hs = Append(fs, x) OBVIOUS
  <2>2. /\ hs \in Seq(FrameTypes) /\ Frames(hs) = Frames(fs) \cup {x}
        /\ Len(fs) \in Nat /\ LoopsIn(fs) \subseteq 1..Len(fs)
        /\ LoopsIn(hs) = IF x \in HidingFrames THEN {}
                         ELSE IF x = "Loop" THEN LoopsIn(fs) \cup {Len(fs) + 1}
                         ELSE LoopsIn(fs)
    BY <1>7, <2>1, FramePushed
  <2>3. Len(fs) + 1 \notin LoopsIn(fs) BY <2>2
  <2>4. /\ IsFiniteSet(LoopsIn(fs) \cup {Len(fs) + 1})
        /\ Cardinality(LoopsIn(fs) \cup {Len(fs) + 1}) = n + 1
    BY <1>7, <2>3, FS_AddElement
  <2>5. /\ IsFiniteSet(LoopsIn(hs))
        /\ Cardinality(LoopsIn(hs)) =
               IF x \in HidingFrames THEN 0 ELSE IF x = "Loop" THEN n + 1 ELSE n
    BY <1>7, <2>2, <2>4, FS_EmptySet
  <2> QED BY <2>1, <2>2, <2>5
<1>12. ASSUME NEW x \in FrameTypes, NEW y \in FrameTypes, y # "Loop"
       PROVE  /\ Append(Append(fs, x), y) \in Seq(FrameTypes)
              /\ Frames(Append(Append(fs, x), y)) = Frames(fs) \cup {x, y}
              /\ IsFiniteSet(LoopsIn(Append(Append(fs, x), y)))
              /\ Cardinality(LoopsIn(Append(Append(fs, x), y))) =
                     IF y \in HidingFrames THEN 0 ELSE Cardinality(LoopsIn(Append(fs, x)))
  <2>1. PICK hs : hs = Append(fs, x) OBVIOUS
  <2>2. hs \in Seq(FrameTypes) /\ Frames(hs) = Frames(fs) \cup {x} /\ IsFiniteSet(LoopsIn(hs))
    BY <1>11, <2>1
  <2>3. PICK is : is = Append(hs, y) OBVIOUS
  <2>4. /\ is \in Seq(FrameTypes) /\ Frames(is) = Frames(hs) \cup {y}
        /\ LoopsIn(is) = IF y \in HidingFrames THEN {} ELSE LoopsIn(hs)
    BY <1>12, <2>2, <2>3, FramePushed
  <2>5. Frames(is) = Frames(fs) \cup {x, y} BY <2>2, <2>4
  <2>6. /\ IsFiniteSet(LoopsIn(is))
        /\ Cardinality(LoopsIn(is)) =
               IF y \in HidingFrames THEN 0 ELSE Cardinality(LoopsIn(hs))
    BY <2>2, <2>4, FS_EmptySet
  <2> QED BY <2>1, <2>3, <2>4, <2>5, <2>6
<1>13. CASE a.kind \in Loops
  <2>1. F = IF a.phase = "cond" THEN <<"Loop", "Condition">> ELSE <<"Loop">>
    BY <1>1, <1>13, FramesOfKind
  <2>2. CASE a.phase = "cond"
    <3>1. gs = Append(Append(fs, "Loop"), "Condition") BY <1>1, <1>2, <1>9, <2>1, <2>2
    <3>2. /\ gs \in Seq(FrameTypes) /\ "Condition" \in Frames(gs)
          /\ IsFiniteSet(LoopsIn(gs)) /\ Cardinality(LoopsIn(gs)) = n + 1
      BY <1>9, <1>10, <1>11, <1>12, <3>1
    <3> QED BY <1>4, <1>6, <1>13, <2>2, <3>2 DEF Tells
  <2>3. CASE a.phase # "cond"
    <3>1. gs = Append(fs, "Loop") BY <1>1, <1>2, <1>9, <2>1, <2>3
    <3>2. /\ gs \in Seq(FrameTypes) /\ Frames(gs) = Frames(fs) \cup {"Loop"}
          /\ IsFiniteSet(LoopsIn(gs)) /\ Cardinality(LoopsIn(gs)) = n + 1
      BY <1>9, <1>10, <1>11, <3>1
    <3> QED BY <1>4, <1>6, <1>8, <1>13, <2>3, <3>2 DEF Tells
  <2> QED BY <2>2, <2>3
<1>14. CASE a.kind \in Barriers \ {"main"}
  <2>1. a.phase # "cond" /\ ((\E x \in HidingFrames : F = <<x>>) \/ F = <<"Builtin", "DotScript">>)
    BY <1>1, <1>14, FramesOfKind
  <2>2. ASSUME NEW x \in HidingFrames, F = <<x>> PROVE Tells(gs, as, k + 1)
    <3>1. gs = Append(fs, x) /\ x # "Condition" BY <1>1, <1>2, <1>9, <1>10, <2>2
    <3>2. /\ gs \in Seq(FrameTypes) /\ Frames(gs) = Frames(fs) \cup {x}
          /\ IsFiniteSet(LoopsIn(gs)) /\ Cardinality(LoopsIn(gs)) = 0
      BY <1>9, <1>11, <3>1
    <3> QED BY <1>4, <1>6, <1>8, <1>14, <2>1, <3>1, <3>2 DEF Tells
  <2>3. CASE F = <<"Builtin", "DotScript">>
    <3>1. gs = Append(Append(fs, "Builtin"), "DotScript") BY <1>1, <1>2, <1>9, <2>3
    <3>2. /\ gs \in Seq(FrameTypes) /\ Frames(gs) = Frames(fs) \cup {"Builtin", "DotScript"}
          /\ IsFiniteSet(LoopsIn(gs)) /\ Cardinality(LoopsIn(gs)) = 0
      BY <1>9, <1>10, <1>12, <3>1
    <3> QED BY <1>4, <1>6, <1>8, <1>14, <2>1, <3>2 DEF Tells
  <2> QED BY <2>1, <2>2, <2>3
<1>15. CASE a.kind \notin Loops \cup Barriers
  <2>1. IF a.phase = "cond" THEN F = <<"Condition">> ELSE F \in {<<>>, <<"Builtin">>}
    BY <1>1, <1>15, FramesOfKind
  <2>2. CASE F = <<>>
    <3>1. gs = fs /\ a.phase # "cond"
      <4>1. <<>> # <<"Condition">> OBVIOUS
      <4> QED BY <1>1, <1>2, <1>9, <2>1, <2>2, <4>1
    <3> QED BY <1>4, <1>6, <1>7, <1>8, <1>15, <3>1 DEF Tells
  <2>3. ASSUME NEW x \in {"Condition", "Builtin"}, F = <<x>>,
               a.phase = "cond" <=> x = "Condition"
        PROVE  Tells(gs, as, k + 1)
    <3>1. gs = Append(fs, x) BY <1>1, <1>2, <1>9, <2>3
    <3>2. /\ gs \in Seq(FrameTypes) /\ Frames(gs) = Frames(fs) \cup {x}
          /\ IsFiniteSet(LoopsIn(gs)) /\ Cardinality(LoopsIn(gs)) = n
      BY <1>9, <1>10, <1>11, <2>3, <3>1
    <3>3. "Condition" \in Frames(gs) <=> \E i \in 1..(k + 1) : as[i].phase = "cond"
      BY <1>6, <1>8, <2>3, <3>2
    <3> QED BY <1>4, <1>15, <3>2, <3>3 DEF Tells
  <2> QED BY <2>1, <2>2, <2>3
<1>16. CASE a.kind = "main"
  <2>1. a.phase # "cond" /\ F = <<>> BY <1>1, <1>16, FramesOfKind
  <2>2. gs = fs BY <1>1, <1>2, <1>9, <2>1
  <2>3. Around(as, k) = {}
    <3>1. \A i : i \notin 1..0 OBVIOUS
    <3> QED BY <1>16, <3>1 DEF Around
  <2>4. n = 0 BY <1>3, <2>3, FS_EmptySet
  <2>5. "main" \in Barriers BY DEF Barriers
  <2> QED BY <1>4, <1>6, <1>7, <1>8, <1>16, <2>1, <2>2, <2>4, <2>5 DEF Tells
<1> QED BY <1>13, <1>14, <1>15, <1>16

-----------------------------------------------------------------------------
(***************************************************************************)
(* The two stacks.                                                         *)
(***************************************************************************)

\* What does not depend on what is going on at the top of the stacks.
Stacked ==
    /\ acts \in Seq(Acts) /\ acts # <<>> /\ frames \in Seq(FrameTypes)
    /\ \A i \in 1..Len(acts) : /\ acts[i].kind = "main" <=> i = 1
                               /\ acts[i].phase \in Phases(acts[i].kind)
    /\ \A i \in 1..Len(acts) - 1 : acts[i].phase = "exit" <=> acts[i + 1].kind = "exittrap"
    /\ Layered /\ HeldTargeted

\* The part of the invariant about the two stacks.
LEMMA IsStacked == IInv => Stacked
BY DEF IInv, TypeOK, Shape, Stacked

\* Main is at the bottom; there is a top.
LEMMA StackIs ==
    ASSUME Stacked, NEW n, n = Len(acts)
    PROVE  /\ n \in Nat /\ n > 0 /\ n \in 1..n /\ acts \in [1..n -> Acts]
           /\ Top = acts[n] /\ Top \in Acts /\ Top.phase \in Phases(Top.kind)
           /\ Top.kind = "main" <=> n = 1
           /\ acts[1].kind = "main"
<1>1. n \in Nat /\ n > 0 /\ acts \in [1..n -> Acts] BY EmptySeq, LenProperties DEF Stacked
<1>2. n \in 1..n /\ 1 \in 1..n BY <1>1
<1> QED BY <1>1, <1>2 DEF Stacked, Top

\* The frames up to each construct tell the loops around it.
LEMMA LayersTell ==
    ASSUME Stacked, NEW n, n = Len(acts),
           NEW lay \in [0..n -> Seq(FrameTypes)], Laid(lay)
    PROVE  \A k \in 0..n : Tells(lay[k], acts, k)
<1>1. n \in Nat /\ n > 0 /\ acts \in [1..n -> Acts] BY StackIs
<1>2. PICK Bad : Bad = {k \in 0..n : ~Tells(lay[k], acts, k)} OBVIOUS
<1>3. SUFFICES ASSUME Bad # {} PROVE FALSE BY <1>2
<1>4. Bad \subseteq Nat BY <1>2
<1>5. PICK k \in Bad : \A y \in Bad : k <= y BY <1>3, <1>4, Smallest
<1>6. k \in 0..n /\ ~Tells(lay[k], acts, k) BY <1>2, <1>5
<1>7. CASE k = 0
  <2>1. \A i : i \notin 1..0 OBVIOUS
  <2>2. lay[0] = <<>> BY DEF Laid
  <2>3. Frames(<<>>) = {} /\ LoopsIn(<<>>) = {} /\ Around(acts, 0) = {}
    BY <2>1 DEF Frames, LoopsIn, Around
  <2>4. <<>> \in Seq(FrameTypes) OBVIOUS
  <2> QED BY <1>6, <1>7, <2>1, <2>2, <2>3, <2>4, FS_EmptySet DEF Tells
<1>8. CASE k # 0
  <2>1. PICK m : m = k - 1 OBVIOUS
  <2>2. m \in 0..n /\ m \in Nat /\ k = m + 1 /\ k \in 1..n BY <1>1, <1>6, <1>8, <2>1
  <2>3. Tells(lay[m], acts, m)
    <3>1. m \notin Bad BY <1>5, <2>2
    <3> QED BY <1>2, <2>2, <3>1
  <2>4. PICK a : a = acts[k] OBVIOUS
  <2>5. a \in Acts /\ a.phase \in Phases(a.kind) /\ (a.kind = "main" => m = 0)
    BY <1>1, <2>2, <2>4 DEF Stacked
  <2>6. lay[k] = lay[m] \o FramesOf(a.kind, a.phase) BY <2>1, <2>2, <2>4 DEF Laid
  <2>7. Tells(lay[k], acts, m + 1) BY <2>2, <2>3, <2>4, <2>5, <2>6, TellsNext
  <2> QED BY <1>6, <2>2, <2>7
<1> QED BY <1>7, <1>8

\* Taking away what was pushed last.
LEMMA DropPushed ==
    ASSUME NEW fs \in Seq(FrameTypes), NEW F \in Seq(FrameTypes), NEW gs, gs = fs \o F
    PROVE  Drop(gs, Len(F)) = fs /\ gs \in Seq(FrameTypes)
<1>1. /\ gs \in Seq(FrameTypes) /\ Len(gs) = Len(fs) + Len(F)
      /\ \A i \in 1..Len(fs) + Len(F) : gs[i] = IF i <= Len(fs) THEN fs[i] ELSE F[i - Len(fs)]
  BY ConcatProperties
<1>2. Len(fs) \in Nat /\ Len(F) \in Nat BY LenProperties
<1>3. PICK n : n = Len(fs) OBVIOUS
<1>4. Len(gs) - Len(F) = n BY <1>1, <1>2, <1>3
<1>5. \A i \in 1..n : gs[i] = fs[i] /\ fs[i] \in FrameTypes
  <2>1. \A i \in 1..n : i \in 1..Len(fs) + Len(F) /\ i <= Len(fs) BY <1>2, <1>3
  <2>2. \A i \in 1..n : fs[i] \in FrameTypes BY <1>3, ElementOfSeq
  <2> QED BY <1>1, <2>1, <2>2
<1>6. PICK hs : hs = SubSeq(gs, 1, n) OBVIOUS
<1>7. /\ hs \in Seq(FrameTypes)
      /\ Len(hs) = IF 1 <= n THEN n - 1 + 1 ELSE 0
      /\ \A i \in 1..n - 1 + 1 : hs[i] = gs[1 + i - 1]
  BY <1>2, <1>3, <1>5, <1>6, SubSeqProperties
<1>8. Len(hs) = n /\ \A i \in 1..n : hs[i] = fs[i] BY <1>2, <1>3, <1>5, <1>7
<1>9. hs = fs BY <1>3, <1>7, <1>8, SeqEqual
<1> QED BY <1>1, <1>4, <1>6, <1>9 DEF Drop

\* The stack without the frames of the top construct.
Rest == Drop(frames, Len(FramesOf(Top.kind, Top.phase)))

\* Rest is the stack without the frames of the top construct.
LEMMA RestIs ==
    ASSUME Stacked, NEW n, n = Len(acts),
           NEW lay \in [0..n -> Seq(FrameTypes)], Laid(lay)
    PROVE  /\ Rest = lay[n - 1] /\ Rest \in Seq(FrameTypes)
           /\ frames = Rest \o FramesOf(Top.kind, Top.phase)
           /\ Tells(Rest, acts, n - 1) /\ Tells(frames, acts, n)
<1>1. n \in Nat /\ n > 0 /\ n \in 1..n /\ Top = acts[n] /\ Top \in Acts /\ Top.phase \in Phases(Top.kind)
  BY StackIs
<1>2. PICK F : F = FramesOf(Top.kind, Top.phase) OBVIOUS
<1>3. F \in Seq(FrameTypes) BY <1>1, <1>2, FramesOfKind
<1>4. n - 1 \in 0..n /\ n \in 0..n BY <1>1
<1>5. PICK fs : fs = lay[n - 1] OBVIOUS
<1>6. fs \in Seq(FrameTypes) BY <1>4, <1>5
<1>7. frames = fs \o F BY <1>1, <1>2, <1>5 DEF Laid
<1>8. Drop(frames, Len(F)) = fs BY <1>3, <1>6, <1>7, DropPushed
<1>9. Tells(fs, acts, n - 1) /\ Tells(lay[n], acts, n) BY <1>4, <1>5, LayersTell
<1>10. lay[n] = frames BY DEF Laid
<1> QED BY <1>2, <1>5, <1>6, <1>7, <1>8, <1>9, <1>10 DEF Rest

\* The same, whatever the layers are.
LEMMA StacksTell ==
    ASSUME Stacked, NEW n, n = Len(acts)
    PROVE  /\ Rest \in Seq(FrameTypes) /\ frames = Rest \o FramesOf(Top.kind, Top.phase)
           /\ Tells(Rest, acts, n - 1) /\ Tells(frames, acts, n)
<1>1. PICK lay \in [0..n -> Seq(FrameTypes)] : Laid(lay) BY DEF Stacked, Layered
<1> QED BY <1>1, RestIs

-----------------------------------------------------------------------------
(***************************************************************************)
(* Steps of the stacks: the top construct changes, one is pushed, one is   *)
(* popped.                                                                 *)
(***************************************************************************)

\* The constructs up to the k-th stay, but for what they remember.
Same(as, bs, k) ==
    \A i \in 1..k : as[i].kind = bs[i].kind /\ as[i].phase = bs[i].phase /\ as[i].held = bs[i].held

\* A held divert finds its loop as long as what is below stays.
LEMMA HeldStays ==
    ASSUME NEW as, NEW bs, NEW k \in Nat, NEW i \in 1..k,
           \A j \in 1..k - 1 : as[j].kind = bs[j].kind, NEW r,
           Targeted(r, as, i - 1)
    PROVE  Targeted(r, bs, i - 1)
<1>1. PICK m : m = i - 1 OBVIOUS
<1>2. m \in Nat /\ \A j \in 1..m : j \in 1..k - 1 BY <1>1
<1>3. Around(as, m) = Around(bs, m) BY <1>2, AroundSame
<1> QED BY <1>1, <1>3 DEF Targeted

\* A range from 1 tells its length.
LEMMA SameRange ==
    ASSUME NEW m \in Nat, NEW n \in Nat, n > 0, 1..m = 1..n
    PROVE  m = n
<1>1. n \in 1..n OBVIOUS
<1>2. n <= m BY <1>1
<1>3. m \in 1..m BY <1>2
<1>4. m <= n BY <1>3
<1> QED BY <1>2, <1>4

\* A stack is a function.
LEMMA IsAStack ==
    ASSUME NEW n \in Nat, n > 0, NEW bs \in [1..n -> Acts]
    PROVE  bs \in Seq(Acts) /\ Len(bs) = n
<1>1. bs \in Seq(Acts) BY SeqDef
<1>2. Len(bs) \in Nat /\ DOMAIN bs = 1..Len(bs) BY <1>1, LenProperties
<1>3. DOMAIN bs = 1..n OBVIOUS
<1> QED BY <1>1, <1>2, <1>3, SameRange

\* The last construct of a stack is another one.
Changed(bs, as, n, a) ==
    /\ bs \in Seq(Acts) /\ Len(bs) = n
    /\ \A j \in 1..n : bs[j] = IF j = n THEN a ELSE as[j]

\* EXCEPT makes it so.
LEMMA Replaced ==
    ASSUME NEW as \in Seq(Acts), NEW n \in Nat, n > 0, n = Len(as), NEW a \in Acts,
           NEW bs, bs = [as EXCEPT ![n] = a]
    PROVE  Changed(bs, as, n, a)
<1>1. as \in [1..n -> Acts] BY LenProperties
<1>2. bs \in [1..n -> Acts] BY <1>1
<1>3. bs \in Seq(Acts) /\ Len(bs) = n BY <1>2, IsAStack
<1>4. \A j \in 1..n : bs[j] = IF j = n THEN a ELSE as[j] BY <1>1
<1> QED BY <1>3, <1>4 DEF Changed

\* The top construct changes its phase, and its frames with it.
LEMMA TopStep ==
    ASSUME Stacked, NEW n, n = Len(acts), NEW a \in Acts,
           a.kind = Top.kind, a.held = Top.held, a.phase \in Phases(a.kind),
           acts' = [acts EXCEPT ![n] = a],
           frames' = Rest \o FramesOf(a.kind, a.phase)
    PROVE  /\ Stacked' /\ Len(acts') = n /\ Top' = a
           /\ \A i \in 1..n - 1 : acts'[i] = acts[i]
           /\ \A i \in 1..n : acts'[i].kind = acts[i].kind /\ acts'[i].held = acts[i].held
<1>1. /\ n \in Nat /\ n > 0 /\ n \in 1..n /\ acts \in [1..n -> Acts]
      /\ Top = acts[n] /\ Top \in Acts
  BY StackIs
<1>2. acts \in Seq(Acts) BY DEF Stacked
<1>3. /\ acts' \in Seq(Acts) /\ Len(acts') = n
      /\ \A j \in 1..n : acts'[j] = IF j = n THEN a ELSE acts[j]
  <2>1. Changed(acts', acts, n, a) BY <1>1, <1>2, Replaced
  <2> QED BY <2>1 DEF Changed
<1>4. acts' # <<>> /\ Top' = a BY <1>1, <1>3, EmptySeq DEF Top
<1>5. \A i \in 1..n - 1 : acts'[i] = acts[i] BY <1>1, <1>3
<1>6. \A i \in 1..n : acts'[i].kind = acts[i].kind /\ acts'[i].held = acts[i].held
  BY <1>1, <1>3
<1>7. \A i \in 1..n : /\ acts'[i].kind = "main" <=> i = 1
                      /\ acts'[i].phase \in Phases(acts'[i].kind)
  BY <1>1, <1>3, <1>6 DEF Stacked
<1>8. \A i \in 1..n - 1 : acts'[i].phase = "exit" <=> acts'[i + 1].kind = "exittrap"
  <2>1. \A i \in 1..n - 1 : i \in 1..n /\ i + 1 \in 1..n BY <1>1
  <2> QED BY <1>5, <1>6, <2>1 DEF Stacked
<1>9. PICK F : F = FramesOf(a.kind, a.phase) OBVIOUS
<1>10. F \in Seq(FrameTypes) BY <1>9, FramesOfKind
<1>11. PICK lay \in [0..n -> Seq(FrameTypes)] : Laid(lay) BY DEF Stacked, Layered
<1>12. Rest = lay[n - 1] /\ Rest \in Seq(FrameTypes) BY <1>11, RestIs
<1>13. frames' \in Seq(FrameTypes) BY <1>9, <1>10, <1>12, ConcatProperties
<1>14. Layered'
  <2>1. PICK new : new = [lay EXCEPT ![n] = frames'] OBVIOUS
  <2>2. n \in 0..n BY <1>1
  <2>3. new \in [0..n -> Seq(FrameTypes)] BY <1>11, <1>13, <2>1, <2>2
  <2>4. new[n] = frames' /\ \A i \in 0..n - 1 : new[i] = lay[i] BY <1>1, <2>1, <2>2
  <2>5. new[0] = <<>>
    <3>1. 0 \in 0..n - 1 BY <1>1
    <3> QED BY <1>11, <2>4, <3>1 DEF Laid
  <2>6. ASSUME NEW i \in 1..n
        PROVE  new[i] = new[i - 1] \o FramesOf(acts'[i].kind, acts'[i].phase)
    <3>1. CASE i = n
      <4>1. n - 1 \in 0..n - 1 BY <1>1
      <4> QED BY <1>1, <1>3, <1>12, <2>4, <3>1, <4>1
    <3>2. CASE i # n
      <4>1. i \in 0..n - 1 /\ i - 1 \in 0..n - 1 /\ i \in 1..n - 1 BY <1>1, <3>2
      <4> QED BY <1>5, <1>11, <2>4, <4>1 DEF Laid
    <3> QED BY <3>1, <3>2
  <2>7. Laid(new)' BY <1>3, <2>4, <2>5, <2>6 DEF Laid
  <2> QED BY <1>3, <2>3, <2>7 DEF Layered
<1>15. HeldTargeted'
  <2>1. ASSUME NEW i \in 1..n, acts'[i].kind = "trap"
        PROVE  Targeted(acts'[i].held, acts', i - 1)
    <3>1. Targeted(acts[i].held, acts, i - 1) BY <1>6, <2>1 DEF Stacked, HeldTargeted
    <3>2. \A j \in 1..n - 1 : acts[j].kind = acts'[j].kind BY <1>5
    <3>3. Targeted(acts[i].held, acts', i - 1) BY <1>1, <3>1, <3>2, HeldStays
    <3> QED BY <1>6, <3>3
  <2> QED BY <1>3, <2>1 DEF HeldTargeted
<1>16. Stacked' BY <1>3, <1>4, <1>7, <1>8, <1>13, <1>14, <1>15 DEF Stacked
<1> QED BY <1>3, <1>4, <1>5, <1>6, <1>16

\* The top construct changes but for its frames.
LEMMA TopMarked ==
    ASSUME Stacked, NEW n, n = Len(acts), NEW a \in Acts,
           a.kind = Top.kind, a.held = Top.held, a.phase = Top.phase,
           acts' = [acts EXCEPT ![n] = a], UNCHANGED frames
    PROVE  /\ Stacked' /\ Len(acts') = n /\ Top' = a
           /\ Same(acts', acts, n)
<1>1. n \in Nat /\ Top.phase \in Phases(Top.kind) /\ Top = acts[n] BY StackIs
<1>2. frames' = Rest \o FramesOf(a.kind, a.phase) BY StacksTell
<1>3. /\ Stacked' /\ Len(acts') = n /\ Top' = a
      /\ \A i \in 1..n - 1 : acts'[i] = acts[i]
      /\ \A i \in 1..n : acts'[i].kind = acts[i].kind /\ acts'[i].held = acts[i].held
  BY <1>1, <1>2, TopStep
<1>4. \A i \in 1..n : i \in 1..n - 1 \/ i = n BY <1>1
<1>5. \A i \in 1..n : acts'[i].phase = acts[i].phase BY <1>1, <1>3, <1>4 DEF Top
<1> QED BY <1>3, <1>5 DEF Same

\* The construct a is pushed onto the top one, which becomes b.
Pushed(as, n, b, a) ==
    /\ as \in Seq(Acts) /\ Len(as) = n + 1
    /\ \A i \in 1..n - 1 : as[i] = acts[i]
    /\ as[n] = b /\ as[n + 1] = a

\* A construct put on the stack after a note in the one below it.
LEMMA PushedIs ==
    ASSUME Stacked, NEW n, n = Len(acts), NEW a \in Acts, NEW b \in Acts,
           NEW bs, bs = [acts EXCEPT ![n] = b]
    PROVE  Pushed(Append(bs, a), n, b, a)
<1>1. n \in Nat /\ n > 0 /\ n \in 1..n /\ acts \in [1..n -> Acts] BY StackIs
<1>2. acts \in Seq(Acts) BY DEF Stacked
<1>3. /\ bs \in Seq(Acts) /\ Len(bs) = n
      /\ \A j \in 1..n : bs[j] = IF j = n THEN b ELSE acts[j]
  <2>1. Changed(bs, acts, n, b) BY <1>1, <1>2, Replaced
  <2> QED BY <2>1 DEF Changed
<1>4. PICK as : as = Append(bs, a) OBVIOUS
<1>5. /\ as \in Seq(Acts) /\ Len(as) = n + 1 /\ as[n + 1] = a
      /\ \A j \in 1..n : as[j] = bs[j]
  BY <1>3, <1>4, AppendProperties
<1>6. \A i \in 1..n - 1 : as[i] = acts[i]
  <2>1. \A i \in 1..n - 1 : i \in 1..n /\ i # n BY <1>1
  <2> QED BY <1>3, <1>5, <2>1
<1>7. as[n] = b BY <1>1, <1>3, <1>5
<1> QED BY <1>4, <1>5, <1>6, <1>7 DEF Pushed

\* A construct is pushed.
LEMMA PushStep ==
    ASSUME Stacked, NEW n, n = Len(acts), NEW a \in Acts, NEW b \in Acts,
           b.kind = Top.kind, b.held = Top.held, b.phase \in Phases(b.kind),
           FramesOf(b.kind, b.phase) = FramesOf(Top.kind, Top.phase),
           a.kind # "main", a.phase \in Phases(a.kind),
           b.phase = "exit" <=> a.kind = "exittrap",
           a.kind = "trap" => Targeted(a.held, acts, n),
           Pushed(acts', n, b, a),
           frames' = frames \o FramesOf(a.kind, a.phase)
    PROVE  /\ Stacked' /\ Len(acts') = n + 1 /\ Top' = a
           /\ \A i \in 1..n - 1 : acts'[i] = acts[i]
           /\ \A i \in 1..n : acts'[i].kind = acts[i].kind /\ acts'[i].held = acts[i].held
           /\ acts'[n] = b /\ acts'[n + 1] = a
<1>1. /\ n \in Nat /\ n > 0 /\ n \in 1..n /\ acts \in [1..n -> Acts]
      /\ Top = acts[n] /\ Top \in Acts
  BY StackIs
<1>2. \A i \in 1..n - 1 : acts'[i] = acts[i] BY DEF Pushed
<1>3. acts'[n] = b BY DEF Pushed
<1>4. \A j \in 1..n : acts'[j] = IF j = n THEN b ELSE acts[j] BY <1>1, <1>2, <1>3
<1>5. acts' \in Seq(Acts) /\ Len(acts') = n + 1 /\ acts'[n + 1] = a BY DEF Pushed
<1>6. acts' # <<>> /\ Top' = a BY <1>1, <1>5, EmptySeq DEF Top
<1>7. \A i \in 1..n : acts'[i].kind = acts[i].kind /\ acts'[i].held = acts[i].held
  BY <1>1, <1>4, <1>5
<1>8. \A i \in 1..n + 1 : i \in 1..n \/ i = n + 1 BY <1>1
<1>9. \A i \in 1..n + 1 : /\ acts'[i].kind = "main" <=> i = 1
                          /\ acts'[i].phase \in Phases(acts'[i].kind)
  <2>1. \A i \in 1..n : /\ acts'[i].kind = "main" <=> i = 1
                        /\ acts'[i].phase \in Phases(acts'[i].kind)
    BY <1>4, <1>5, <1>7 DEF Stacked
  <2> QED BY <1>1, <1>5, <1>8, <2>1
<1>10. \A i \in 1..n + 1 - 1 : acts'[i].phase = "exit" <=> acts'[i + 1].kind = "exittrap"
  <2>1. \A i \in 1..n : i = n \/ (i \in 1..n - 1 /\ i + 1 \in 1..n) BY <1>1
  <2>2. \A i \in 1..n - 1 : acts'[i].phase = "exit" <=> acts'[i + 1].kind = "exittrap"
    BY <1>2, <1>7, <2>1 DEF Stacked
  <2>3. acts'[n].phase = "exit" <=> acts'[n + 1].kind = "exittrap" BY <1>5, <1>3
  <2>4. n + 1 - 1 = n BY <1>1
  <2> QED BY <2>1, <2>2, <2>3, <2>4
<1>11. PICK F : F = FramesOf(a.kind, a.phase) OBVIOUS
<1>12. F \in Seq(FrameTypes) BY <1>11, FramesOfKind
<1>13. PICK lay \in [0..n -> Seq(FrameTypes)] : Laid(lay) BY DEF Stacked, Layered
<1>14. frames' \in Seq(FrameTypes) BY <1>11, <1>12, ConcatProperties DEF Stacked
<1>15. Layered'
  <2>1. PICK new : new = [i \in 0..n + 1 |-> IF i = n + 1 THEN frames' ELSE lay[i]] OBVIOUS
  <2>2. \A i \in 0..n + 1 : i \in 0..n \/ i = n + 1 BY <1>1
  <2>3. new \in [0..n + 1 -> Seq(FrameTypes)] BY <1>13, <1>14, <2>1, <2>2
  <2>4. new[n + 1] = frames' /\ \A i \in 0..n : new[i] = lay[i]
    <3>1. n + 1 \in 0..n + 1 /\ \A i \in 0..n : i \in 0..n + 1 /\ i # n + 1 BY <1>1
    <3> QED BY <2>1, <3>1
  <2>5. new[0] = <<>>
    <3>1. 0 \in 0..n BY <1>1
    <3> QED BY <1>13, <2>4, <3>1 DEF Laid
  <2>6. lay[n] = frames BY <1>13 DEF Laid
  <2>7. ASSUME NEW i \in 1..n + 1
        PROVE  new[i] = new[i - 1] \o FramesOf(acts'[i].kind, acts'[i].phase)
    <3>1. CASE i = n + 1
      <4>1. n \in 0..n /\ i - 1 = n BY <1>1, <3>1
      <4>2. new[i] = frames' /\ new[i - 1] = frames BY <2>4, <2>6, <3>1, <4>1
      <4> QED BY <1>5, <3>1, <4>2
    <3>2. CASE i # n + 1
      <4>1. i \in 1..n BY <1>8, <3>2
      <4>2. i \in 0..n /\ i - 1 \in 0..n BY <1>1, <4>1
      <4>3. FramesOf(acts'[i].kind, acts'[i].phase) = FramesOf(acts[i].kind, acts[i].phase)
        BY <1>1, <1>4, <1>5, <4>1
      <4> QED BY <1>13, <2>4, <4>1, <4>2, <4>3 DEF Laid
    <3> QED BY <3>1, <3>2
  <2>8. Laid(new)' BY <1>5, <2>4, <2>5, <2>7 DEF Laid
  <2> QED BY <1>5, <2>3, <2>8 DEF Layered
<1>16. HeldTargeted'
  <2>1. ASSUME NEW i \in 1..n + 1, acts'[i].kind = "trap"
        PROVE  Targeted(acts'[i].held, acts', i - 1)
    <3>1. \A j \in 1..n + 1 - 1 : acts[j].kind = acts'[j].kind
      <4>1. n + 1 - 1 = n BY <1>1
      <4> QED BY <1>7, <4>1
    <3>2. Targeted(acts'[i].held, acts, i - 1)
      <4>1. CASE i = n + 1
        <5>1. i - 1 = n BY <1>1, <4>1
        <5> QED BY <1>5, <2>1, <4>1, <5>1
      <4>2. CASE i # n + 1
        <5>1. i \in 1..n BY <1>8, <4>2
        <5> QED BY <1>7, <2>1, <5>1 DEF Stacked, HeldTargeted
      <4> QED BY <4>1, <4>2
    <3>3. PICK k : k = n + 1 OBVIOUS
    <3>4. k \in Nat /\ i \in 1..k /\ \A j \in 1..k - 1 : acts[j].kind = acts'[j].kind
      BY <1>1, <3>1, <3>3
    <3> QED BY <3>2, <3>4, HeldStays
  <2> QED BY <1>5, <2>1 DEF HeldTargeted
<1>17. Stacked'
  <2>1. \A i \in 1..Len(acts') : /\ acts'[i].kind = "main" <=> i = 1
                                 /\ acts'[i].phase \in Phases(acts'[i].kind)
    <3>1. ASSUME NEW i \in 1..Len(acts')
          PROVE  /\ acts'[i].kind = "main" <=> i = 1
                 /\ acts'[i].phase \in Phases(acts'[i].kind)
      <4>1. i \in 1..n + 1 BY <1>5
      <4> QED BY <1>9, <4>1
    <3> QED BY <3>1
  <2>2. \A i \in 1..Len(acts') - 1 : acts'[i].phase = "exit" <=> acts'[i + 1].kind = "exittrap"
    BY <1>5, <1>10
  <2> QED BY <1>5, <1>6, <1>14, <1>15, <1>16, <2>1, <2>2 DEF Stacked
<1> QED BY <1>5, <1>6, <1>2, <1>3, <1>7, <1>17

\* The top construct is popped; the one below may remember something.
LEMMA PopStep ==
    ASSUME Stacked, NEW n, n = Len(acts), n > 1,
           acts' \in Seq(Acts), Len(acts') = n - 1, Same(acts', acts, n - 1),
           frames' = Rest
    PROVE  /\ Stacked' /\ Top'.kind = acts[n - 1].kind /\ Top'.phase = acts[n - 1].phase
           /\ Top'.phase = "exit" <=> Top.kind = "exittrap"
<1>1. n \in Nat /\ acts \in [1..n -> Acts] /\ Top = acts[n] BY StackIs
<1>2. acts' # <<>> BY <1>1, EmptySeq
<1>3. \A i \in 1..n - 1 : /\ acts'[i].kind = acts[i].kind /\ acts'[i].phase = acts[i].phase
                          /\ acts'[i].held = acts[i].held
  BY DEF Same
<1>4. \A i \in 1..n - 1 : i \in 1..n BY <1>1
<1>5. \A i \in 1..n - 1 : /\ acts'[i].kind = "main" <=> i = 1
                          /\ acts'[i].phase \in Phases(acts'[i].kind)
  BY <1>3, <1>4 DEF Stacked
<1>6. \A i \in 1..n - 1 - 1 : acts'[i].phase = "exit" <=> acts'[i + 1].kind = "exittrap"
  <2>1. \A i \in 1..n - 1 - 1 : i \in 1..n - 1 /\ i + 1 \in 1..n - 1 BY <1>1
  <2> QED BY <1>3, <2>1 DEF Stacked
<1>7. PICK lay \in [0..n -> Seq(FrameTypes)] : Laid(lay) BY DEF Stacked, Layered
<1>8. frames' = lay[n - 1] /\ frames' \in Seq(FrameTypes) BY <1>7, RestIs
<1>9. Layered'
  <2>1. PICK new : new = [i \in 0..n - 1 |-> lay[i]] OBVIOUS
  <2>2. \A i \in 0..n - 1 : i \in 0..n /\ new[i] = lay[i] BY <1>1, <2>1
  <2>3. new \in [0..n - 1 -> Seq(FrameTypes)] BY <1>7, <2>1, <2>2
  <2>4. 0 \in 0..n - 1 /\ n - 1 \in 0..n - 1 BY <1>1
  <2>5. new[0] = <<>> /\ new[n - 1] = frames' BY <1>7, <1>8, <2>2, <2>4 DEF Laid
  <2>6. ASSUME NEW i \in 1..n - 1
        PROVE  new[i] = new[i - 1] \o FramesOf(acts'[i].kind, acts'[i].phase)
    <3>1. i \in 0..n - 1 /\ i - 1 \in 0..n - 1 /\ i \in 1..n BY <1>1
    <3> QED BY <1>3, <1>7, <2>2, <3>1 DEF Laid
  <2>7. Laid(new)' BY <2>5, <2>6 DEF Laid
  <2> QED BY <2>3, <2>7 DEF Layered
<1>10. HeldTargeted'
  <2>1. ASSUME NEW i \in 1..n - 1, acts'[i].kind = "trap"
        PROVE  Targeted(acts'[i].held, acts', i - 1)
    <3>1. Targeted(acts'[i].held, acts, i - 1)
      BY <1>3, <1>4, <2>1 DEF Stacked, HeldTargeted
    <3>2. n - 1 \in Nat /\ \A j \in 1..n - 1 - 1 : j \in 1..n - 1 BY <1>1
    <3>3. \A j \in 1..n - 1 - 1 : acts[j].kind = acts'[j].kind BY <1>3, <3>2
    <3> QED BY <3>1, <3>2, <3>3, HeldStays
  <2> QED BY <2>1 DEF HeldTargeted
<1>11. n - 1 \in 1..n - 1 BY <1>1
<1>12. Top' = acts'[n - 1] BY DEF Top
<1>13. acts[n - 1].phase = "exit" <=> acts[n].kind = "exittrap"
  <2>1. n - 1 + 1 = n BY <1>1
  <2> QED BY <1>11, <2>1 DEF Stacked
<1>14. Stacked' BY <1>2, <1>5, <1>6, <1>8, <1>9, <1>10 DEF Stacked
<1> QED BY <1>1, <1>3, <1>11, <1>12, <1>13, <1>14

-----------------------------------------------------------------------------
(***************************************************************************)
(* Processes that are to end.                                              *)
(***************************************************************************)

\* A process is running, and which one it is does not depend on what is above
\* its subshell.
Runs(as, n, p) ==
    /\ p \in 1..n /\ as[p].kind \in {"main", "subshell"}
    /\ \A j \in p + 1..n : as[j].kind # "subshell"

\* Process is the last subshell, or main.
LEMMA ProcessRuns ==
    ASSUME NEW as, Len(as) \in Nat, Len(as) > 0, as[1].kind = "main"
    PROVE  Runs(as, Len(as), Process(as))
<1>1. PICK n : n = Len(as) OBVIOUS
<1>2. n \in Nat /\ n > 0 BY <1>1
<1>3. PICK S : S = {i \in 1..n : as[i].kind \in {"main", "subshell"}} OBVIOUS
<1>4. S \subseteq 0..n /\ S # {}
  <2>1. 1 \in 1..n BY <1>2
  <2>2. S \subseteq 1..n /\ 1 \in S BY <1>3, <2>1
  <2>3. 1..n \subseteq 0..n BY <1>2
  <2> QED BY <2>2, <2>3
<1>5. PICK i \in S : \A j \in S : j <= i BY <1>2, <1>4, Greatest
<1>6. i \in 1..n /\ as[i].kind \in {"main", "subshell"} BY <1>3, <1>5
<1>7. ASSUME NEW j \in i + 1..n PROVE as[j].kind # "subshell"
  <2>1. j \in 1..n /\ ~ (j <= i) BY <1>2, <1>6
  <2> QED BY <1>3, <1>5, <2>1
<1>8. \E q \in 1..n : /\ as[q].kind \in {"main", "subshell"}
                      /\ \A j \in q + 1..n : as[j].kind # "subshell"
  BY <1>6, <1>7
<1> QED BY <1>1, <1>8 DEF Process, Runs

\* There is only one such construct.
LEMMA ProcessUnique ==
    ASSUME NEW as, NEW n \in Nat, \A i \in 1..n : as[i].kind = "main" <=> i = 1,
           NEW p, NEW q, Runs(as, n, p), Runs(as, n, q)
    PROVE  p = q
<1>1. p \in 1..n /\ q \in 1..n BY DEF Runs
<1>2. ASSUME p < q PROVE FALSE
  <2>1. q \in p + 1..n /\ q # 1 BY <1>1, <1>2
  <2> QED BY <1>1, <2>1 DEF Runs
<1>3. ASSUME q < p PROVE FALSE
  <2>1. p \in q + 1..n /\ p # 1 BY <1>1, <1>3
  <2> QED BY <1>1, <2>1 DEF Runs
<1> QED BY <1>1, <1>2, <1>3

\* The process running now.
LEMMA RunningIs ==
    ASSUME Stacked, NEW n, n = Len(acts)
    PROVE  Runs(acts, n, Process(acts))
BY StackIs, ProcessRuns

\* Between two states, the process stays the same when no subshell comes or goes.
LEMMA ProcessStays ==
    ASSUME Stacked, Stacked', NEW k, k \in Nat, k >= 1, k <= Len(acts), k <= Len(acts'),
           \A i \in 1..k : acts'[i].kind = acts[i].kind,
           \A i \in k + 1..Len(acts) : acts[i].kind # "subshell",
           \A i \in k + 1..Len(acts') : acts'[i].kind # "subshell"
    PROVE  Process(acts)' = Process(acts)
<1>1. PICK n : n = Len(acts) OBVIOUS
<1>2. PICK m : m = Len(acts') OBVIOUS
<1>3. n \in Nat /\ n > 0 /\ acts[1].kind = "main" BY <1>1, StackIs
<1>4. m \in Nat BY <1>2, LenProperties DEF Stacked
<1>5. acts'[1].kind = "main" /\ 1 \in 1..n /\ 1 \in 1..m /\ m > 0 BY <1>1, <1>2, <1>3, <1>4
<1>6. Runs(acts, n, Process(acts)) BY <1>1, RunningIs
<1>7. Process(acts)' = Process(acts') BY DEF Process
<1>8. Runs(acts', m, Process(acts')) BY <1>2, <1>4, <1>5, ProcessRuns
<1>9. PICK p : p = Process(acts) OBVIOUS
<1>10. p \in 1..k
  <2>1. p \in 1..n /\ acts[p].kind \in {"main", "subshell"} BY <1>6, <1>9 DEF Runs
  <2>2. acts[p].kind = "main" => p = 1 BY <1>1, <2>1 DEF Stacked
  <2>3. ~ (p \in k + 1..n) \/ p = 1 BY <1>1, <2>1, <2>2
  <2> QED BY <1>3, <2>1, <2>3
<1>11. Runs(acts', m, p)
  <2>1. p \in 1..m /\ acts'[p].kind \in {"main", "subshell"}
    BY <1>2, <1>4, <1>6, <1>9, <1>10 DEF Runs
  <2>2. ASSUME NEW j \in p + 1..m PROVE acts'[j].kind # "subshell"
    <3>1. CASE j \in 1..k
      <4>1. j \in p + 1..n BY <1>1, <1>3, <1>10, <3>1
      <4> QED BY <1>6, <1>9, <3>1, <4>1 DEF Runs
    <3>2. CASE j \notin 1..k
      <4>1. j \in k + 1..m BY <1>4, <1>10, <3>2
      <4> QED BY <1>2, <4>1
    <3> QED BY <3>1, <3>2
  <2> QED BY <2>1, <2>2 DEF Runs
<1>12. \A i \in 1..m : acts'[i].kind = "main" <=> i = 1 BY <1>2 DEF Stacked
<1> QED BY <1>4, <1>7, <1>8, <1>9, <1>11, <1>12, ProcessUnique

\* A divert that ends a process is on its way.
Dooming == flow.at \in {"command", "divert"} /\ Dooms(R)

\* It waits for a trap action.
Delayed ==
    \E i \in doomed.p + 1..Len(acts) :
        acts[i].kind = "trap" /\ Dooms(acts[i].held) /\ SameProcess(doomed.p, i)

\* Nothing above the k-th construct changes the fate of a process.
LEMMA UnwindingKept ==
    ASSUME Stacked, Stacked', Unwinding, NEW n, n = Len(acts), NEW k \in {n - 1, n}, k >= 1,
           Same(acts', acts, k), k <= Len(acts'),
           \/ doomed' = doomed \/ doomed'.p = 0
           \/ doomed'.p = Process(acts)' /\ Dooming',
           Dooming' => Len(acts') = k,
           doomed' = doomed /\ k < n => doomed.p # n,
           doomed' = doomed /\ Dooming =>
               \/ Dooming' \/ ~SameProcess(doomed.p, n)
               \/ doomed.p # n /\ acts[doomed.p].phase = "exit"
               \/ Delayed',
           doomed' = doomed /\ k < n /\ Top.kind = "trap" /\ Dooms(Top.held) => Dooming'
    PROVE  Unwinding'
<1>1. n \in Nat /\ n > 0 /\ Top = acts[n] /\ k \in Nat BY StackIs
<1>2. PICK m : m = Len(acts') OBVIOUS
<1>3. PICK p : p = doomed'.p OBVIOUS
<1>4. SUFFICES ASSUME p # 0
               PROVE  /\ p \in 1..m /\ acts'[p].kind \in {"main", "subshell"}
                      /\ \/ acts'[p].phase = "exit"
                         \/ Dooming' /\ SameProcess(p, m)'
                         \/ \E i \in p + 1..m : /\ acts'[i].kind = "trap" /\ Dooms(acts'[i].held)
                                                /\ SameProcess(p, i)'
  BY <1>2, <1>3 DEF Unwinding, Dooming
<1>5. m \in Nat /\ k <= m BY <1>2, LenProperties DEF Stacked
<1>6. CASE p = Process(acts)' /\ Dooming'
  <2>1. m > 0 /\ acts'[1].kind = "main"
    <3>1. m > 0 BY <1>2, EmptySeq DEF Stacked
    <3>2. 1 \in 1..m BY <1>5, <3>1
    <3> QED BY <1>2, <3>1, <3>2 DEF Stacked
  <2>2. p = Process(acts') BY <1>6 DEF Process
  <2>3. /\ p \in 1..m /\ acts'[p].kind \in {"main", "subshell"}
        /\ \A j \in p + 1..m : acts'[j].kind # "subshell"
    BY <1>2, <1>5, <2>1, <2>2, ProcessRuns DEF Runs
  <2> QED BY <1>6, <2>3 DEF SameProcess
<1>7. CASE doomed' = doomed
  <2>1. /\ p \in 1..n /\ acts[p].kind \in {"main", "subshell"}
        /\ \/ acts[p].phase = "exit"
           \/ Dooming /\ SameProcess(p, n)
           \/ \E i \in p + 1..n :
                 acts[i].kind = "trap" /\ Dooms(acts[i].held) /\ SameProcess(p, i)
    BY <1>3, <1>4, <1>7 DEF Unwinding, Dooming
  <2>2. p \in 1..k /\ p \in 1..m BY <1>1, <1>3, <1>5, <1>7, <2>1
  <2>3. \A i \in 1..k : /\ acts'[i].kind = acts[i].kind /\ acts'[i].phase = acts[i].phase
                        /\ acts'[i].held = acts[i].held
    BY DEF Same
  <2>4. ASSUME NEW i \in Nat, NEW j \in Nat, i <= k, i <= j, SameProcess(p, j)
        PROVE  SameProcess(p, i)'
    <3>1. ASSUME NEW q \in p + 1..i PROVE acts'[q].kind # "subshell"
      <4>1. q \in 1..k /\ q \in p + 1..j BY <1>1, <2>1, <2>4
      <4> QED BY <2>3, <2>4, <4>1 DEF SameProcess
    <3> QED BY <3>1 DEF SameProcess
  <2>5. CASE acts[p].phase = "exit" BY <2>1, <2>2, <2>3, <2>5
  <2>6. CASE Dooming /\ SameProcess(p, n) /\ acts[p].phase # "exit"
    <3>1. CASE Delayed'
      <4>1. \E i \in p + 1..m : /\ acts'[i].kind = "trap" /\ Dooms(acts'[i].held)
                                 /\ SameProcess(p, i)'
        BY <1>2, <1>3, <3>1 DEF Delayed, Dooms, SameProcess
      <4> QED BY <2>1, <2>2, <2>3, <4>1
    <3>2. CASE Dooming'
      <4>1. m = k BY <1>2, <3>2
      <4>2. SameProcess(p, k)' BY <1>1, <2>4, <2>6
      <4> QED BY <2>1, <2>2, <2>3, <3>2, <4>1, <4>2
    <3> QED BY <1>3, <1>7, <2>6, <3>1, <3>2
  <2>7. ASSUME NEW i \in p + 1..n,
               acts[i].kind = "trap", Dooms(acts[i].held), SameProcess(p, i)
        PROVE  \/ Dooming' /\ SameProcess(p, m)'
               \/ \E j \in p + 1..m : /\ acts'[j].kind = "trap" /\ Dooms(acts'[j].held)
                                      /\ SameProcess(p, j)'
    <3>1. i \in Nat BY <1>1, <2>1
    <3>2. CASE i <= k
      <4>1. i \in 1..k /\ i \in p + 1..m BY <1>1, <1>5, <2>1, <3>2
      <4>2. SameProcess(p, i)' BY <2>4, <2>7, <3>1, <3>2
      <4> QED BY <2>3, <2>7, <4>1, <4>2
    <3>3. CASE ~ (i <= k)
      <4>1. i = n /\ k = n - 1 /\ k <= i BY <1>1, <2>1, <3>3
      <4>2. Dooming' /\ m = k BY <1>1, <1>2, <1>7, <2>7, <4>1
      <4>3. SameProcess(p, k)' BY <1>1, <2>4, <2>7, <3>1, <4>1
      <4> QED BY <4>2, <4>3
    <3> QED BY <3>2, <3>3
  <2> QED BY <2>1, <2>2, <2>3, <2>5, <2>6, <2>7
<1> QED BY <1>3, <1>4, <1>6, <1>7

-----------------------------------------------------------------------------
(***************************************************************************)
(* Results.                                                                *)
(***************************************************************************)

\* The fields of a Result; the diverts that end a process are the greatest.
LEMMA ResultFields ==
    ASSUME NEW r \in Results
    PROVE  /\ r.d \in {"none", "continue", "break", "return", "interrupt", "exit", "abort"}
           /\ r.n \in 0..MaxCount /\ r.n \in Nat /\ r.s \in Statuses \cup {None}
           /\ Rank(r.d) \in 0..6
           /\ Dooms(r) <=> Rank(r.d) >= 4
           /\ r.d = "none" <=> Rank(r.d) = 0
BY ExecutionAssumption DEF Results, Rank, Dooms

\* A Divert is a Result.
LEMMA DivertIs ==
    ASSUME NEW d \in {"none", "continue", "break", "return", "interrupt", "exit", "abort"},
           NEW n \in 0..MaxCount, NEW s \in Statuses \cup {None}
    PROVE  /\ Divert(d, n, s) \in Results /\ Divert(d, n, s).d = d /\ Divert(d, n, s).n = n
           /\ Divert(d, n, s).s = s
BY DEF Divert, Results

\* So is Continue.
LEMMA ContinueIs == Continue \in Results /\ Continue.d = "none" /\ Continue.s = None
BY ExecutionAssumption DEF Continue, Results

\* The result that ends more is kept.
LEMMA CombinedIs ==
    ASSUME NEW m \in Results, NEW t \in Results, NEW q, q = Combined(m, t)
    PROVE  /\ q \in {m, t}
           /\ Dooms(m) \/ Dooms(t) => Dooms(q)
           /\ q.d = "none" <=> m.d = "none" /\ t.d = "none"
<1>1. /\ Rank(m.d) \in 0..6 /\ (Dooms(m) <=> Rank(m.d) >= 4) /\ (m.d = "none" <=> Rank(m.d) = 0)
      /\ Rank(t.d) \in 0..6 /\ (Dooms(t) <=> Rank(t.d) >= 4) /\ (t.d = "none" <=> Rank(t.d) = 0)
  BY ResultFields
<1>2. CASE t.d = "none" BY <1>1, <1>2 DEF Combined
<1>3. CASE t.d # "none" /\ m.d = "none" BY <1>1, <1>3 DEF Combined
<1>4. CASE t.d # "none" /\ m.d # "none"
  <2>1. q = Greater(m, t) BY <1>4 DEF Combined
  <2>2. CASE AtLeast(m, t)
    <3>1. q = m /\ Rank(m.d) >= Rank(t.d) BY <1>1, <2>1, <2>2 DEF Greater, AtLeast
    <3> QED BY <1>1, <1>4, <3>1
  <2>3. CASE ~AtLeast(m, t)
    <3>1. q = t /\ Rank(t.d) >= Rank(m.d) BY <1>1, <2>1, <2>3 DEF Greater, AtLeast
    <3> QED BY <1>1, <1>4, <3>1
  <2> QED BY <2>2, <2>3
<1> QED BY <1>2, <1>3, <1>4

-----------------------------------------------------------------------------
(***************************************************************************)
(* The invariant in parts, and what is going on at the top.                *)
(***************************************************************************)

Flowing ==
    /\ flow \in Flows
    /\ Top.phase = "exit" => flow.at \in {"list", "end"}
    /\ flow.at \in {"list", "end"} => R.d = "none"
    /\ LoopTarget /\ ErrexitExact

Reasons == {"none", "errexit", "error", "exit", "abort", "sigint", "start"}
Settings ==
    /\ status \in Statuses
    /\ errexit \in BOOLEAN /\ interactive \in BOOLEAN
    /\ caught \subseteq {"trap", "int"} /\ signals \in 0..MaxSignals
    /\ doomed \in [p : Nat, why : Reasons]

\* The parts of the invariant.
LEMMA PartsOf == IInv => Stacked /\ Flowing /\ Settings /\ Unwinding
BY IsStacked DEF IInv, TypeOK, Shape, Flowing, Settings, Reasons

\* Its parts make it up.
LEMMA Whole == Stacked /\ Flowing /\ Settings /\ Unwinding => IInv
BY DEF IInv, TypeOK, Shape, Stacked, Flowing, Settings, Reasons

\* So they do after a step.
LEMMA WholeNext ==
    ASSUME Stacked', Flowing', Settings', Unwinding'
    PROVE  IInv'
BY DEF IInv, TypeOK, Shape, Stacked, Flowing, Settings, Reasons

\* The flow after a simple command.
LEMMA FlowIs ==
    ASSUME NEW r \in Results, NEW f, NEW simple, simple \in BOOLEAN,
           f = [At("command", r) EXCEPT !.simple = simple]
    PROVE  f \in Flows /\ f.at = "command" /\ f.r = r /\ f.simple = simple
BY DEF At, Flows

\* The flow otherwise.
LEMMA AtIs ==
    ASSUME NEW at \in {"list", "command", "divert", "end"}, NEW r \in Results
    PROVE  At(at, r) \in Flows /\ At(at, r).at = at /\ At(at, r).r = r
BY DEF At, Flows

\* No break or continue, no errexit: nothing to show of the flow.
LEMMA FlowingOn ==
    ASSUME flow' \in Flows, flow'.at \in {"list", "end"}, flow'.r.d = "none"
    PROVE  Flowing'
BY DEF Flowing, LoopTarget, ErrexitExact, R

\* A divert is passed up.
LEMMA FlowingUp ==
    ASSUME flow' \in Flows, flow'.at = "divert", Top'.phase # "exit",
           Targeted(flow'.r, acts', Len(acts'))
    PROVE  Flowing'
BY DEF Flowing, LoopTarget, ErrexitExact, R, Targeted, Around

\* A command has returned.
LEMMA FlowingBack ==
    ASSUME flow' \in Flows, flow'.at = "command", Top'.phase # "exit",
           Targeted(flow'.r, acts', Len(acts')),
           flow'.simple => (flow'.r.d = "exit" <=>
               /\ status' # SUCCESS /\ errexit'
               /\ \A i \in 1..Len(acts') : acts'[i].phase # "cond")
    PROVE  Flowing'
BY DEF Flowing, LoopTarget, ErrexitExact, R, Targeted, Around

\* What is noted about a process that is to end.
LEMMA DoomIs ==
    ASSUME Stacked, Settings, NEW r, NEW why \in Reasons, Doom(r, why)
    PROVE  /\ doomed' \in [p : Nat, why : Reasons]
           /\ doomed' = doomed \/ (Dooms(r) /\ doomed'.p = Process(acts))
<1>1. Process(acts) \in Nat
  <2>1. PICK n : n = Len(acts) OBVIOUS
  <2>2. n \in Nat /\ Runs(acts, n, Process(acts)) BY <2>1, StackIs, RunningIs
  <2> QED BY <2>2 DEF Runs
<1>2. PICK p : p = Process(acts) OBVIOUS
<1>3. [p |-> p, why |-> why] \in [p : Nat, why : Reasons] BY <1>1, <1>2
<1> QED BY <1>2, <1>3 DEF Doom, Settings

-----------------------------------------------------------------------------
(***************************************************************************)
(* Steps that leave the constructs in place.                               *)
(***************************************************************************)

\* A loop notes the exit status of its body.
LEMMA RanIs ==
    ASSUME Stacked, NEW n, n = Len(acts), NEW s \in Statuses, NEW as, as = Ran(s)
    PROVE  \E a \in Acts : /\ a.kind = Top.kind /\ a.phase = Top.phase /\ a.held = Top.held
                           /\ as = [acts EXCEPT ![n] = a]
<1>1. n \in 1..n /\ acts \in [1..n -> Acts] /\ Top = acts[n] /\ Top \in Acts BY StackIs
<1>2. PICK l : l = IF Top.kind \in Loops /\ Top.phase = "body" THEN s ELSE Top.last OBVIOUS
<1>3. l \in Statuses \cup {None} BY <1>1, <1>2 DEF Acts
<1>4. PICK a : a = [Top EXCEPT !.ran = TRUE, !.last = l] OBVIOUS
<1>5. a \in Acts /\ a.kind = Top.kind /\ a.phase = Top.phase /\ a.held = Top.held
  BY <1>1, <1>3, <1>4 DEF Acts
<1>6. as = [acts EXCEPT ![n] = a] BY <1>1, <1>2, <1>4 DEF Ran
<1> QED BY <1>5, <1>6

\* At most the top construct is marked as having run a command.
Marked == acts' = acts \/ \E s \in Statuses : acts' = Ran(s)

\* A step in which the top construct but notes something.
LEMMA MarkedStep ==
    ASSUME Stacked, NEW n, n = Len(acts), Marked, UNCHANGED frames
    PROVE  /\ Stacked' /\ Len(acts') = n /\ Same(acts', acts, n)
           /\ Top'.kind = Top.kind /\ Top'.phase = Top.phase
           /\ \A r : Targeted(r, acts, n) => Targeted(r, acts', n)
           /\ Tells(frames, acts', n)
           /\ Process(acts)' = Process(acts)
<1>1. n \in Nat /\ n > 0 /\ n \in 1..n /\ Top = acts[n] /\ Top \in Acts BY StackIs
<1>2. /\ Stacked' /\ Len(acts') = n /\ Same(acts', acts, n)
      /\ Top'.kind = Top.kind /\ Top'.phase = Top.phase
  <2>1. CASE acts' = acts
    BY <2>1 DEF Stacked, Same, Layered, Laid, HeldTargeted, Top
  <2>2. ASSUME NEW s \in Statuses, acts' = Ran(s)
        PROVE  /\ Stacked' /\ Len(acts') = n /\ Same(acts', acts, n)
               /\ Top'.kind = Top.kind /\ Top'.phase = Top.phase
    <3>1. PICK a \in Acts : /\ a.kind = Top.kind /\ a.phase = Top.phase /\ a.held = Top.held
                            /\ acts' = [acts EXCEPT ![n] = a]
      BY <2>2, RanIs
    <3> QED BY <3>1, TopMarked
  <2> QED BY <2>1, <2>2 DEF Marked
<1>3. \A i \in 1..n : acts'[i].kind = acts[i].kind /\ acts'[i].phase = acts[i].phase
  BY <1>2 DEF Same
<1>4. Around(acts, n) = Around(acts', n) BY <1>1, <1>3, AroundSame
<1>5. Tells(frames, acts', n)
  <2>1. Tells(frames, acts, n) BY StacksTell
  <2> QED BY <1>3, <1>4, <2>1 DEF Tells
<1>6. Process(acts)' = Process(acts)
  <2>1. \A i : i \notin n + 1..n BY <1>1
  <2> QED BY <1>1, <1>2, <1>3, <2>1, ProcessStays
<1> QED BY <1>2, <1>4, <1>5, <1>6 DEF Targeted

\* Such a step and the processes that are to end.
LEMMA MarkedUnwinding ==
    ASSUME Stacked, Unwinding, Marked, UNCHANGED frames,
           \/ doomed' = doomed \/ doomed'.p = 0
           \/ doomed'.p = Process(acts) /\ Dooming',
           doomed' = doomed /\ Dooming => Dooming'
    PROVE  Unwinding'
<1>1. PICK n : n = Len(acts) OBVIOUS
<1>2. n \in Nat /\ n > 0 /\ n \in {n - 1, n} BY <1>1, StackIs
<1>3. /\ Stacked' /\ Len(acts') = n /\ Same(acts', acts, n)
      /\ Process(acts)' = Process(acts)
  BY <1>1, MarkedStep
<1>4. n >= 1 /\ n <= n /\ ~ (n < n) BY <1>2
<1> QED BY <1>1, <1>2, <1>3, <1>4, UnwindingKept

\* A simple command has finished: what is left to show is that a break finds its
\* loop, and that errexit is exact.
LEMMA SimpleKeeps ==
    ASSUME IInv, NEW s \in Statuses, NEW r \in Results, NEW why \in Reasons,
           SimpleReturns(s, r, why), errexit' \in BOOLEAN,
           Targeted(r, acts, Len(acts)),
           why = "errexit" => r = ApplyErrexit(s, frames) /\ errexit' = errexit
    PROVE  IInv'
<1>1. PICK n : n = Len(acts) OBVIOUS
<1>2. Stacked /\ Flowing /\ Settings /\ Unwinding BY PartsOf
<1>3. flow.at = "list" /\ Top.phase # "exit" BY DEF SimpleReturns, CanRun
<1>4. Marked /\ UNCHANGED frames BY DEF SimpleReturns, Marked
<1>5. /\ Stacked' /\ Len(acts') = n /\ Top'.phase = Top.phase
      /\ \A q : Targeted(q, acts, n) => Targeted(q, acts', n)
      /\ Tells(frames, acts', n)
  BY <1>1, <1>2, <1>4, MarkedStep
<1>6. PICK simple : simple = (why = "errexit") OBVIOUS
<1>7. flow' = [At("command", r) EXCEPT !.simple = simple] BY <1>6 DEF SimpleReturns
<1>8. flow' \in Flows /\ flow'.at = "command" /\ flow'.r = r /\ flow'.simple = simple
  <2>1. simple \in BOOLEAN BY <1>6
  <2> QED BY <1>7, <2>1, FlowIs
<1>9. status' = s BY DEF SimpleReturns
<1>10. Flowing'
  <2>1. ASSUME why = "errexit"
        PROVE  r.d = "exit" <=> /\ s # SUCCESS /\ errexit
                                /\ \A i \in 1..n : acts'[i].phase # "cond"
    <3>1. "Condition" \in Frames(frames) <=> \E i \in 1..n : acts'[i].phase = "cond"
      BY <1>5 DEF Tells
    <3>2. r.d = "exit" <=> s # SUCCESS /\ ErrexitIsApplicable(errexit, frames)
      BY <2>1 DEF ApplyErrexit, Divert, Continue
    <3> QED BY <3>1, <3>2 DEF ErrexitIsApplicable
  <2> QED BY <1>1, <1>3, <1>5, <1>6, <1>8, <1>9, <2>1, FlowingBack
<1>11. /\ doomed' \in [p : Nat, why : Reasons]
       /\ doomed' = doomed \/ (Dooms(r) /\ doomed'.p = Process(acts))
  BY <1>2, DoomIs DEF SimpleReturns
<1>12. Settings' BY <1>2, <1>9, <1>11 DEF Settings, SimpleReturns
<1>13. Unwinding'
  <2>1. Dooms(r) => Dooming' BY <1>8 DEF Dooming, R
  <2>2. ~Dooming BY <1>3 DEF Dooming
  <2> QED BY <1>2, <1>4, <1>11, <2>1, <2>2, MarkedUnwinding
<1> QED BY <1>5, <1>10, <1>12, <1>13, WholeNext

\* The count of break and continue is that of the loops around them.
LEMMA LoopCountIs ==
    ASSUME Stacked, NEW max \in Nat, NEW c, c = LoopCount(frames \o <<"Builtin">>, max)
    PROVE  c \in 0..max /\ c <= Cardinality(Around(acts, Len(acts)))
<1>1. PICK n : n = Len(acts) OBVIOUS
<1>2. n \in Nat BY <1>1, StackIs
<1>3. Tells(frames, acts, n) BY <1>1, StacksTell
<1>4. frames \in Seq(FrameTypes) BY DEF Stacked
<1>5. "Builtin" \in FrameTypes /\ "Builtin" \notin HidingFrames BY DEF FrameTypes, HidingFrames
<1>6. PICK gs : gs = frames \o <<"Builtin">> OBVIOUS
<1>7. gs = Append(frames, "Builtin") BY <1>4, <1>5, <1>6, FramesPushed
<1>8. LoopsIn(gs) = LoopsIn(frames) BY <1>4, <1>5, <1>7, FramePushed
<1>9. PICK k : k = Cardinality(Around(acts, n)) OBVIOUS
<1>10. k \in Nat BY <1>2, <1>9, AroundFinite
<1>11. Cardinality(LoopsIn(gs)) = k BY <1>3, <1>8, <1>9 DEF Tells
<1>12. c = IF Cardinality(LoopsIn(gs)) < max THEN Cardinality(LoopsIn(gs)) ELSE max
  BY <1>6 DEF LoopCount, LoopsIn, Hiding, HidingFrames
<1> QED BY <1>1, <1>9, <1>10, <1>11, <1>12

\* What apply_errexit returns.
LEMMA ErrexitIs ==
    ASSUME NEW s, NEW fs, NEW r, r = ApplyErrexit(s, fs)
    PROVE  /\ r \in Results /\ r.d \in {"none", "exit"}
           /\ r.d = "exit" <=> s # SUCCESS /\ ErrexitIsApplicable(errexit, fs)
<1>1. 0 \in 0..MaxCount BY ExecutionAssumption
<1>2. /\ Divert("exit", 0, None) \in Results /\ Divert("exit", 0, None).d = "exit"
  BY <1>1, DivertIs
<1> QED BY <1>2, ContinueIs DEF ApplyErrexit

\* The divert of an error: exit, or interrupt if the shell is interactive.
LEMMA ErrorResultIs ==
    ErrorResult \in Results /\ ErrorResult.d \in {"exit", "interrupt"}
<1>1. 0 \in 0..MaxCount /\ FAILURE \in Statuses BY ExecutionAssumption DEF Statuses
<1>2. PICK d : d = IF ErrexitIsApplicable(errexit, frames) THEN "exit" ELSE "interrupt" OBVIOUS
<1>3. d \in {"exit", "interrupt"} BY <1>2
<1>4. ErrorResult = Divert(d, 0, FAILURE) BY <1>2 DEF ErrorResult
<1> QED BY <1>1, <1>3, <1>4, DivertIs

\* Simple commands: break, continue, return, exit, set, failing ones...
LEMMA LeafKeeps == ASSUME IInv, Leaf PROVE IInv'
<1>1. Stacked /\ Settings BY PartsOf
<1>2. /\ status \in Statuses /\ SUCCESS \in Statuses /\ FAILURE \in Statuses
      /\ errexit \in BOOLEAN /\ 0 \in 0..MaxCount
  BY <1>1, ExecutionAssumption DEF Settings, Statuses
<1>3. \A r : r.d \notin {"break", "continue"} => Targeted(r, acts, Len(acts)) BY DEF Targeted
<1>4. ASSUME NEW s \in Statuses, NEW d \in {"none", "return", "interrupt", "exit", "abort"},
             NEW q \in Statuses \cup {None}, NEW why \in Reasons \ {"errexit"},
             SimpleReturns(s, Divert(d, 0, q), why), errexit' \in BOOLEAN
      PROVE  IInv'
  <2>1. PICK r : r = Divert(d, 0, q) OBVIOUS
  <2>2. r \in Results /\ r.d = d BY <1>2, <2>1, DivertIs
  <2>3. Targeted(r, acts, Len(acts)) BY <1>3, <2>2
  <2> QED BY <1>4, <2>1, <2>2, <2>3, SimpleKeeps
<1>5. ASSUME NEW s \in Statuses, SimpleCommand(s) PROVE IInv'
  <2>1. PICK r : r = ApplyErrexit(s, frames) OBVIOUS
  <2>2. r \in Results /\ Targeted(r, acts, Len(acts)) BY <1>3, <2>1, ErrexitIs
  <2>3. SimpleReturns(s, r, "errexit") /\ errexit' = errexit BY <1>5, <2>1 DEF SimpleCommand
  <2> QED BY <1>2, <2>1, <2>2, <2>3, SimpleKeeps DEF Reasons
<1>6. ASSUME NEW s \in {None, FAILURE}, ReturnBuiltin(s) \/ ExitBuiltin(s) PROVE IInv'
  BY <1>2, <1>4, <1>6 DEF ReturnBuiltin, ExitBuiltin, Reasons
<1>7. ASSUME NEW d \in {"break", "continue"}, NEW max \in 1..MaxCount, BreakOrContinue(d, max),
             errexit' = errexit
      PROVE  IInv'
  <2>1. PICK c : c = LoopCount(frames \o <<"Builtin">>, max) OBVIOUS
  <2>2. PICK k : k = Cardinality(Around(acts, Len(acts))) OBVIOUS
  <2>3. k \in Nat
    <3>1. Len(acts) \in Nat BY LenProperties, <1>1 DEF Stacked
    <3> QED BY <2>2, <3>1, AroundFinite
  <2>4. c \in 0..max /\ c <= k /\ c <= MaxCount
    <3>1. max \in Nat /\ max <= MaxCount /\ MaxCount \in Nat BY ExecutionAssumption
    <3> QED BY <1>1, <2>1, <2>2, <3>1, LoopCountIs
  <2>5. CASE c = 0
    BY <1>2, <1>4, <1>7, <2>1, <2>5 DEF BreakOrContinue, Reasons
  <2>6. CASE c # 0
    <3>1. c - 1 \in 0..MaxCount /\ k > c - 1 BY <2>3, <2>4, <2>6, ExecutionAssumption
    <3>2. PICK r : r = Divert(d, c - 1, None) OBVIOUS
    <3>3. r \in Results /\ r.n = c - 1 BY <3>1, <3>2, DivertIs
    <3>4. Targeted(r, acts, Len(acts)) BY <2>2, <3>1, <3>3 DEF Targeted
    <3>5. SimpleReturns(SUCCESS, r, "none") BY <1>7, <2>1, <2>6, <3>2 DEF BreakOrContinue
    <3> QED BY <1>2, <1>7, <3>3, <3>4, <3>5, SimpleKeeps DEF Reasons
  <2> QED BY <2>5, <2>6
<1>8. ASSUME NEW max \in 1..MaxCount, BreakBuiltin(max) \/ ContinueBuiltin(max) PROVE IInv'
  BY <1>7, <1>8 DEF BreakBuiltin, ContinueBuiltin
<1>9. ASSUME NEW s \in Statuses, SimpleReturns(s, Continue, "none"), errexit' \in BOOLEAN
      PROVE  IInv'
  BY <1>3, <1>9, ContinueIs, SimpleKeeps DEF Reasons
<1>10. ASSUME NEW e \in BOOLEAN, SetErrexit(e) PROVE IInv'
  BY <1>2, <1>9, <1>10 DEF SetErrexit
<1>11. CASE ExpansionError
  <2>1. ErrorResult \in Results /\ Targeted(ErrorResult, acts, Len(acts))
    BY <1>3, ErrorResultIs
  <2> QED BY <1>2, <1>11, <2>1, SimpleKeeps DEF ExpansionError, Reasons
<1>12. CASE SpecialError \/ StartError \/ CommandHalts
  BY <1>2, <1>4, <1>12 DEF SpecialError, StartError, CommandHalts, Reasons
<1>13. CASE ExecFails
  <2>1. CASE IsInteractive
    <3>1. PICK r : r = ApplyErrexit(FAILURE, frames) OBVIOUS
    <3>2. r \in Results /\ Targeted(r, acts, Len(acts)) BY <1>3, <3>1, ErrexitIs
    <3>3. SimpleReturns(FAILURE, r, "abort") BY <1>13, <2>1, <3>1 DEF ExecFails
    <3>4. errexit' = errexit BY <1>13 DEF ExecFails
    <3> QED BY <1>2, <3>2, <3>3, <3>4, SimpleKeeps DEF Reasons
  <2>2. CASE ~IsInteractive
    BY <1>2, <1>4, <1>13, <2>2 DEF ExecFails, Reasons
  <2> QED BY <2>1, <2>2
<1>14. CASE NothingRuns BY <1>2, <1>9, <1>14 DEF NothingRuns
<1> QED
  BY <1>5, <1>6, <1>8, <1>10, <1>11, <1>12, <1>13, <1>14 DEF Leaf

-----------------------------------------------------------------------------
(***************************************************************************)
(* Constructs go on or are left.                                           *)
(***************************************************************************)

\* A construct that is no process and no trap.
Command == Top.kind \notin {"main", "subshell", "trap", "exittrap"}

\* The top construct goes on to a phase of it.
LEMMA GoOnKeeps ==
    ASSUME IInv, Command, NEW phase \in Phases(Top.kind), NEW saved \in Statuses,
           NEW jumped \in BOOLEAN, GoOn(phase, saved, jumped), ~Dooming,
           UNCHANGED <<status, doomed>>
    PROVE  IInv'
<1>1. PICK n : n = Len(acts) OBVIOUS
<1>2. Stacked /\ Settings /\ Unwinding BY PartsOf
<1>3. /\ n \in Nat /\ n > 0 /\ n \in 1..n /\ Top = acts[n] /\ Top \in Acts
      /\ Top.kind = "main" <=> n = 1
  BY <1>1, <1>2, StackIs
<1>4. n > 1 BY <1>3 DEF Command
<1>5. PICK a : a = [Top EXCEPT !.phase = phase, !.ran = FALSE, !.saved = saved,
                               !.jumped = Top.jumped \/ jumped]
  OBVIOUS
<1>6. phase \in {"cond", "body", "exit"} BY DEF Phases
<1>7. a \in Acts /\ a.kind = Top.kind /\ a.held = Top.held /\ a.phase = phase
  BY <1>3, <1>5, <1>6 DEF Acts
<1>8. acts' = [acts EXCEPT ![n] = a] BY <1>1, <1>5 DEF GoOn
<1>9. frames' = Rest \o FramesOf(a.kind, a.phase) BY <1>7 DEF GoOn, Rest
<1>10. /\ Stacked' /\ Len(acts') = n
       /\ \A i \in 1..n - 1 : acts'[i] = acts[i]
  BY <1>1, <1>2, <1>7, <1>8, <1>9, TopStep
<1>11. flow' \in Flows /\ flow'.at = "list" /\ flow'.r.d = "none"
  BY AtIs, ContinueIs DEF GoOn, Ready
<1>12. Flowing' BY <1>11, FlowingOn
<1>13. Settings' BY <1>2 DEF Settings, GoOn
<1>14. Unwinding'
  <2>1. PICK k : k = n - 1 OBVIOUS
  <2>2. k \in {n - 1, n} /\ k >= 1 /\ k <= Len(acts') BY <1>4, <1>3, <1>10, <2>1
  <2>3. Same(acts', acts, k) BY <1>10, <2>1 DEF Same
  <2>4. ~Dooming' BY <1>11 DEF Dooming
  <2>5. doomed.p # n BY <1>1, <1>2, <1>3 DEF Unwinding, Command
  <2> QED BY <1>1, <1>2, <1>10, <2>2, <2>3, <2>4, <2>5, UnwindingKept DEF Command
<1> QED BY <1>10, <1>12, <1>13, <1>14, WholeNext

\* The constructs below the top one.
LEMMA BelowIs ==
    ASSUME Stacked, NEW n, n = Len(acts), n > 1, NEW as, as = Below
    PROVE  /\ as \in Seq(Acts) /\ Len(as) = n - 1
           /\ \A i \in 1..n - 1 : as[i] = acts[i]
<1>1. n \in Nat /\ acts \in [1..n -> Acts] BY StackIs
<1>2. PICK m : m = n - 1 OBVIOUS
<1>3. m \in Nat /\ m >= 1 BY <1>1, <1>2
<1>4. acts \in Seq(Acts) /\ \A i \in 1..m : acts[i] \in Acts
  <2>1. \A i \in 1..m : i \in 1..n BY <1>1, <1>2
  <2> QED BY <1>1, <2>1 DEF Stacked
<1>5. as = SubSeq(acts, 1, m) BY <1>2 DEF Below
<1>6. /\ as \in Seq(Acts)
      /\ Len(as) = IF 1 <= m THEN m - 1 + 1 ELSE 0
      /\ \A i \in 1..m - 1 + 1 : as[i] = acts[1 + i - 1]
  BY <1>3, <1>4, <1>5, SubSeqProperties
<1> QED BY <1>2, <1>3, <1>6

\* The top construct is gone.
Popped ==
    /\ Len(acts) > 1 /\ Len(acts') = Len(acts) - 1
    /\ acts' \in Seq(Acts) /\ Same(acts', acts, Len(acts) - 1)
    /\ frames' = Rest

\* A step in which the top construct is popped.
LEMMA PoppedStep ==
    ASSUME Stacked, Popped, NEW n, n = Len(acts), NEW m, m = n - 1
    PROVE  /\ Stacked' /\ Len(acts') = m /\ m \in Nat /\ m \in 1..m /\ m < n
           /\ Top'.phase = "exit" <=> Top.kind = "exittrap"
           /\ Tells(frames', acts', m)
           /\ \A r : Targeted(r, acts, m) => Targeted(r, acts', m)
           /\ Top.kind # "subshell" => Process(acts)' = Process(acts)
<1>1. n \in Nat /\ n > 1 /\ Len(acts') = n - 1 /\ Top = acts[n] BY StackIs DEF Popped
<1>2. m \in Nat /\ m \in 1..m /\ m < n BY <1>1
<1>3. Stacked' /\ (Top'.phase = "exit" <=> Top.kind = "exittrap") BY PopStep DEF Popped
<1>4. \A i \in 1..m : acts'[i].kind = acts[i].kind /\ acts'[i].phase = acts[i].phase
  BY DEF Popped, Same
<1>5. Around(acts, m) = Around(acts', m) BY <1>2, <1>4, AroundSame
<1>6. Tells(frames', acts', m)
  <2>1. Tells(frames', acts, m) BY StacksTell DEF Popped
  <2> QED BY <1>4, <1>5, <2>1 DEF Tells
<1>7. ASSUME Top.kind # "subshell" PROVE Process(acts)' = Process(acts)
  <2>1. m >= 1 /\ m <= Len(acts) /\ m <= Len(acts') BY <1>1
  <2>2. \A i \in m + 1..Len(acts) : acts[i].kind # "subshell"
    <3>1. \A i \in m + 1..n : i = n BY <1>1
    <3> QED BY <1>1, <1>7, <3>1
  <2>3. \A i : i \notin m + 1..Len(acts') BY <1>1
  <2> QED BY <1>2, <1>3, <1>4, <2>1, <2>2, <2>3, ProcessStays
<1> QED BY <1>1, <1>2, <1>3, <1>5, <1>6, <1>7 DEF Targeted

\* Such a step and the processes that are to end.
LEMMA PoppedUnwinding ==
    ASSUME Stacked, Unwinding, Popped, Top.kind # "subshell",
           \/ doomed' = doomed
           \/ doomed'.p = Process(acts) /\ Dooming',
           doomed' = doomed /\ Dooming =>
               \/ Dooming' \/ ~SameProcess(doomed.p, Len(acts))
               \/ doomed.p # Len(acts) /\ acts[doomed.p].phase = "exit",
           doomed' = doomed /\ Top.kind = "trap" /\ Dooms(Top.held) => Dooming'
    PROVE  Unwinding'
<1>1. PICK n : n = Len(acts) OBVIOUS
<1>2. PICK m : m = n - 1 OBVIOUS
<1>3. n \in Nat /\ Top = acts[n] /\ (Top.kind = "main" <=> n = 1) BY <1>1, StackIs
<1>4. n > 1 BY <1>1 DEF Popped
<1>5. /\ Stacked' /\ Len(acts') = m /\ m \in Nat /\ m \in 1..m /\ m < n
      /\ Process(acts)' = Process(acts)
  BY <1>1, <1>2, PoppedStep
<1>6. m \in {n - 1, n} /\ m >= 1 /\ m <= Len(acts') BY <1>2, <1>5
<1>7. Same(acts', acts, m) BY <1>1, <1>2 DEF Popped
<1>8. doomed.p # n BY <1>1, <1>3, <1>4 DEF Unwinding
<1> QED BY <1>1, <1>5, <1>6, <1>7, <1>8, UnwindingKept

\* A command is left.
LEMMA LeaveKeeps ==
    ASSUME IInv, Command, NEW s \in Statuses, NEW r \in Results, NEW simple, simple \in BOOLEAN,
           Leave(s, r, simple), errexit' = errexit,
           Targeted(r, acts, Len(acts) - 1),
           simple => r = ApplyErrexit(s, Rest),
           doomed' \in [p : Nat, why : Reasons],
           doomed' = doomed \/ (doomed'.p = Process(acts) /\ Dooms(r)),
           Dooming => Dooms(r)
    PROVE  IInv'
<1>1. PICK n : n = Len(acts) OBVIOUS
<1>2. PICK m : m = n - 1 OBVIOUS
<1>3. Stacked /\ Settings /\ Unwinding BY PartsOf
<1>4. n \in Nat /\ n > 0 /\ Top \in Acts /\ (Top.kind = "main" <=> n = 1) BY <1>1, <1>3, StackIs
<1>5. n > 1 BY <1>4 DEF Command
<1>6. acts' = Below BY DEF Leave
<1>7. Popped
  <2>1. /\ acts' \in Seq(Acts) /\ Len(acts') = n - 1
        /\ \A i \in 1..n - 1 : acts'[i] = acts[i]
    BY <1>1, <1>3, <1>5, <1>6, BelowIs
  <2>2. frames' = Rest BY DEF Leave, Rest
  <2> QED BY <1>1, <1>5, <2>1, <2>2 DEF Popped, Same
<1>8. /\ Stacked' /\ Len(acts') = m
      /\ Top'.phase # "exit"
      /\ Tells(frames', acts', m)
      /\ Targeted(r, acts', m)
  BY <1>1, <1>2, <1>3, <1>7, PoppedStep DEF Command
<1>9. flow' \in Flows /\ flow'.at = "command" /\ flow'.r = r /\ flow'.simple = simple
  <2>1. PICK l : l = IF /\ r.d = "none" /\ Top.kind \in Loops
                        /\ ~(flow.at = "divert" /\ Top.phase = "cond")
                     THEN (IF Top.last = None THEN SUCCESS ELSE Top.last) ELSE None
    OBVIOUS
  <2>2. l \in Statuses \cup {None} BY <1>4, <2>1 DEF Acts, Statuses
  <2>3. Top.jumped \in BOOLEAN BY <1>4 DEF Acts
  <2>4. flow' = [At("command", r) EXCEPT !.simple = simple, !.jumped = Top.jumped, !.promise = l]
    BY <2>1 DEF Leave
  <2> QED BY <2>2, <2>3, <2>4 DEF At, Flows
<1>10. status' = s BY DEF Leave
<1>11. Flowing'
  <2>1. ASSUME simple
        PROVE  r.d = "exit" <=> /\ s # SUCCESS /\ errexit
                                /\ \A i \in 1..m : acts'[i].phase # "cond"
    <3>1. "Condition" \in Frames(frames') <=> \E i \in 1..m : acts'[i].phase = "cond"
      BY <1>8 DEF Tells
    <3>2. frames' = Rest BY <1>7 DEF Popped
    <3>3. r.d = "exit" <=> s # SUCCESS /\ ErrexitIsApplicable(errexit, Rest)
      BY <2>1, ErrexitIs
    <3> QED BY <3>1, <3>2, <3>3 DEF ErrexitIsApplicable
  <2> QED BY <1>8, <1>9, <1>10, <2>1, FlowingBack
<1>12. Settings' BY <1>3, <1>10 DEF Settings, Leave
<1>13. Unwinding'
  <2>1. Dooms(r) => Dooming' BY <1>9 DEF Dooming, R
  <2> QED BY <1>3, <1>7, <2>1, PoppedUnwinding DEF Command
<1> QED BY <1>8, <1>11, <1>12, <1>13, WholeNext

\* LeaveItem returns to a list, or passes a divert on.
LEMMA LeaveItemKeeps ==
    ASSUME IInv, Command, NEW s \in Statuses, NEW r \in Results,
           LeaveItem(s, r), UNCHANGED <<errexit, doomed>>,
           Targeted(r, acts, Len(acts) - 1), Dooming => Dooms(r)
    PROVE  IInv'
<1>1. PICK n : n = Len(acts) OBVIOUS
<1>2. PICK m : m = n - 1 OBVIOUS
<1>3. Stacked /\ Settings /\ Unwinding BY PartsOf
<1>4. n \in Nat /\ n > 0 /\ Top \in Acts /\ (Top.kind = "main" <=> n = 1) BY <1>1, <1>3, StackIs
<1>5. n > 1 /\ m \in Nat /\ m \in 1..m BY <1>2, <1>4 DEF Command
<1>6. PICK as : as = Below OBVIOUS
<1>7. as \in Seq(Acts) /\ Len(as) = m /\ \A i \in 1..m : as[i] = acts[i]
  BY <1>1, <1>2, <1>3, <1>5, <1>6, BelowIs
<1>8. as \in [1..m -> Acts] /\ as[m] \in Acts BY <1>5, <1>7, LenProperties
<1>9. Popped
  <2>1. PICK l : l = IF as[m].kind \in Loops /\ as[m].phase = "body" THEN s ELSE as[m].last
    OBVIOUS
  <2>2. l \in Statuses \cup {None} BY <1>8, <2>1 DEF Acts
  <2>3. PICK a : a = [as[m] EXCEPT !.last = l] OBVIOUS
  <2>4. a \in Acts /\ a.kind = as[m].kind /\ a.phase = as[m].phase /\ a.held = as[m].held
    BY <1>8, <2>2, <2>3 DEF Acts
  <2>5. acts' = [as EXCEPT ![m] = a] BY <1>6, <1>7, <2>1, <2>3 DEF LeaveItem
  <2>6. /\ acts' \in Seq(Acts) /\ Len(acts') = m
        /\ \A j \in 1..m : acts'[j] = IF j = m THEN a ELSE as[j]
    <3>1. m \in Nat /\ m > 0 /\ m = Len(as) BY <1>4, <1>5, <1>7
    <3>2. as \in Seq(Acts) /\ a \in Acts BY <1>7, <2>4
    <3>3. Changed(acts', as, m, a) BY <2>5, <3>1, <3>2, Replaced
    <3> QED BY <3>3 DEF Changed
  <2>7. Same(acts', acts, m) BY <1>7, <2>4, <2>6 DEF Same
  <2>8. frames' = Rest BY DEF LeaveItem, Rest
  <2> QED BY <1>1, <1>2, <1>5, <2>6, <2>7, <2>8 DEF Popped
<1>10. /\ Stacked' /\ Len(acts') = m
       /\ Top'.phase # "exit"
       /\ Targeted(r, acts', m)
  BY <1>1, <1>2, <1>3, <1>9, PoppedStep DEF Command
<1>11. PICK at : at = IF r.d = "none" THEN "list" ELSE "divert" OBVIOUS
<1>12. at \in {"list", "divert"} /\ (at = "divert" <=> r.d # "none") BY <1>11
<1>13. flow' \in Flows /\ flow'.at = at /\ flow'.r = r
  <2>1. flow' = At(at, r) BY <1>11 DEF LeaveItem
  <2> QED BY <1>12, <2>1, AtIs
<1>14. Flowing' BY <1>10, <1>12, <1>13, FlowingOn, FlowingUp
<1>15. Settings' BY <1>3 DEF Settings, LeaveItem
<1>16. Unwinding'
  <2>1. Dooms(r) => r.d # "none" BY DEF Dooms
  <2>2. Dooms(r) => Dooming' BY <1>12, <1>13, <2>1 DEF Dooming, R
  <2> QED BY <1>3, <1>9, <2>2, PoppedUnwinding DEF Command
<1> QED BY <1>10, <1>14, <1>15, <1>16, WholeNext

\* What is left of a break or continue outside the construct it has reached.
LEMMA TargetBelow ==
    ASSUME IInv, flow.at = "divert", NEW n, n = Len(acts)
    PROVE  /\ R \in Results
           /\ R.d \notin {"break", "continue"} => Targeted(R, acts, n - 1)
           /\ Top.kind \in Barriers => R.d \notin {"break", "continue"}
           /\ Top.kind \notin Loops \cup Barriers => Targeted(R, acts, n - 1)
           /\ Top.kind \in Loops /\ R.d \in {"break", "continue"} /\ R.n > 0 =>
                 /\ [R EXCEPT !.n = @ - 1] \in Results
                 /\ Targeted([R EXCEPT !.n = @ - 1], acts, n - 1)
<1>1. Stacked /\ Flowing BY PartsOf
<1>2. n \in Nat /\ n > 0 /\ Top = acts[n] BY <1>1, StackIs
<1>3. R \in Results BY <1>1 DEF Flowing, Flows, R
<1>4. R.n \in 0..MaxCount /\ R.n \in Nat BY <1>3, ResultFields
<1>5. PICK m : m = n - 1 OBVIOUS
<1>6. m \in Nat BY <1>2, <1>5
<1>7. PICK k : k = Cardinality(Around(acts, n)) OBVIOUS
<1>8. PICK l : l = Cardinality(Around(acts, m)) OBVIOUS
<1>9. k \in Nat /\ l \in Nat BY <1>2, <1>6, <1>7, <1>8, AroundFinite
<1>10. /\ Top.kind \in Barriers => k = 0
       /\ Top.kind \in Loops => k = l + 1
       /\ Top.kind \notin Loops \cup Barriers => k = l
  BY <1>2, <1>5, <1>7, <1>8, CountAround
<1>11. R.d \in {"break", "continue"} => k > R.n
  BY <1>1, <1>7 DEF Flowing, LoopTarget, Targeted
<1>12. Top.kind \in Barriers => R.d \notin {"break", "continue"} BY <1>4, <1>10, <1>11
<1>13. Top.kind \notin Loops \cup Barriers => Targeted(R, acts, n - 1)
  BY <1>5, <1>8, <1>10, <1>11 DEF Targeted
<1>14. ASSUME Top.kind \in Loops, R.d \in {"break", "continue"}, R.n > 0
       PROVE  /\ [R EXCEPT !.n = @ - 1] \in Results
              /\ Targeted([R EXCEPT !.n = @ - 1], acts, n - 1)
  <2>1. R.n - 1 \in 0..MaxCount /\ l > R.n - 1
    BY <1>4, <1>9, <1>10, <1>11, <1>14, ExecutionAssumption
  <2>2. PICK r : r = [R EXCEPT !.n = R.n - 1] OBVIOUS
  <2>3. r \in Results /\ r.n = R.n - 1 BY <1>3, <2>1, <2>2 DEF Results
  <2>4. Targeted(r, acts, n - 1) BY <1>5, <1>8, <2>1, <2>3 DEF Targeted
  <2> QED BY <2>2, <2>3, <2>4
<1> QED BY <1>3, <1>12, <1>13, <1>14 DEF Targeted

\* A list ends.
LEMMA EndKeeps ==
    ASSUME IInv,
           \/ EndLoopCondition \/ EndLoopBody \/ NextValue \/ EndFor \/ EndCase
           \/ EndIfCondition \/ EndIfBody \/ EndNot \/ EndAndOr
           \/ \E runs \in BOOLEAN : EndAndOrCondition(runs)
    PROVE  IInv'
<1>1. Stacked /\ Flowing /\ Settings /\ Unwinding BY PartsOf
<1>2. PICK n : n = Len(acts) OBVIOUS
<1>3. Top \in Acts BY <1>1, StackIs
<1>4. /\ Top.saved \in Statuses /\ status \in Statuses
      /\ SUCCESS \in Statuses /\ FAILURE \in Statuses
  BY <1>1, <1>3 DEF Acts, Settings, Statuses
<1>5. /\ ListEnds /\ flow.at = "list" /\ doomed' = doomed
      /\ Top.kind \in {"while", "until", "for", "case", "if", "not", "andor"}
  BY DEF EndLoopCondition, EndLoopBody, NextValue, EndFor, EndCase, EndIfCondition, EndIfBody,
         EndNot, EndAndOr, EndAndOrCondition, ListEnds
<1>6. Command /\ ~Dooming BY <1>5 DEF Command, Dooming
<1>7. "body" \in Phases(Top.kind) \/ Top.kind = "not" BY <1>5 DEF Phases
<1>8. Top.kind \in {"while", "until", "if", "andor"} => "cond" \in Phases(Top.kind) BY DEF Phases
<1>9. ASSUME NEW phase \in Phases(Top.kind), NEW saved \in Statuses,
             GoOn(phase, saved, FALSE), status' = status
      PROVE  IInv'
  BY <1>5, <1>6, <1>9, GoOnKeeps
<1>10. Targeted(Continue, acts, Len(acts) - 1) BY ContinueIs DEF Targeted
<1>11. ASSUME NEW s \in Statuses, Leave(s, Continue, FALSE), errexit' = errexit PROVE IInv'
  <2>1. doomed' \in [p : Nat, why : Reasons] BY <1>1, <1>5 DEF Settings
  <2> QED BY <1>5, <1>6, <1>10, <1>11, <2>1, ContinueIs, LeaveKeeps
<1>12. ASSUME NEW s \in Statuses, LeaveItem(s, Continue), errexit' = errexit PROVE IInv'
  BY <1>5, <1>6, <1>10, <1>12, ContinueIs, LeaveItemKeeps
<1>13. CASE EndLoopCondition
  BY <1>4, <1>7, <1>9, <1>11, <1>13 DEF EndLoopCondition
<1>14. CASE EndLoopBody BY <1>4, <1>8, <1>9, <1>14 DEF EndLoopBody
<1>15. CASE NextValue BY <1>4, <1>7, <1>9, <1>15 DEF NextValue
<1>16. CASE EndFor BY <1>4, <1>11, <1>16 DEF EndFor
<1>17. CASE EndCase BY <1>4, <1>7, <1>9, <1>11, <1>17 DEF EndCase
<1>18. CASE EndIfCondition BY <1>4, <1>7, <1>8, <1>9, <1>11, <1>18 DEF EndIfCondition
<1>19. CASE EndIfBody BY <1>4, <1>11, <1>19 DEF EndIfBody
<1>20. CASE EndNot BY <1>4, <1>12, <1>20 DEF EndNot
<1>21. CASE EndAndOr BY <1>4, <1>12, <1>21 DEF EndAndOr
<1>22. ASSUME NEW runs \in BOOLEAN, EndAndOrCondition(runs) PROVE IInv'
  BY <1>4, <1>7, <1>8, <1>9, <1>12, <1>22 DEF EndAndOrCondition
<1> QED
  BY <1>13, <1>14, <1>15, <1>16, <1>17, <1>18, <1>19, <1>20, <1>21, <1>22

\* A function, eval or dot script ends, or a for loop cannot go on.
LEMMA EndFailingKeeps ==
    ASSUME IInv, EndSimple \/ ForAssignError
    PROVE  IInv'
<1>1. Stacked /\ Flowing /\ Settings BY PartsOf
<1>2. flow.at = "list" /\ errexit' = errexit /\ Top.kind \in {"for", "function", "eval", "dot"}
  BY DEF EndSimple, ForAssignError
<1>3. Command /\ ~Dooming BY <1>2 DEF Command, Dooming
<1>4. \A r : r.d \notin {"break", "continue"} => Targeted(r, acts, Len(acts) - 1) BY DEF Targeted
<1>5. CASE EndSimple
  <2>1. PICK s : s = IF Top.ran THEN status ELSE SUCCESS OBVIOUS
  <2>2. s \in Statuses BY <1>1, <2>1 DEF Settings, Statuses
  <2>3. PICK r : r = AfterSimple(s) OBVIOUS
  <2>4. Leave(s, r, TRUE) /\ Doom(r, "errexit") BY <1>5, <2>1, <2>3 DEF EndSimple
  <2>5. r = ApplyErrexit(s, Rest) BY <2>3 DEF AfterSimple, Rest
  <2>6. r \in Results /\ Targeted(r, acts, Len(acts) - 1) BY <1>4, <2>5, ErrexitIs
  <2>7. /\ doomed' \in [p : Nat, why : Reasons]
        /\ doomed' = doomed \/ (Dooms(r) /\ doomed'.p = Process(acts))
    BY <1>1, <2>4, DoomIs DEF Reasons
  <2> QED BY <1>2, <1>3, <2>2, <2>4, <2>5, <2>6, <2>7, LeaveKeeps
<1>6. CASE ForAssignError
  <2>1. PICK r : r = ErrorResult OBVIOUS
  <2>2. r \in Results /\ Targeted(r, acts, Len(acts) - 1) BY <1>4, <2>1, ErrorResultIs
  <2>3. Leave(status, r, FALSE) /\ Doom(r, "error") BY <1>6, <2>1 DEF ForAssignError
  <2>4. /\ doomed' \in [p : Nat, why : Reasons]
        /\ doomed' = doomed \/ (Dooms(r) /\ doomed'.p = Process(acts))
    BY <1>1, <2>3, DoomIs DEF Reasons
  <2>5. status \in Statuses BY <1>1 DEF Settings
  <2> QED BY <1>2, <1>3, <2>2, <2>3, <2>4, <2>5, LeaveKeeps
<1> QED BY <1>5, <1>6

\* A divert reaches a construct that is no trap and no process.
LEMMA DivertKeeps ==
    ASSUME IInv, DivertLoop \/ DivertIf \/ DivertItem \/ DivertSimple
    PROVE  IInv'
<1>1. Stacked /\ Flowing /\ Settings BY PartsOf
<1>2. PICK n : n = Len(acts) OBVIOUS
<1>3. /\ flow.at = "divert"
      /\ Top.kind \in Loops \cup {"if", "case", "not", "andor", "function", "eval", "dot"}
  BY DEF DivertLoop, DivertIf, DivertItem, DivertSimple, Diverted
<1>4. Command BY <1>3 DEF Command, Loops
<1>5. Top \in Acts BY <1>1, StackIs
<1>6. status \in Statuses /\ Top.saved \in Statuses BY <1>1, <1>5 DEF Settings, Acts
<1>7. /\ R \in Results
      /\ R.d \notin {"break", "continue"} => Targeted(R, acts, n - 1)
      /\ Top.kind \in Barriers => R.d \notin {"break", "continue"}
      /\ Top.kind \notin Loops \cup Barriers => Targeted(R, acts, n - 1)
      /\ Top.kind \in Loops /\ R.d \in {"break", "continue"} /\ R.n > 0 =>
            /\ [R EXCEPT !.n = @ - 1] \in Results
            /\ Targeted([R EXCEPT !.n = @ - 1], acts, n - 1)
  BY <1>2, <1>3, TargetBelow
<1>8. Dooming <=> Dooms(R) BY <1>3 DEF Dooming
<1>9. R.d \in {"none", "continue", "break", "return"} => ~Dooming BY <1>8 DEF Dooms
<1>10. ASSUME doomed' = doomed PROVE doomed' \in [p : Nat, why : Reasons]
  BY <1>1, <1>10 DEF Settings
<1>11. ASSUME NEW r \in Results, Leave(status, r, FALSE), UNCHANGED <<errexit, doomed>>,
              Targeted(r, acts, n - 1), Dooming => Dooms(r)
       PROVE  IInv'
  BY <1>2, <1>4, <1>6, <1>10, <1>11, LeaveKeeps
<1>12. Continue \in Results /\ Targeted(Continue, acts, n - 1) BY ContinueIs DEF Targeted
<1>13. CASE DivertLoop
  <2>1. doomed' = doomed /\ Top.kind \in Loops BY <1>13 DEF DivertLoop, Diverted
  <2>2. ASSUME Leave(status, Continue, FALSE), errexit' = errexit, R.d \in {"break", "continue"}
        PROVE  IInv'
    BY <1>9, <1>11, <1>12, <2>1, <2>2
  <2>3. ASSUME NEW phase \in {"cond", "body"}, phase = "body" <=> Top.kind = "for",
               NEW jumped \in BOOLEAN, GoOn(phase, Top.saved, jumped), status' = status,
               R.d = "continue"
        PROVE  IInv'
    <3>1. phase \in Phases(Top.kind) BY <2>1, <2>3 DEF Phases, Loops
    <3> QED BY <1>4, <1>6, <1>9, <2>1, <2>3, <3>1, GoOnKeeps
  <2>4. ASSUME R.d \in {"break", "continue"}, R.n > 0,
               Leave(status, [R EXCEPT !.n = @ - 1], FALSE), errexit' = errexit
        PROVE  IInv'
    <3>1. ~Dooming BY <1>9, <2>4
    <3> QED BY <1>7, <1>11, <2>1, <2>4, <3>1
  <2>5. ASSUME R.d \notin {"break", "continue"}, Leave(status, R, FALSE), errexit' = errexit
        PROVE  IInv'
    BY <1>7, <1>8, <1>11, <2>1, <2>5
  <2>6. ASSUME R.d = "continue", Top.kind # "for", status' = status,
               GoOn("cond", Top.saved, Top.phase = "body")
        PROVE  IInv'
    <3>1. PICK jumped : jumped = (Top.phase = "body") OBVIOUS
    <3>2. jumped \in BOOLEAN /\ GoOn("cond", Top.saved, jumped) BY <2>6, <3>1
    <3> QED BY <2>3, <2>6, <3>2
  <2> QED BY <1>13, <2>2, <2>3, <2>4, <2>5, <2>6 DEF DivertLoop
<1>14. CASE DivertIf
  <2>1. Targeted(R, acts, n - 1) BY <1>7, <1>14 DEF DivertIf, Loops, Barriers
  <2> QED BY <1>7, <1>8, <1>11, <1>14, <2>1 DEF DivertIf, Diverted
<1>15. CASE DivertItem
  <2>1. Targeted(R, acts, n - 1) BY <1>7, <1>15 DEF DivertItem, Loops, Barriers
  <2> QED BY <1>2, <1>4, <1>6, <1>7, <1>8, <1>15, <2>1, LeaveItemKeeps DEF DivertItem, Diverted
<1>16. CASE DivertSimple
  <2>1. errexit' = errexit /\ Top.kind \in {"function", "eval", "dot"} BY <1>16 DEF DivertSimple
  <2>2. Targeted(R, acts, n - 1)
    <3>1. Top.kind \notin Loops BY <2>1 DEF Loops
    <3> QED BY <1>7, <3>1
  <2>3. CASE Consumed(Top.kind, R)
    <3>1. PICK s : s = IF R.s = None THEN status ELSE R.s OBVIOUS
    <3>2. s \in Statuses BY <1>6, <1>7, <3>1, ResultFields
    <3>3. PICK r : r = AfterSimple(s) OBVIOUS
    <3>4. Leave(s, r, TRUE) /\ Doom(r, "errexit") BY <1>16, <2>3, <3>1, <3>3 DEF DivertSimple
    <3>5. r = ApplyErrexit(s, Rest) BY <3>3 DEF AfterSimple, Rest
    <3>6. r \in Results /\ Targeted(r, acts, n - 1)
      BY <3>5, ErrexitIs DEF Targeted
    <3>7. /\ doomed' \in [p : Nat, why : Reasons]
          /\ doomed' = doomed \/ (Dooms(r) /\ doomed'.p = Process(acts))
      BY <1>1, <3>4, DoomIs DEF Reasons
    <3>8. ~Dooming BY <1>9, <2>3 DEF Consumed
    <3> QED BY <1>2, <1>4, <2>1, <3>2, <3>4, <3>5, <3>6, <3>7, <3>8, LeaveKeeps
  <2>4. CASE ~Consumed(Top.kind, R)
    BY <1>7, <1>8, <1>11, <1>16, <2>1, <2>2, <2>4 DEF DivertSimple
  <2> QED BY <2>3, <2>4
<1> QED BY <1>13, <1>14, <1>15, <1>16

-----------------------------------------------------------------------------
(***************************************************************************)
(* Constructs are entered.                                                 *)
(***************************************************************************)

\* A new construct.
LEMMA ActIs ==
    ASSUME NEW kind \in AllConstructs \cup ReadEvalLoops, NEW phase \in {"cond", "body", "exit"},
           NEW saved \in Statuses, NEW held \in Results
    PROVE  /\ Act(kind, phase, saved, held) \in Acts
           /\ Act(kind, phase, saved, held).kind = kind
           /\ Act(kind, phase, saved, held).phase = phase
           /\ Act(kind, phase, saved, held).held = held
BY DEF Act, Acts

\* a is entered from the top construct, marked as b.
LEMMA PushKeeps ==
    ASSUME Stacked, Settings, Unwinding, NEW n, n = Len(acts),
           NEW a \in Acts, NEW b \in Acts,
           b.kind = Top.kind, b.held = Top.held, b.phase = Top.phase, Top.phase # "exit",
           a.kind \notin {"main", "exittrap"}, a.phase \in Phases(a.kind),
           a.kind = "trap" => Targeted(a.held, acts, n),
           Dooming => a.kind = "trap" /\ Dooms(a.held),
           Pushed(acts', n, b, a),
           frames' = frames \o FramesOf(a.kind, a.phase),
           flow' \in Flows, flow'.at = "list", flow'.r.d = "none",
           caught' \subseteq {"trap", "int"},
           UNCHANGED <<status, errexit, interactive, signals, doomed>>
    PROVE  IInv'
<1>1. n \in Nat /\ n > 0 /\ Top = acts[n] /\ Top.phase \in Phases(Top.kind) BY StackIs
<1>2. /\ Stacked' /\ Len(acts') = n + 1
      /\ \A i \in 1..n - 1 : acts'[i] = acts[i]
      /\ acts'[n] = b /\ acts'[n + 1] = a
  <2>1. /\ b.phase \in Phases(b.kind)
        /\ FramesOf(b.kind, b.phase) = FramesOf(Top.kind, Top.phase)
        /\ b.phase = "exit" <=> a.kind = "exittrap"
    BY <1>1
  <2>2. a.kind # "main" OBVIOUS
  <2> QED BY <2>1, <2>2, PushStep, ZenonT(30)
<1>3. Flowing' BY FlowingOn
<1>4. Settings' BY DEF Settings
<1>5. Same(acts', acts, n)
  <2>1. \A i \in 1..n : i = n \/ i \in 1..n - 1 BY <1>1
  <2> QED BY <1>1, <1>2, <2>1 DEF Same
<1>6. ASSUME Dooming, doomed.p # 0 PROVE ~SameProcess(doomed.p, n) \/ Delayed'
  <2>1. doomed.p \in 1..n BY <1>6 DEF Unwinding
  <2>2. PICK p : p = doomed.p OBVIOUS
  <2>3. n + 1 \in p + 1..n + 1 BY <1>1, <2>1, <2>2
  <2>4. ASSUME SameProcess(p, n) PROVE SameProcess(p, n + 1)'
    <3>1. ASSUME NEW j \in p + 1..n + 1 PROVE acts'[j].kind # "subshell"
      <4>1. CASE j = n + 1 BY <1>2, <1>6, <4>1
      <4>2. CASE j # n + 1
        <5>1. j \in p + 1..n /\ j \in 1..n BY <1>1, <2>1, <2>2, <4>2
        <5> QED BY <1>5, <2>4, <5>1 DEF SameProcess, Same
      <4> QED BY <4>1, <4>2
    <3> QED BY <3>1 DEF SameProcess
  <2>5. ASSUME SameProcess(p, n) PROVE Delayed'
    <3>1. SameProcess(p, n + 1)' /\ doomed'.p = p BY <2>2, <2>4, <2>5
    <3>2. acts'[n + 1].kind = "trap" /\ Dooms(acts'[n + 1].held) BY <1>2, <1>6
    <3> QED BY <1>2, <2>3, <3>1, <3>2 DEF Delayed, Dooms, SameProcess
  <2> QED BY <2>2, <2>5
<1>7. Unwinding'
  <2>1. ~Dooming' BY DEF Dooming
  <2>2. CASE doomed.p = 0 BY <2>2 DEF Unwinding
  <2>3. CASE doomed.p # 0
    <3>1. n \in {n - 1, n} /\ n >= 1 /\ n <= Len(acts') /\ ~ (n < n) BY <1>1, <1>2
    <3> QED BY <1>2, <1>5, <1>6, <2>1, <2>3, <3>1, UnwindingKept
  <2> QED BY <2>2, <2>3
<1> QED BY <1>2, <1>3, <1>4, <1>7, WholeNext

\* A command is entered.
LEMMA EnterKeeps ==
    ASSUME IInv, NEW kind \in Constructs, Enter(kind)
    PROVE  IInv'
<1>1. Stacked /\ Flowing /\ Settings /\ Unwinding BY PartsOf
<1>2. PICK n : n = Len(acts) OBVIOUS
<1>3. n \in 1..n /\ acts \in [1..n -> Acts] /\ Top = acts[n] /\ Top \in Acts
  BY <1>1, <1>2, StackIs
<1>4. kind \in AllConstructs BY ExecutionAssumption
<1>5. FirstPhase(kind) \in Phases(kind) /\ FirstPhase(kind) \in {"cond", "body"}
  BY <1>4 DEF FirstPhase, Phases, AllConstructs, Loops
<1>6. PICK saved : saved = IF kind = "subshell" THEN status ELSE SUCCESS OBVIOUS
<1>7. saved \in Statuses BY <1>1, <1>6 DEF Settings, Statuses
<1>8. PICK a : a = Act(kind, FirstPhase(kind), saved, Continue) OBVIOUS
<1>9. a \in Acts /\ a.kind = kind /\ a.phase = FirstPhase(kind)
  BY <1>4, <1>5, <1>7, <1>8, ActIs, ContinueIs
<1>10. PICK b : b = [Top EXCEPT !.ran = TRUE] OBVIOUS
<1>11. b \in Acts /\ b.kind = Top.kind /\ b.held = Top.held /\ b.phase = Top.phase
  BY <1>3, <1>10 DEF Acts
<1>12. Pushed(acts', n, b, a)
  <2>1. PICK bs : bs = [acts EXCEPT ![n] = b] OBVIOUS
  <2>2. acts' = Append(bs, a) BY <1>2, <1>3, <1>6, <1>8, <1>10, <2>1 DEF Enter
  <2>3. Pushed(Append(bs, a), n, b, a) BY <1>1, <1>2, <1>9, <1>11, <2>1, PushedIs
  <2> QED BY <2>2, <2>3
<1>13. flow.at = "list" /\ Top.phase # "exit" BY DEF Enter, CanRun
<1>14. kind \notin {"main", "exittrap", "trap"} BY <1>4 DEF AllConstructs, Loops
<1>15. flow' \in Flows /\ flow'.at = "list" /\ flow'.r.d = "none"
  BY <1>1, <1>13 DEF Flowing, Enter, R
<1>16. ~Dooming BY <1>13 DEF Dooming
<1>17. frames' = frames \o FramesOf(a.kind, a.phase) BY <1>9 DEF Enter
<1>18. /\ caught' \subseteq {"trap", "int"}
       /\ UNCHANGED <<status, errexit, interactive, signals, doomed>>
  BY <1>1 DEF Enter, Settings
<1>19. a.phase \in Phases(a.kind) /\ a.kind \notin {"main", "exittrap", "trap"}
  BY <1>5, <1>9, <1>14
<1> QED
  BY <1>1, <1>2, <1>9, <1>11, <1>12, <1>13, <1>15, <1>16, <1>17, <1>18, <1>19, PushKeeps

-----------------------------------------------------------------------------
(***************************************************************************)
(* Traps.                                                                  *)
(***************************************************************************)

\* A signal is caught, or nothing happens.
LEMMA QuietKeeps ==
    ASSUME IInv, UNCHANGED <<acts, frames, flow, status, errexit, interactive, doomed>>,
           caught' \subseteq {"trap", "int"}, signals' \in 0..MaxSignals
    PROVE  IInv'
<1>1. Stacked /\ Flowing /\ Settings /\ Unwinding BY PartsOf
<1>2. Stacked' BY <1>1 DEF Stacked, Layered, Laid, HeldTargeted
<1>3. Flowing' BY <1>1 DEF Flowing, LoopTarget, ErrexitExact, Top, R
<1>4. Settings' BY <1>1 DEF Settings
<1>5. Unwinding' BY <1>1 DEF Unwinding, R, SameProcess
<1> QED BY <1>2, <1>3, <1>4, <1>5, WholeNext

\* A signal is caught.
LEMMA CatchKeeps ==
    ASSUME IInv, NEW what \in {"trap", "int"}, Catch(what)
    PROVE  IInv'
<1>1. Settings BY PartsOf
<1>2. signals + 1 \in 0..MaxSignals BY <1>1, ExecutionAssumption DEF Catch, Settings
<1> QED BY <1>1, <1>2, QuietKeeps DEF Catch, Settings

\* A command returns and no signal has been caught.
LEMMA CommandReturnsKeeps ==
    ASSUME IInv, CommandReturns
    PROVE  IInv'
<1>1. Stacked /\ Flowing /\ Settings /\ Unwinding BY PartsOf
<1>2. PICK n : n = Len(acts) OBVIOUS
<1>3. flow.at = "command" BY DEF CommandReturns
<1>4. R \in Results /\ Targeted(R, acts, n) BY <1>1, <1>2, <1>3 DEF Flowing, Flows, R, LoopTarget
<1>5. Marked /\ UNCHANGED frames BY <1>1 DEF CommandReturns, Marked, Settings
<1>6. /\ Stacked' /\ Len(acts') = n /\ Top'.phase = Top.phase
      /\ Targeted(R, acts', n)
  BY <1>1, <1>2, <1>4, <1>5, MarkedStep
<1>7. Top.phase # "exit" BY <1>1, <1>3 DEF Flowing
<1>8. PICK at : at = IF R.d = "none" THEN "list" ELSE "divert" OBVIOUS
<1>9. at \in {"list", "divert"} /\ (at = "divert" <=> R.d # "none") BY <1>8
<1>10. flow' \in Flows /\ flow'.at = at /\ flow'.r = R
  <2>1. flow' = At(at, R) BY <1>8 DEF CommandReturns
  <2> QED BY <1>4, <1>9, <2>1, AtIs
<1>11. Flowing' BY <1>6, <1>7, <1>9, <1>10, FlowingOn, FlowingUp
<1>12. Settings' BY <1>1 DEF Settings, CommandReturns
<1>13. Unwinding'
  <2>1. Dooms(R) => R.d # "none" BY DEF Dooms
  <2>2. R' = R BY <1>10 DEF R
  <2>3. Dooms(R') <=> Dooms(R) BY <2>2
  <2>4. Dooming => Dooming' BY <1>9, <1>10, <2>1, <2>3 DEF Dooming, Dooms
  <2>5. doomed' = doomed BY DEF CommandReturns
  <2> QED BY <1>1, <1>5, <2>4, <2>5, MarkedUnwinding
<1> QED BY <1>6, <1>11, <1>12, <1>13, WholeNext

\* SIGINT interrupts the command line.
LEMMA InterruptKeeps ==
    ASSUME IInv, InterruptCommand
    PROVE  IInv'
<1>1. Stacked /\ Flowing /\ Settings /\ Unwinding BY PartsOf
<1>2. PICK n : n = Len(acts) OBVIOUS
<1>3. R \in Results BY <1>1 DEF Flowing, Flows, R
<1>4. PICK i : i = Divert("interrupt", 0, FAILURE) OBVIOUS
<1>5. i \in Results /\ i.d = "interrupt"
  <2>1. 0 \in 0..MaxCount /\ FAILURE \in Statuses BY ExecutionAssumption DEF Statuses
  <2> QED BY <1>4, <2>1, DivertIs
<1>6. PICK r : r = Combined(R, i) OBVIOUS
<1>7. r \in Results /\ Dooms(r)
  <2>1. Dooms(i) BY <1>5 DEF Dooms
  <2> QED BY <1>3, <1>5, <1>6, <2>1, CombinedIs
<1>8. flow' = At("divert", r) /\ Doom(r, "sigint") BY <1>4, <1>6 DEF InterruptCommand
<1>9. flow' \in Flows /\ flow'.at = "divert" /\ flow'.r = r BY <1>7, <1>8, AtIs
<1>10. Marked /\ UNCHANGED frames BY <1>1 DEF InterruptCommand, Marked, Settings
<1>11. Targeted(r, acts, n) BY <1>7 DEF Targeted, Dooms
<1>12. Stacked' /\ Len(acts') = n /\ Top'.phase = Top.phase /\ Targeted(r, acts', n)
  BY <1>1, <1>2, <1>10, <1>11, MarkedStep
<1>13. Top.phase # "exit"
  BY <1>1 DEF InterruptCommand, AtTrapPoint, Flowing
<1>14. Flowing' BY <1>9, <1>12, <1>13, FlowingUp
<1>15. /\ doomed' \in [p : Nat, why : Reasons]
       /\ doomed' = doomed \/ (Dooms(r) /\ doomed'.p = Process(acts))
  BY <1>1, <1>8, DoomIs DEF Reasons
<1>16. Settings' BY <1>1, <1>15 DEF Settings, InterruptCommand
<1>17. Unwinding'
  <2>1. Dooming' BY <1>7, <1>9 DEF Dooming, R, Dooms
  <2> QED BY <1>1, <1>10, <1>15, <2>1, MarkedUnwinding
<1> QED BY <1>12, <1>14, <1>16, <1>17, WholeNext

\* A trap action begins; it holds the result of the command before it.
LEMMA RunTrapKeeps ==
    ASSUME IInv, RunTrap
    PROVE  IInv'
<1>1. Stacked /\ Flowing /\ Settings /\ Unwinding BY PartsOf
<1>2. PICK n : n = Len(acts) OBVIOUS
<1>3. n \in 1..n /\ acts \in [1..n -> Acts] /\ Top = acts[n] /\ Top \in Acts
  BY <1>1, <1>2, StackIs
<1>4. R \in Results /\ Targeted(R, acts, n)
  BY <1>1, <1>2 DEF Flowing, Flows, R, LoopTarget, RunTrap, AtTrapPoint, Targeted
<1>5. flow.at \in {"command", "list"} /\ Top.phase # "exit"
  BY <1>1 DEF Flowing, RunTrap, AtTrapPoint
<1>6. Dooming => Dooms(R) BY DEF Dooming
<1>7. PICK a : a = Act("trap", "body", status, R) OBVIOUS
<1>8. a \in Acts /\ a.kind = "trap" /\ a.phase = "body" /\ a.held = R
  BY <1>1, <1>4, <1>7, ActIs DEF Settings, ReadEvalLoops
<1>9. \E b \in Acts : /\ b.kind = Top.kind /\ b.phase = Top.phase /\ b.held = Top.held
                      /\ Pushed(acts', n, b, a)
  <2>1. CASE flow.at = "command"
    <3>1. PICK as : as = Ran(status) OBVIOUS
    <3>2. status \in Statuses BY <1>1 DEF Settings
    <3>3. PICK b \in Acts : /\ b.kind = Top.kind /\ b.phase = Top.phase /\ b.held = Top.held
                            /\ as = [acts EXCEPT ![n] = b]
      BY <1>1, <1>2, <3>1, <3>2, RanIs
    <3>4. Pushed(Append(as, a), n, b, a) BY <1>1, <1>2, <1>8, <3>3, PushedIs
    <3>5. acts' = Append(as, a) BY <1>7, <2>1, <3>1 DEF RunTrap
    <3> QED BY <3>3, <3>4, <3>5
  <2>2. CASE flow.at # "command"
    <3>1. acts' = Append(acts, a) BY <1>7, <2>2 DEF RunTrap
    <3>2. acts = [acts EXCEPT ![n] = Top] BY <1>3
    <3>3. Pushed(Append(acts, a), n, Top, a) BY <1>1, <1>2, <1>3, <1>8, <3>2, PushedIs
    <3> QED BY <1>3, <3>1, <3>3
  <2> QED BY <2>1, <2>2
<1>10. PICK b \in Acts : /\ b.kind = Top.kind /\ b.phase = Top.phase /\ b.held = Top.held
                         /\ Pushed(acts', n, b, a)
  BY <1>9
<1>11. frames' = frames \o FramesOf(a.kind, a.phase) BY <1>8 DEF RunTrap
<1>12. flow' \in Flows /\ flow'.at = "list" /\ flow'.r.d = "none"
  BY AtIs, ContinueIs DEF RunTrap, Ready
<1>13. "body" \in Phases("trap") BY DEF Phases
<1>14. caught' \subseteq {"trap", "int"} /\ UNCHANGED <<status, errexit, interactive, signals, doomed>>
  BY DEF RunTrap
<1> QED
  BY <1>1, <1>2, <1>4, <1>5, <1>6, <1>8, <1>10, <1>11, <1>12, <1>13, <1>14, PushKeeps

\* The result of a trap action.
LEMMA TrapResultIs ==
    ASSUME Settings, NEW r \in Results, NEW q, q = TrapResult(r)
    PROVE  q \in Results /\ q.d = r.d /\ (Dooms(q) <=> Dooms(r))
<1>1. status \in Statuses BY DEF Settings
<1>2. q = r \/ q = [r EXCEPT !.s = status] BY DEF TrapResult
<1>3. [r EXCEPT !.s = status] \in Results /\ [r EXCEPT !.s = status].d = r.d BY <1>1 DEF Results
<1> QED BY <1>2, <1>3 DEF Dooms

\* A trap action or an EXIT trap has been left.
LEMMA BelowPopped ==
    ASSUME Stacked, Len(acts) > 1, acts' = Below, frames' = Rest
    PROVE  Popped
<1>1. PICK n : n = Len(acts) OBVIOUS
<1>2. n > 1 BY <1>1
<1>3. acts' \in Seq(Acts) /\ Len(acts') = n - 1 /\ \A i \in 1..n - 1 : acts'[i] = acts[i]
  BY <1>1, <1>2, BelowIs
<1> QED BY <1>1, <1>3 DEF Popped, Same

\* Traps and subshells push one frame.
LEMMA TrapFrame ==
    ASSUME Top.kind \in {"trap", "exittrap", "subshell"}
    PROVE  Rest = Drop(frames, 1)
<1>1. PICK F : F = FramesOf(Top.kind, Top.phase) OBVIOUS
<1>2. \E x : F = <<x>> BY <1>1 DEF FramesOf
<1>3. Len(F) = 1 BY <1>2
<1> QED BY <1>1, <1>3 DEF Rest

\* A trap action is left.
LEMMA LeaveTrapKeeps ==
    ASSUME IInv, EndTrap \/ DivertTrap
    PROVE  IInv'
<1>1. Stacked /\ Flowing /\ Settings /\ Unwinding BY PartsOf
<1>2. PICK n : n = Len(acts) OBVIOUS
<1>3. PICK m : m = n - 1 OBVIOUS
<1>4. n \in Nat /\ n > 0 /\ n \in 1..n /\ Top = acts[n] /\ Top \in Acts /\ (Top.kind = "main" <=> n = 1)
  BY <1>1, <1>2, StackIs
<1>5. Top.kind = "trap" BY DEF EndTrap, DivertTrap
<1>6. Top.held \in Results /\ Top.saved \in Statuses BY <1>4 DEF Acts
<1>7. PICK r \in Results : /\ LeaveTrap(r) /\ r.d \notin {"break", "continue"}
                           /\ Dooming => Dooms(r)
  <2>1. CASE EndTrap BY <2>1, ContinueIs DEF EndTrap, ListEnds, Dooming
  <2>2. CASE DivertTrap
    <3>1. R \in Results /\ R.d \notin {"break", "continue"}
      BY <1>5, <2>2, TargetBelow DEF DivertTrap, Barriers
    <3> QED BY <2>2, <3>1 DEF DivertTrap, Dooming
  <2> QED BY <2>1, <2>2
<1>8. PICK t : t = TrapResult(r) OBVIOUS
<1>9. t \in Results /\ t.d = r.d /\ (Dooms(t) <=> Dooms(r)) BY <1>1, <1>7, <1>8, TrapResultIs
<1>10. PICK q : q = Combined(Top.held, t) OBVIOUS
<1>11. q \in {Top.held, t} /\ (Dooms(Top.held) \/ Dooms(t) => Dooms(q))
  BY <1>6, <1>9, <1>10, CombinedIs
<1>12. Targeted(q, acts, m)
  <2>1. Targeted(Top.held, acts, m) BY <1>1, <1>2, <1>3, <1>4, <1>5 DEF Stacked, HeldTargeted
  <2>2. Targeted(t, acts, m) BY <1>7, <1>9 DEF Targeted
  <2> QED BY <1>11, <2>1, <2>2
<1>13. Popped
  <2>1. Len(acts) > 1 BY <1>2, <1>4, <1>5
  <2>2. acts' = Below /\ frames' = Rest BY <1>5, <1>7, TrapFrame DEF LeaveTrap
  <2> QED BY <1>1, <2>1, <2>2, BelowPopped
<1>14. Stacked' /\ Len(acts') = m /\ Top'.phase # "exit" /\ Targeted(q, acts', m)
  BY <1>1, <1>2, <1>3, <1>5, <1>12, <1>13, PoppedStep
<1>15. PICK at : at = IF q.d = "none" THEN "list" ELSE "divert" OBVIOUS
<1>16. at \in {"list", "divert"} /\ (at = "divert" <=> q.d # "none") BY <1>15
<1>17. q \in Results BY <1>6, <1>9, <1>11
<1>18. flow' \in Flows /\ flow'.at = at /\ flow'.r = q
  <2>1. flow' = At(at, q) BY <1>7, <1>8, <1>10, <1>15 DEF LeaveTrap
  <2> QED BY <1>16, <1>17, <2>1, AtIs
<1>19. Flowing' BY <1>14, <1>16, <1>18, FlowingOn, FlowingUp
<1>20. status' \in Statuses BY <1>1, <1>6, <1>7 DEF LeaveTrap, TrapStatus, Settings
<1>21. Settings' BY <1>1, <1>7, <1>20 DEF Settings, LeaveTrap
<1>22. Unwinding'
  <2>1. Dooms(q) => q.d # "none" BY DEF Dooms
  <2>2. Dooms(q) => Dooming' BY <1>16, <1>18, <2>1 DEF Dooming, R, Dooms
  <2>3. doomed' = doomed BY <1>7 DEF LeaveTrap
  <2> QED BY <1>1, <1>5, <1>7, <1>9, <1>11, <1>13, <2>2, <2>3, PoppedUnwinding
<1> QED BY <1>14, <1>19, <1>21, <1>22, WholeNext

\* The exit status that a divert carries.
LEMMA ApplyIs ==
    ASSUME NEW s \in Statuses, NEW r \in Results
    PROVE  ApplyResult(s, r) \in Statuses
BY ResultFields DEF ApplyResult

\* The action of the EXIT trap is left.
LEMMA LeaveExitTrapKeeps ==
    ASSUME IInv, EndExitTrap \/ DivertExitTrap
    PROVE  IInv'
<1>1. Stacked /\ Flowing /\ Settings /\ Unwinding BY PartsOf
<1>2. PICK n : n = Len(acts) OBVIOUS
<1>3. PICK m : m = n - 1 OBVIOUS
<1>4. /\ n \in Nat /\ n > 0 /\ n \in 1..n /\ acts \in [1..n -> Acts] /\ Top = acts[n]
      /\ Top \in Acts /\ (Top.kind = "main" <=> n = 1)
  BY <1>1, <1>2, StackIs
<1>5. Top.kind = "exittrap" BY DEF EndExitTrap, DivertExitTrap
<1>6. n > 1 /\ m \in Nat /\ m >= 1 /\ m + 1 = n /\ m \in 1..n /\ m \in 1..n - 1
  BY <1>3, <1>4, <1>5
<1>7. PICK r \in Results : LeaveExitTrap(r)
  <2>1. R \in Results BY <1>1 DEF Flowing, Flows, R
  <2> QED BY <2>1, ContinueIs DEF EndExitTrap, DivertExitTrap
<1>8. Popped
  <2>1. acts' = Below /\ frames' = Rest BY <1>5, <1>7, TrapFrame DEF LeaveExitTrap
  <2> QED BY <1>1, <1>2, <1>6, <2>1, BelowPopped
<1>9. Stacked' BY <1>1, <1>2, <1>3, <1>8, PoppedStep
<1>10. flow' \in Flows /\ flow'.at = "list" /\ flow'.r.d = "none"
  BY <1>7, AtIs, ContinueIs DEF LeaveExitTrap, Ready
<1>11. Flowing' BY <1>10, FlowingOn
<1>12. status' \in Statuses
  <2>1. TrapStatus(r) \in Statuses BY <1>1, <1>4 DEF TrapStatus, Acts, Settings
  <2>2. TrapResult(r) \in Results BY <1>1, <1>7, TrapResultIs
  <2> QED BY <1>7, <2>1, <2>2, ApplyIs DEF LeaveExitTrap
<1>13. Settings' BY <1>1, <1>7, <1>12 DEF Settings, LeaveExitTrap
<1>14. acts[m].phase = "exit" /\ acts[m].kind \in {"main", "subshell"}
  <2>1. acts[m].phase = "exit" BY <1>1, <1>2, <1>4, <1>5, <1>6 DEF Stacked
  <2>2. acts[m].phase \in Phases(acts[m].kind) BY <1>1, <1>2, <1>6 DEF Stacked
  <2>3. \A kind : "exit" \in Phases(kind) => kind \in {"main", "subshell"} BY DEF Phases
  <2> QED BY <2>1, <2>2, <2>3
<1>15. ASSUME doomed.p # 0, SameProcess(doomed.p, n)
       PROVE  doomed.p # n /\ acts[doomed.p].phase = "exit"
  <2>1. PICK p : p = doomed.p OBVIOUS
  <2>2. p \in 1..n /\ acts[p].kind \in {"main", "subshell"}
    BY <1>1, <1>2, <1>15, <2>1 DEF Unwinding
  <2>3. p # n BY <1>4, <1>5, <2>2
  <2>4. ASSUME p < m PROVE FALSE
    <3>1. m \in p + 1..n BY <1>6, <2>2, <2>4
    <3>2. acts[m].kind = "main" BY <1>14, <1>15, <2>1, <3>1 DEF SameProcess
    <3>3. m = 1 BY <1>1, <1>2, <1>6, <3>2 DEF Stacked
    <3> QED BY <2>2, <2>4, <3>3
  <2>5. p = m BY <1>6, <2>2, <2>3, <2>4
  <2> QED BY <1>14, <2>1, <2>3, <2>5
<1>16. Unwinding'
  <2>1. doomed' = doomed BY <1>7 DEF LeaveExitTrap
  <2>2. CASE doomed.p = 0 BY <2>1, <2>2 DEF Unwinding
  <2>3. CASE doomed.p # 0
    BY <1>1, <1>2, <1>5, <1>8, <1>15, <2>1, <2>3, PoppedUnwinding
  <2> QED BY <2>2, <2>3
<1> QED BY <1>9, <1>11, <1>13, <1>16, WholeNext

-----------------------------------------------------------------------------
(***************************************************************************)
(* Processes end.                                                          *)
(***************************************************************************)

\* The top construct is marked as ending.
Exiting == [acts EXCEPT ![Len(acts)].phase = "exit"]

\* A process goes on to its exit phase.
LEMMA ExitingIs ==
    ASSUME Stacked, Top.kind \in {"main", "subshell"}, NEW n, n = Len(acts)
    PROVE  \E b \in Acts : /\ b.kind = Top.kind /\ b.held = Top.held /\ b.phase = "exit"
                           /\ Exiting = [acts EXCEPT ![n] = b]
                           /\ b.phase \in Phases(b.kind)
                           /\ FramesOf(b.kind, b.phase) = FramesOf(Top.kind, Top.phase)
<1>1. n \in 1..n /\ acts \in [1..n -> Acts] /\ Top = acts[n] /\ Top \in Acts BY StackIs
<1>2. PICK b : b = [Top EXCEPT !.phase = "exit"] OBVIOUS
<1>3. b \in Acts /\ b.kind = Top.kind /\ b.held = Top.held /\ b.phase = "exit"
  BY <1>1, <1>2 DEF Acts
<1>4. Exiting = [acts EXCEPT ![n] = b] BY <1>1, <1>2 DEF Exiting
<1>5. b.phase \in Phases(b.kind) BY <1>3 DEF Phases
<1>6. FramesOf(b.kind, b.phase) = FramesOf(Top.kind, Top.phase) BY <1>3 DEF FramesOf
<1> QED BY <1>3, <1>4, <1>5, <1>6

\* A process ends, with its EXIT trap or without.
LEMMA EndProcessKeeps ==
    ASSUME IInv, Top.kind \in {"main", "subshell"}, NEW r \in Results, NEW runsTrap \in BOOLEAN,
           EndProcess(r, runsTrap)
    PROVE  IInv'
<1>1. Stacked /\ Flowing /\ Settings /\ Unwinding BY PartsOf
<1>2. PICK n : n = Len(acts) OBVIOUS
<1>3. n \in Nat /\ n > 0 /\ n \in 1..n /\ Top = acts[n] /\ (Top.kind = "main" <=> n = 1)
  BY <1>1, <1>2, StackIs
<1>4. PICK s : s = ApplyResult(status, r) OBVIOUS
<1>5. s \in Statuses BY <1>1, <1>4, ApplyIs DEF Settings
<1>6. /\ status' = s
      /\ UNCHANGED <<errexit, interactive, caught, signals, doomed>>
  BY <1>4 DEF EndProcess
<1>7. Settings' BY <1>1, <1>5, <1>6 DEF Settings
<1>8. PICK bs : bs = Exiting OBVIOUS
<1>9. PICK b \in Acts : /\ b.kind = Top.kind /\ b.held = Top.held /\ b.phase = "exit"
                        /\ bs = [acts EXCEPT ![n] = b]
                        /\ b.phase \in Phases(b.kind)
                        /\ FramesOf(b.kind, b.phase) = FramesOf(Top.kind, Top.phase)
  BY <1>1, <1>2, <1>8, ExitingIs
<1>10. flow' = Ready BY DEF EndProcess, RunExitTrap
<1>11. flow' \in Flows /\ flow'.at = "list" /\ flow'.r.d = "none"
  BY <1>10, AtIs, ContinueIs DEF Ready
<1>12. Flowing' BY <1>11, FlowingOn
<1>13. /\ Stacked' /\ n <= Len(acts') /\ acts'[n] = b
       /\ \A i \in 1..n - 1 : acts'[i] = acts[i]
  <2>1. CASE runsTrap
    <3>1. PICK a : a = Act("exittrap", "body", s, r) OBVIOUS
    <3>2. a \in Acts /\ a.kind = "exittrap" /\ a.phase = "body"
      <4>1. "exittrap" \in AllConstructs \cup ReadEvalLoops BY DEF ReadEvalLoops
      <4> QED BY <1>5, <3>1, <4>1, ActIs
    <3>3. RunExitTrap(s, r) BY <1>4, <2>1 DEF EndProcess
    <3>4. acts' = Append(bs, a) BY <1>8, <3>1, <3>3 DEF RunExitTrap, Exiting
    <3>5. Pushed(acts', n, b, a)
      <4>1. Pushed(Append(bs, a), n, b, a) BY <1>1, <1>2, <1>9, <3>2, PushedIs
      <4> QED BY <3>4, <4>1
    <3>6. frames' = frames \o FramesOf(a.kind, a.phase) BY <3>2, <3>3 DEF RunExitTrap
    <3>7. a.phase \in Phases(a.kind) BY <3>2 DEF Phases
    <3>8. /\ Stacked' /\ Len(acts') = n + 1
          /\ \A i \in 1..n - 1 : acts'[i] = acts[i]
          /\ acts'[n] = b
      BY <1>1, <1>2, <1>9, <3>2, <3>5, <3>6, <3>7, PushStep
    <3> QED BY <1>3, <3>8
  <2>2. CASE ~runsTrap
    <3>1. acts' = bs /\ frames' = frames BY <1>8, <2>2 DEF EndProcess, Exiting
    <3>2. frames = Rest \o FramesOf(Top.kind, Top.phase) BY <1>1, <1>2, StacksTell
    <3>3. frames' = Rest \o FramesOf(b.kind, b.phase) BY <1>9, <3>1, <3>2
    <3>4. acts' = [acts EXCEPT ![n] = b] BY <1>9, <3>1
    <3>5. /\ Stacked' /\ Len(acts') = n /\ Top' = b
          /\ \A i \in 1..n - 1 : acts'[i] = acts[i]
      BY <1>1, <1>2, <1>9, <3>3, <3>4, TopStep
    <3> QED BY <1>3, <3>5 DEF Top
  <2> QED BY <2>1, <2>2
<1>14. ~Dooming' BY <1>11 DEF Dooming
<1>15. Unwinding'
  <2>1. CASE doomed.p = 0 BY <1>6, <2>1 DEF Unwinding
  <2>2. CASE doomed.p = n
    <3>1. doomed'.p = n BY <1>6, <2>2
    <3>2. n \in 1..Len(acts') /\ acts'[n].kind \in {"main", "subshell"} /\ acts'[n].phase = "exit"
      <4>1. Len(acts') \in Nat BY <1>13, LenProperties DEF Stacked
      <4> QED BY <1>3, <1>9, <1>13, <4>1
    <3> QED BY <3>1, <3>2 DEF Unwinding
  <2>3. CASE doomed.p \notin {0, n}
    <3>1. PICK p : p = doomed.p OBVIOUS
    <3>2. p \in 1..n BY <1>1, <1>2, <2>3, <3>1 DEF Unwinding
    <3>3. p < n /\ n \in p + 1..n /\ n # 1 BY <1>3, <2>3, <3>1, <3>2
    <3>4. Top.kind = "subshell" BY <1>3, <3>3
    <3>5. ~SameProcess(p, n) BY <1>3, <3>3, <3>4 DEF SameProcess
    <3>6. PICK k : k = n - 1 OBVIOUS
    <3>7. k \in {n - 1, n} /\ k >= 1 /\ k <= Len(acts')
      <4>1. Len(acts') \in Nat BY <1>13, LenProperties DEF Stacked
      <4> QED BY <1>3, <1>13, <3>2, <3>3, <3>6, <4>1
    <3>8. Same(acts', acts, k) BY <1>13, <3>6 DEF Same
    <3>9. Top.kind # "trap" BY <3>4
    <3> QED
      BY <1>1, <1>2, <1>6, <1>13, <1>14, <2>3, <3>1, <3>5, <3>7, <3>8, <3>9, UnwindingKept
  <2> QED BY <2>1, <2>2, <2>3
<1> QED BY <1>7, <1>12, <1>13, <1>15, WholeNext

\* The ways for it to end.
LEMMA EndKeepsProcess ==
    ASSUME IInv, NEW runsTrap \in BOOLEAN,
           \/ EndMain(runsTrap) \/ DivertMain(runsTrap)
           \/ EndSubshell(runsTrap) \/ DivertSubshell(runsTrap)
    PROVE  IInv'
<1>1. R \in Results BY PartsOf DEF Flowing, Flows, R
<1>2. Divert("none", 0, SUCCESS) \in Results
  <2>1. 0 \in 0..MaxCount /\ SUCCESS \in Statuses BY ExecutionAssumption DEF Statuses
  <2> QED BY <2>1, DivertIs
<1>3. \E r \in Results : EndProcess(r, runsTrap) /\ Top.kind \in {"main", "subshell"}
  BY <1>1, <1>2, ContinueIs DEF EndMain, DivertMain, EndSubshell, DivertSubshell
<1> QED BY <1>3, EndProcessKeeps

\* The interactive shell recovers, or the shell has finished.
LEMMA StayKeeps ==
    ASSUME IInv, Recover \/ ExitMain
    PROVE  IInv'
<1>1. Stacked /\ Flowing /\ Settings /\ Unwinding BY PartsOf
<1>2. R \in Results /\ status \in Statuses BY <1>1 DEF Flowing, Flows, R, Settings
<1>3. acts' = acts /\ frames' = frames BY DEF Recover, ExitMain
<1>4. Marked BY <1>3 DEF Marked
<1>5. Stacked' BY <1>1, <1>3, <1>4, MarkedStep
<1>6. flow' \in Flows /\ flow'.at \in {"list", "end"} /\ flow'.r.d = "none"
  BY AtIs, ContinueIs DEF Recover, ExitMain, Ready
<1>7. Flowing' BY <1>6, FlowingOn
<1>8. doomed' = doomed \/ doomed' = [p |-> 0, why |-> "none"] BY DEF Recover, ExitMain
<1>9. Settings'
  <2>1. status' \in Statuses BY <1>2, ApplyIs DEF Recover, ExitMain
  <2>2. [p |-> 0, why |-> "none"] \in [p : Nat, why : Reasons] BY DEF Reasons
  <2>3. doomed' \in [p : Nat, why : Reasons] BY <1>1, <1>8, <2>2 DEF Settings
  <2> QED BY <1>1, <2>1, <2>3 DEF Settings, Recover, ExitMain
<1>10. Unwinding'
  <2>1. CASE Recover
    <3>1. doomed'.p = 0 BY <2>1 DEF Recover
    <3> QED BY <3>1 DEF Unwinding
  <2>2. CASE ExitMain
    <3>1. ~Dooming /\ doomed' = doomed BY <2>2 DEF ExitMain, Dooming
    <3> QED BY <1>1, <1>3, <1>4, <3>1, MarkedUnwinding
  <2> QED BY <2>1, <2>2
<1> QED BY <1>5, <1>7, <1>9, <1>10, WholeNext

\* The parent goes on.
LEMMA ParentGoesOnKeeps ==
    ASSUME IInv, NEW s \in Statuses, NEW r \in Results, NEW why \in Reasons,
           ParentGoesOn(s, r, why), r.d \notin {"break", "continue"},
           why = "errexit" => r = AfterSubshell(s)
    PROVE  IInv'
<1>1. Stacked /\ Flowing /\ Settings /\ Unwinding BY PartsOf
<1>2. PICK n : n = Len(acts) OBVIOUS
<1>3. PICK m : m = n - 1 OBVIOUS
<1>4. n \in Nat /\ n > 0 /\ Top = acts[n] /\ Top \in Acts /\ (Top.kind = "main" <=> n = 1)
  BY <1>1, <1>2, StackIs
<1>5. Top.kind = "subshell" /\ flow.at = "list" BY DEF ParentGoesOn
<1>6. n > 1 BY <1>4, <1>5
<1>7. Rest = Drop(frames, 1) BY <1>5, TrapFrame
<1>8. acts' = Below /\ frames' = Rest BY <1>7 DEF ParentGoesOn
<1>9. Popped BY <1>1, <1>2, <1>6, <1>8, BelowPopped
<1>10. /\ Stacked' /\ Len(acts') = m /\ m \in Nat /\ m \in 1..m /\ m < n
       /\ Top'.phase # "exit" /\ Tells(frames', acts', m)
  BY <1>1, <1>2, <1>3, <1>5, <1>9, PoppedStep
<1>11. errexit' = Top.errexit /\ errexit' \in BOOLEAN BY <1>4 DEF ParentGoesOn, Acts
<1>12. why = "errexit" => (r.d = "exit" <=> s # SUCCESS /\ ErrexitIsApplicable(errexit', Rest))
  BY <1>7, <1>11 DEF AfterSubshell, Divert, Continue
<1>13. PICK simple : simple = (why = "errexit") OBVIOUS
<1>14. flow' \in Flows /\ flow'.at = "command" /\ flow'.r = r /\ flow'.simple = simple
  <2>1. simple \in BOOLEAN BY <1>13
  <2>2. flow' = [At("command", r) EXCEPT !.simple = simple] BY <1>13 DEF ParentGoesOn
  <2> QED BY <2>1, <2>2, FlowIs
<1>15. doomed' = IF Dooms(r) THEN [p |-> Process(Below), why |-> why]
                 ELSE IF doomed.p = n THEN [p |-> 0, why |-> "none"] ELSE doomed
  BY <1>2 DEF ParentGoesOn
<1>16. status' = s /\ UNCHANGED <<interactive, caught, signals>> BY DEF ParentGoesOn
<1>18. Flowing'
  <2>1. "Condition" \in Frames(frames') <=> \E i \in 1..m : acts'[i].phase = "cond"
    BY <1>10 DEF Tells
  <2>2. ErrexitIsApplicable(errexit', Rest) <=>
            errexit' /\ \A i \in 1..m : acts'[i].phase # "cond"
    BY <1>8, <2>1 DEF ErrexitIsApplicable
  <2>3. why = "errexit" =>
            (r.d = "exit" <=> /\ status' # SUCCESS /\ errexit'
                              /\ \A i \in 1..m : acts'[i].phase # "cond")
    BY <1>12, <1>16, <2>2
  <2>4. Targeted(r, acts', m) BY DEF Targeted
  <2> QED BY <1>10, <1>13, <1>14, <2>3, <2>4, FlowingBack
<1>19. Runs(acts', m, Process(acts)') /\ Process(acts)' = Process(Below)
  <2>1. m > 0 /\ acts'[1].kind = "main"
    <3>1. m > 0 /\ 1 \in 1..m BY <1>10
    <3> QED BY <1>10, <3>1 DEF Stacked
  <2>2. Process(acts)' = Process(acts') BY DEF Process
  <2>3. Runs(acts', m, Process(acts')) BY <1>10, <2>1, ProcessRuns
  <2> QED BY <1>8, <2>2, <2>3
<1>20. PICK q : q = Process(Below) OBVIOUS
<1>21. q \in 1..m BY <1>19, <1>20 DEF Runs
<1>22. Settings'
  <2>1. [p |-> q, why |-> why] \in [p : Nat, why : Reasons] BY <1>10, <1>21
  <2>2. [p |-> 0, why |-> "none"] \in [p : Nat, why : Reasons] BY DEF Reasons
  <2>3. doomed' \in [p : Nat, why : Reasons] BY <1>1, <1>15, <1>20, <2>1, <2>2 DEF Settings
  <2> QED BY <1>1, <1>11, <1>16, <2>3 DEF Settings
<1>23. Unwinding'
  <2>1. ~Dooming BY <1>5 DEF Dooming
  <2>2. Dooms(r) => Dooming' BY <1>14 DEF Dooming, R, Dooms
  <2>3. \/ doomed' = doomed /\ doomed.p # n
        \/ doomed'.p = 0
        \/ doomed'.p = Process(acts)' /\ Dooming'
    BY <1>15, <1>19, <2>2
  <2>4. CASE doomed'.p = 0 BY <2>4 DEF Unwinding
  <2>5. CASE doomed'.p # 0
    <3>1. doomed' = doomed => doomed.p # n
      <4>1. CASE Dooms(r)
        <5>1. doomed'.p = q /\ q # n BY <1>10, <1>15, <1>20, <1>21, <4>1
        <5> QED BY <5>1
      <4>2. CASE ~Dooms(r)
        <5>1. doomed.p = n => doomed'.p = 0 BY <1>15, <4>2
        <5> QED BY <2>5, <5>1
      <4> QED BY <4>1, <4>2
    <3>2. m \in {n - 1, n} /\ m >= 1 /\ m <= Len(acts') BY <1>3, <1>10
    <3>3. Same(acts', acts, m) BY <1>2, <1>3, <1>9 DEF Popped
    <3>4. Top.kind # "trap" BY <1>5
    <3> QED
      BY <1>1, <1>2, <1>10, <2>1, <2>3, <3>1, <3>2, <3>3, <3>4, UnwindingKept
  <2> QED BY <2>4, <2>5
<1> QED BY <1>10, <1>18, <1>22, <1>23, WholeNext

\* A subshell exits, or a signal halts it.
LEMMA SubshellEnds ==
    ASSUME IInv, ExitSubshell \/ SubshellHalts
    PROVE  IInv'
<1>1. Stacked /\ Settings BY PartsOf
<1>2. /\ status \in Statuses /\ FAILURE \in Statuses /\ Top.saved \in Statuses
      /\ 0 \in 0..MaxCount
  <2>1. PICK n : n = Len(acts) OBVIOUS
  <2>2. Top \in Acts BY <1>1, <2>1, StackIs
  <2>3. Top.saved \in Statuses BY <2>2 DEF Acts
  <2>4. status \in Statuses /\ FAILURE \in Statuses BY <1>1 DEF Settings, Statuses
  <2> QED BY <2>3, <2>4, ExecutionAssumption
<1>3. ASSUME NEW s \in Statuses, ParentGoesOn(s, AfterSubshell(s), "errexit") PROVE IInv'
  <2>1. PICK r : r = AfterSubshell(s) OBVIOUS
  <2>2. Divert("exit", 0, None) \in Results /\ Divert("exit", 0, None).d = "exit"
    BY <1>2, DivertIs
  <2>3. r \in Results /\ r.d \notin {"break", "continue"}
    BY <2>1, <2>2, ContinueIs DEF AfterSubshell
  <2> QED BY <1>3, <2>1, <2>3, ParentGoesOnKeeps DEF Reasons
<1>4. ASSUME ParentGoesOn(Top.saved, Divert("interrupt", 0, FAILURE), "sigint") PROVE IInv'
  <2>1. PICK r : r = Divert("interrupt", 0, FAILURE) OBVIOUS
  <2>2. r \in Results /\ r.d = "interrupt" BY <1>2, <2>1, DivertIs
  <2> QED BY <1>2, <1>4, <2>1, <2>2, ParentGoesOnKeeps DEF Reasons
<1>5. ASSUME ParentGoesOn(status, AfterSubshell(status), "errexit") PROVE IInv'
  BY <1>2, <1>3, <1>5
<1>6. ASSUME ParentGoesOn(FAILURE, AfterSubshell(FAILURE), "errexit") PROVE IInv'
  BY <1>2, <1>3, <1>6
<1>7. CASE ExitSubshell BY <1>5, <1>7 DEF ExitSubshell
<1>8. CASE SubshellHalts BY <1>4, <1>6, <1>8 DEF SubshellHalts
<1> QED BY <1>7, <1>8

-----------------------------------------------------------------------------
(***************************************************************************)
(* The invariant and what follows from it.                                 *)
(***************************************************************************)

\* The invariant holds when the shell starts.
THEOREM Initially == Init => IInv
<1> SUFFICES ASSUME Init PROVE IInv OBVIOUS
<1>1. PICK a : a = Act("main", "body", SUCCESS, Continue) OBVIOUS
<1>2. a \in Acts /\ a.kind = "main" /\ a.phase = "body"
  <2>1. "main" \in AllConstructs \cup ReadEvalLoops /\ SUCCESS \in Statuses
    BY DEF ReadEvalLoops, Statuses
  <2> QED BY <1>1, <2>1, ActIs, ContinueIs
<1>3. acts = <<a>> /\ frames = <<>> BY <1>1 DEF Init
<1>4. acts \in Seq(Acts) /\ Len(acts) = 1 /\ acts[1] = a BY <1>2, <1>3
<1>5. \A i : i \in 1..1 <=> i = 1 OBVIOUS
<1>6. Top = a BY <1>4 DEF Top
<1>7. frames \in Seq(FrameTypes) BY <1>3
<1>8. Layered
  <2>1. PICK lay : lay = [i \in 0..1 |-> frames] OBVIOUS
  <2>2. lay \in [0..1 -> Seq(FrameTypes)] /\ lay[0] = frames /\ lay[1] = frames BY <1>7, <2>1
  <2>3. frames = frames \o FramesOf(a.kind, a.phase)
    <3>1. FramesOf(a.kind, a.phase) = <<>> BY <1>2 DEF FramesOf, Loops
    <3> QED BY <1>7, <3>1, FramesPushed DEF FrameTypes
  <2>4. Laid(lay)
    <3>1. \A i \in 1..1 : i - 1 = 0 BY <1>5
    <3> QED BY <1>3, <1>4, <1>5, <2>2, <2>3, <3>1 DEF Laid
  <2> QED BY <1>4, <2>2, <2>4 DEF Layered
<1>9. HeldTargeted BY <1>2, <1>4, <1>5 DEF HeldTargeted
<1>10. Stacked
  <2>1. acts # <<>> BY <1>3
  <2>2. \A i \in 1..1 : /\ acts[i].kind = "main" <=> i = 1
                        /\ acts[i].phase \in Phases(acts[i].kind)
    BY <1>2, <1>4, <1>5 DEF Phases
  <2>3. \A i : i \notin 1..1 - 1 OBVIOUS
  <2> QED BY <1>4, <1>7, <1>8, <1>9, <2>1, <2>2, <2>3 DEF Stacked
<1>11. flow \in Flows /\ flow.at = "list" /\ flow.r.d = "none"
  BY AtIs, ContinueIs DEF Init, Ready
<1>12. Flowing BY <1>2, <1>6, <1>11 DEF Flowing, LoopTarget, ErrexitExact, R
<1>13. Settings
  <2>1. [p |-> 0, why |-> "none"] \in [p : Nat, why : Reasons] BY DEF Reasons
  <2>2. 0 \in 0..MaxSignals /\ SUCCESS \in Statuses BY ExecutionAssumption DEF Statuses
  <2> QED BY <2>1, <2>2 DEF Init, Settings
<1>14. Unwinding BY DEF Init, Unwinding
<1> QED BY <1>10, <1>12, <1>13, <1>14, Whole

\* IInv is preserved by every step.
THEOREM Inductive == IInv /\ [Next]_vars => IInv'
<1> SUFFICES ASSUME IInv, [Next]_vars PROVE IInv' OBVIOUS
<1>1. CASE Leaf BY <1>1, LeafKeeps
<1>2. CASE ConstructStep
  <2>1. CASE \E kind \in Constructs : Enter(kind) BY <2>1, EnterKeeps
  <2>2. CASE EndSimple \/ ForAssignError BY <2>2, EndFailingKeeps
  <2>3. CASE DivertLoop \/ DivertIf \/ DivertItem \/ DivertSimple BY <2>3, DivertKeeps
  <2>4. CASE \/ EndLoopCondition \/ EndLoopBody \/ NextValue \/ EndFor \/ EndCase
             \/ EndIfCondition \/ EndIfBody \/ EndNot \/ EndAndOr
             \/ \E runs \in BOOLEAN : EndAndOrCondition(runs)
    BY <2>4, EndKeeps
  <2> QED BY <1>2, <2>1, <2>2, <2>3, <2>4 DEF ConstructStep
<1>3. CASE TrapStep
  <2>1. CASE \E what \in {"trap", "int"} : Catch(what) BY <2>1, CatchKeeps
  <2>2. CASE EndTrap \/ DivertTrap BY <2>2, LeaveTrapKeeps
  <2> QED
    BY <1>3, <2>1, <2>2, CommandReturnsKeeps, InterruptKeeps, RunTrapKeeps DEF TrapStep
<1>4. CASE ProcessStep
  <2>1. ASSUME NEW runsTrap \in BOOLEAN,
               \/ EndMain(runsTrap) \/ DivertMain(runsTrap)
               \/ EndSubshell(runsTrap) \/ DivertSubshell(runsTrap)
        PROVE  IInv'
    BY <2>1, EndKeepsProcess
  <2> QED
    BY <1>4, <2>1, StayKeeps, LeaveExitTrapKeeps, SubshellEnds DEF ProcessStep
<1>5. CASE UNCHANGED vars
  <2>1. Settings BY PartsOf
  <2> QED BY <1>5, <2>1, QuietKeeps DEF vars, Settings
<1> QED BY <1>1, <1>2, <1>3, <1>4, <1>5 DEF Next

\* The inductive invariant holds in every state: the two stacks fit, and what
\* has been decided for a process or a loop is not lost.
THEOREM Invariance == Spec => []IInv
BY Initially, Inductive, PTL DEF Spec

\* A break or continue always finds its loop, however deep.
THEOREM BreakFindsLoop == Spec => []LoopTarget
<1>1. IInv => LoopTarget BY DEF IInv
<1> QED BY <1>1, Invariance, PTL

\* errexit takes effect exactly outside of conditions.
THEOREM ErrexitIsExact == Spec => []ErrexitExact
<1>1. IInv => ErrexitExact BY DEF IInv
<1> QED BY <1>1, Invariance, PTL

\* Only trap actions run in a process that is to end.
THEOREM NothingSwallows == Spec => []Unwinds
<1>1. IInv => Unwinds
  <2> SUFFICES ASSUME IInv, doomed.p # 0, flow.at = "list", Top.phase # "exit"
               PROVE  \E i \in doomed.p..Len(acts) : acts[i].kind \in {"trap", "exittrap"}
    BY DEF Unwinds
  <2>1. Stacked /\ Unwinding BY PartsOf
  <2>2. PICK n : n = Len(acts) OBVIOUS
  <2>3. n \in Nat /\ Top = acts[n] BY <2>1, <2>2, StackIs
  <2>4. PICK p : p = doomed.p OBVIOUS
  <2>5. p \in 1..n BY <2>1, <2>2, <2>4 DEF Unwinding
  <2>6. CASE acts[p].phase = "exit"
    <3>1. p \in 1..n - 1 /\ p + 1 \in p..n BY <2>3, <2>5, <2>6
    <3>2. acts[p + 1].kind = "exittrap" BY <2>1, <2>2, <2>6, <3>1 DEF Stacked
    <3> QED BY <2>2, <2>4, <3>1, <3>2
  <2>7. CASE acts[p].phase # "exit"
    <3>1. PICK i \in p + 1..n : acts[i].kind = "trap"
      BY <2>1, <2>2, <2>4, <2>7 DEF Unwinding
    <3>2. i \in p..n BY <2>3, <2>5
    <3> QED BY <2>2, <2>4, <3>1, <3>2
  <2> QED BY <2>6, <2>7
<1> QED BY <1>1, Invariance, PTL

-----------------------------------------------------------------------------
(***************************************************************************)
(* The exit status of loops.                                               *)
(***************************************************************************)

\* A loop whose body never ran succeeds.
OrZero(s) == IF s = None THEN SUCCESS ELSE s
InBody(a) == a.kind \in Loops /\ a.phase = "body"

\* While it looks at its condition, a loop keeps the status of its body.
Keeps(a) == (a.kind \in Loops /\ a.phase = "cond" /\ ~a.jumped) => a.saved = OrZero(a.last)

\* A trap action gives back the status of the command after which it runs.
GivesBack(b, a) == (a.kind = "trap" /\ InBody(b)) => a.saved = b.last

\* The list at the top has run an item, or one of its items breaks out of it.
Settled ==
    \/ flow.at = "list" /\ Top.ran
    \/ flow.at = "divert" /\ R.d \in {"break", "continue"}

\* What the flow tells is true.
Told == LoopStatus /\ (flow.at = "divert" => R.d # "none")

Noted ==
    /\ \A i \in 1..Len(acts) : Keeps(acts[i])
    /\ \A i \in 1..Len(acts) - 1 : GivesBack(acts[i], acts[i + 1])
    /\ (Settled /\ InBody(Top)) => status = Top.last
    /\ Told

\* The top construct becomes b.
LEMMA NotedChange ==
    ASSUME Stacked, Noted, NEW n, n = Len(acts), NEW b \in Acts,
           acts' = [acts EXCEPT ![n] = b], Keeps(b),
           b.kind = Top.kind, b.kind = "trap" => b.saved = Top.saved,
           Settled' /\ InBody(b) => status' = b.last,
           Told'
    PROVE  Noted'
<1>1. n \in Nat /\ n > 0 /\ n \in 1..n /\ Top = acts[n] BY StackIs
<1>2. acts \in Seq(Acts) BY DEF Stacked
<1>3. /\ Len(acts') = n
      /\ \A j \in 1..n : acts'[j] = IF j = n THEN b ELSE acts[j]
  <2>1. Changed(acts', acts, n, b) BY <1>1, <1>2, Replaced
  <2> QED BY <2>1 DEF Changed
<1>4. Top' = b BY <1>1, <1>3 DEF Top
<1>5. \A i \in 1..n : Keeps(acts'[i]) BY <1>3 DEF Noted
<1>6. ASSUME NEW i \in 1..n - 1 PROVE GivesBack(acts'[i], acts'[i + 1])
  <2>1. i \in 1..n /\ i + 1 \in 1..n /\ i # n BY <1>1
  <2>2. GivesBack(acts[i], acts[i + 1]) BY DEF Noted
  <2>3. acts'[i] = acts[i] BY <1>3, <2>1
  <2>4. CASE i + 1 = n BY <1>1, <1>3, <2>1, <2>2, <2>3, <2>4 DEF GivesBack
  <2>5. CASE i + 1 # n BY <1>3, <2>1, <2>2, <2>3, <2>5
  <2> QED BY <2>4, <2>5
<1> QED BY <1>3, <1>4, <1>5, <1>6 DEF Noted

\* a is pushed onto the top construct, which becomes b.
LEMMA NotedPush ==
    ASSUME Stacked, Noted, NEW n, n = Len(acts), NEW a \in Acts, NEW b \in Acts,
           Pushed(acts', n, b, a), Keeps(b), Keeps(a),
           b.kind = Top.kind, b.kind = "trap" => b.saved = Top.saved,
           GivesBack(b, a), flow'.at = "list", ~a.ran,
           Told'
    PROVE  Noted'
<1>1. n \in Nat /\ n > 0 /\ n \in 1..n /\ Top = acts[n] BY StackIs
<1>2. /\ Len(acts') = n + 1 /\ acts'[n] = b /\ acts'[n + 1] = a
      /\ \A i \in 1..n - 1 : acts'[i] = acts[i]
  BY DEF Pushed
<1>3. Top' = a BY <1>2 DEF Top
<1>4. ~Settled' BY <1>3 DEF Settled
<1>5. ASSUME NEW i \in 1..n + 1 PROVE Keeps(acts'[i])
  <2>1. i = n + 1 \/ i = n \/ (i \in 1..n - 1 /\ i \in 1..n) BY <1>1
  <2>2. \A j \in 1..n : Keeps(acts[j]) BY DEF Noted
  <2> QED BY <1>2, <2>1, <2>2
<1>6. ASSUME NEW i \in 1..n PROVE GivesBack(acts'[i], acts'[i + 1])
  <2>1. CASE i = n BY <1>2, <2>1
  <2>2. CASE i = n - 1
    <3>1. i \in 1..n - 1 /\ i + 1 = n BY <1>1, <2>2
    <3>2. GivesBack(acts[i], acts[i + 1]) BY <3>1 DEF Noted
    <3> QED BY <1>1, <1>2, <3>1, <3>2 DEF GivesBack
  <2>3. CASE i \notin {n - 1, n}
    <3>1. i \in 1..n - 1 /\ i + 1 \in 1..n - 1 BY <1>1, <2>3
    <3>2. GivesBack(acts[i], acts[i + 1]) BY <3>1 DEF Noted
    <3> QED BY <1>2, <3>1, <3>2
  <2> QED BY <2>1, <2>2, <2>3
<1>7. n + 1 - 1 = n BY <1>1
<1>8. \A i \in 1..Len(acts') : Keeps(acts'[i]) BY <1>2, <1>5
<1>9. \A i \in 1..Len(acts') - 1 : GivesBack(acts'[i], acts'[i + 1]) BY <1>2, <1>6, <1>7
<1> QED BY <1>4, <1>8, <1>9 DEF Noted

\* The top construct is popped; the one below it becomes b.
LEMMA NotedPop ==
    ASSUME Stacked, Noted, NEW n, n = Len(acts), n > 1, NEW m, m = n - 1,
           Len(acts') = m, NEW b,
           \A i \in 1..m : acts'[i] = IF i = m THEN b ELSE acts[i],
           Keeps(b), b.kind = acts[m].kind, b.saved = acts[m].saved,
           Settled' /\ InBody(b) => status' = b.last,
           Told'
    PROVE  Noted'
<1>1. n \in Nat /\ m \in Nat /\ m \in 1..m /\ m \in 1..n BY StackIs
<1>2. acts'[m] = b /\ Top' = b BY <1>1 DEF Top
<1>3. \A i \in 1..m : i \in 1..n BY <1>1
<1>4. \A i \in 1..m : Keeps(acts'[i]) BY <1>3 DEF Noted
<1>5. ASSUME NEW i \in 1..m - 1 PROVE GivesBack(acts'[i], acts'[i + 1])
  <2>1. i \in 1..m /\ i + 1 \in 1..m /\ i # m /\ i \in 1..n - 1 BY <1>1
  <2>2. GivesBack(acts[i], acts[i + 1]) BY <2>1 DEF Noted
  <2>3. acts'[i] = acts[i] BY <2>1
  <2>4. CASE i + 1 = m BY <1>2, <2>2, <2>3, <2>4 DEF GivesBack
  <2>5. CASE i + 1 # m BY <2>1, <2>2, <2>3, <2>5
  <2> QED BY <2>4, <2>5
<1> QED BY <1>2, <1>4, <1>5 DEF Noted

\* A loop notes the exit status of an item of its body.
LEMMA RanNotes ==
    ASSUME Stacked, Noted, NEW n, n = Len(acts), NEW s \in Statuses, NEW as, as = Ran(s)
    PROVE  \E b \in Acts : /\ as = [acts EXCEPT ![n] = b] /\ Keeps(b)
                           /\ b.kind = Top.kind /\ b.saved = Top.saved
                           /\ InBody(b) => b.last = s
<1>1. n \in 1..n /\ acts \in [1..n -> Acts] /\ Top = acts[n] /\ Top \in Acts BY StackIs
<1>2. PICK l : l = IF Top.kind \in Loops /\ Top.phase = "body" THEN s ELSE Top.last OBVIOUS
<1>3. l \in Statuses \cup {None} BY <1>1, <1>2 DEF Acts
<1>4. PICK b : b = [Top EXCEPT !.ran = TRUE, !.last = l] OBVIOUS
<1>5. /\ b \in Acts /\ b.kind = Top.kind /\ b.phase = Top.phase /\ b.saved = Top.saved
      /\ b.jumped = Top.jumped /\ b.last = l
  BY <1>1, <1>3, <1>4 DEF Acts
<1>6. as = [acts EXCEPT ![n] = b] BY <1>1, <1>2, <1>4 DEF Ran
<1>7. Keeps(Top) BY <1>1 DEF Noted
<1>8. Keeps(b) BY <1>2, <1>5, <1>7 DEF Keeps
<1>9. InBody(b) => b.last = s BY <1>2, <1>5 DEF InBody
<1> QED BY <1>5, <1>6, <1>8, <1>9

\* The flow promises an exit status only when a loop has ended.
LEMMA NoPromise == \A at, r : At(at, r).promise = None BY DEF At

\* An item is over, and the loop it is in notes it.
LEMMA NotedRan ==
    ASSUME Stacked, Noted, status' \in Statuses, acts' = Ran(status'), flow'.promise = None,
           flow'.at = "divert" => flow'.r.d # "none"
    PROVE  Noted'
<1>1. PICK n : n = Len(acts) OBVIOUS
<1>2. PICK s : s = status' OBVIOUS
<1>3. PICK b \in Acts : /\ Ran(s) = [acts EXCEPT ![n] = b] /\ Keeps(b)
                        /\ b.kind = Top.kind /\ b.saved = Top.saved
                        /\ InBody(b) => b.last = s
  BY <1>1, <1>2, RanNotes
<1>4. Told' BY DEF Told, LoopStatus, R
<1> QED BY <1>1, <1>2, <1>3, <1>4, NotedChange

\* The constructs stay as they are.
LEMMA NotedStay ==
    ASSUME Stacked, Noted, acts' = acts, Settled' => ~InBody(Top), Told'
    PROVE  Noted'
BY DEF Noted, Top

\* A simple command.
LEMMA LeafNoted == ASSUME IInv, Noted, Leaf PROVE Noted'
<1>1. Stacked /\ Settings BY PartsOf
<1>2. ASSUME NEW s \in Statuses, NEW r, NEW why, SimpleReturns(s, r, why) PROVE Noted'
  <2>1. status' = s /\ acts' = Ran(s) BY <1>2 DEF SimpleReturns
  <2>2. flow'.promise = None /\ flow'.at = "command" BY <1>2 DEF SimpleReturns, At
  <2> QED BY <1>1, <2>1, <2>2, NotedRan
<1>3. status \in Statuses /\ SUCCESS \in Statuses /\ FAILURE \in Statuses
  BY <1>1 DEF Settings, Statuses
<1>4. ASSUME NEW s \in Statuses, SimpleCommand(s) PROVE Noted'
  BY <1>2, <1>4 DEF SimpleCommand
<1>5. ASSUME NEW s, ReturnBuiltin(s) \/ ExitBuiltin(s) PROVE Noted'
  BY <1>2, <1>3, <1>5 DEF ReturnBuiltin, ExitBuiltin
<1>6. ASSUME NEW k, NEW d, BreakOrContinue(d, k) PROVE Noted'
  BY <1>2, <1>3, <1>6 DEF BreakOrContinue
<1>7. ASSUME NEW k, BreakBuiltin(k) \/ ContinueBuiltin(k) PROVE Noted'
  BY <1>6, <1>7 DEF BreakBuiltin, ContinueBuiltin
<1>8. ASSUME NEW e, SetErrexit(e) PROVE Noted' BY <1>2, <1>3, <1>8 DEF SetErrexit
<1>9. ASSUME ExpansionError \/ SpecialError \/ StartError \/ CommandHalts PROVE Noted'
  BY <1>2, <1>3, <1>9 DEF ExpansionError, SpecialError, StartError, CommandHalts
<1>10. ASSUME ExecFails \/ NothingRuns PROVE Noted'
  BY <1>2, <1>3, <1>10 DEF ExecFails, NothingRuns
<1> QED BY <1>4, <1>5, <1>7, <1>8, <1>9, <1>10 DEF Leaf

\* A construct is entered.
LEMMA EnterNoted ==
    ASSUME IInv, Noted, NEW kind \in Constructs, Enter(kind)
    PROVE  Noted'
<1>1. Stacked /\ Flowing /\ Settings BY PartsOf
<1>2. PICK n : n = Len(acts) OBVIOUS
<1>3. n \in 1..n /\ acts \in [1..n -> Acts] /\ Top = acts[n] /\ Top \in Acts
  BY <1>1, <1>2, StackIs
<1>4. kind \in AllConstructs BY ExecutionAssumption
<1>5. PICK phase : phase = FirstPhase(kind) OBVIOUS
<1>6. phase \in {"cond", "body", "exit"} BY <1>5 DEF FirstPhase
<1>7. PICK saved : saved = IF kind = "subshell" THEN status ELSE SUCCESS OBVIOUS
<1>8. saved \in Statuses /\ (kind # "subshell" => saved = SUCCESS)
  BY <1>1, <1>7 DEF Settings, Statuses
<1>9. PICK a : a = Act(kind, phase, saved, Continue) OBVIOUS
<1>10. a \in Acts /\ a.kind = kind BY <1>4, <1>6, <1>8, <1>9, ActIs, ContinueIs
<1>11. a.saved = saved /\ a.last = None /\ ~a.ran BY <1>9 DEF Act
<1>12. Keeps(a) BY <1>8, <1>10, <1>11 DEF Keeps, OrZero, Loops
<1>13. PICK b : b = [Top EXCEPT !.ran = TRUE] OBVIOUS
<1>14. /\ b \in Acts /\ b.kind = Top.kind /\ b.phase = Top.phase /\ b.saved = Top.saved
       /\ b.jumped = Top.jumped /\ b.last = Top.last
  BY <1>3, <1>13 DEF Acts
<1>15. Keeps(b)
  <2>1. Keeps(Top) BY <1>2, <1>3 DEF Noted
  <2> QED BY <1>14, <2>1 DEF Keeps
<1>16. Pushed(acts', n, b, a)
  <2>1. PICK bs : bs = [acts EXCEPT ![n] = b] OBVIOUS
  <2>2. acts' = Append(bs, a) BY <1>2, <1>3, <1>5, <1>7, <1>9, <1>13, <2>1 DEF Enter
  <2>3. Pushed(Append(bs, a), n, b, a) BY <1>1, <1>2, <1>10, <1>14, <2>1, PushedIs
  <2> QED BY <2>2, <2>3
<1>17. GivesBack(b, a) BY <1>4, <1>10 DEF GivesBack, AllConstructs, Loops
<1>18. flow'.at = "list" BY DEF Enter, CanRun
<1>19. Told' BY DEF Noted, Told, LoopStatus, R, Enter
<1> QED BY <1>1, <1>2, <1>10, <1>11, <1>12, <1>14, <1>15, <1>16, <1>17, <1>18, <1>19, NotedPush

\* The top construct goes on. A loop that goes on to its condition keeps the
\* status of its body.
LEMMA GoOnNoted ==
    ASSUME IInv, Noted, NEW phase \in {"cond", "body"}, NEW saved \in Statuses,
           NEW jumped \in BOOLEAN, GoOn(phase, saved, jumped), Top.kind # "trap",
           (Top.kind \in Loops /\ phase = "cond" /\ ~Top.jumped /\ ~jumped)
               => saved = OrZero(Top.last)
    PROVE  Noted'
<1>1. Stacked BY PartsOf
<1>2. PICK n : n = Len(acts) OBVIOUS
<1>3. n \in Nat /\ n \in 1..n /\ Top = acts[n] /\ Top \in Acts BY <1>1, <1>2, StackIs
<1>4. PICK j : j = (Top.jumped \/ jumped) OBVIOUS
<1>5. j \in BOOLEAN BY <1>3, <1>4 DEF Acts
<1>6. PICK b : b = [Top EXCEPT !.phase = phase, !.ran = FALSE, !.saved = saved, !.jumped = j]
  OBVIOUS
<1>7. /\ b \in Acts /\ b.kind = Top.kind /\ b.phase = phase /\ b.saved = saved
      /\ b.jumped = j /\ b.last = Top.last /\ ~b.ran
  BY <1>3, <1>5, <1>6 DEF Acts
<1>8. acts' = [acts EXCEPT ![n] = b] BY <1>2, <1>4, <1>6 DEF GoOn
<1>9. Keeps(b) BY <1>4, <1>7 DEF Keeps
<1>10. flow'.at = "list" /\ flow'.promise = None BY DEF GoOn, Ready, At
<1>11. Top' = b
  <2>1. acts \in Seq(Acts) /\ n > 0 BY <1>1, <1>2, StackIs DEF Stacked
  <2>2. Changed(acts', acts, n, b) BY <1>2, <1>3, <1>7, <1>8, <2>1, Replaced
  <2> QED BY <1>3, <2>2 DEF Changed, Top
<1>12. ~Settled' BY <1>7, <1>10, <1>11 DEF Settled
<1>13. Told' BY <1>10 DEF Told, LoopStatus
<1> QED BY <1>1, <1>2, <1>7, <1>8, <1>9, <1>12, <1>13, NotedChange

\* The top construct is popped, and nothing is noted below it.
LEMMA BelowNoted ==
    ASSUME Stacked, Noted, NEW n, n = Len(acts), n > 1, acts' = Below,
           Settled' /\ InBody(acts[n - 1]) => status' = acts[n - 1].last,
           Told'
    PROVE  Noted'
<1>1. PICK m : m = n - 1 OBVIOUS
<1>2. n \in Nat /\ m \in 1..m /\ m \in 1..n BY <1>1, StackIs
<1>3. Len(acts') = m /\ \A i \in 1..m : acts'[i] = acts[i] BY <1>1, BelowIs
<1>4. PICK b : b = acts[m] OBVIOUS
<1>5. \A i \in 1..m : acts'[i] = IF i = m THEN b ELSE acts[i] BY <1>3, <1>4
<1>6. Keeps(b) BY <1>2, <1>4 DEF Noted
<1> QED BY <1>1, <1>3, <1>4, <1>5, <1>6, NotedPop

\* A command is left. A loop leaves the exit status that it promises.
LEMMA LeaveNoted ==
    ASSUME IInv, Noted, Command, NEW s, NEW r, NEW simple, Leave(s, r, simple),
           (/\ r.d = "none" /\ Top.kind \in Loops /\ ~Top.jumped
            /\ ~(flow.at = "divert" /\ Top.phase = "cond")) => s = OrZero(Top.last)
    PROVE  Noted'
<1>1. Stacked BY PartsOf
<1>2. PICK n : n = Len(acts) OBVIOUS
<1>3. n > 1
  <2>1. n \in Nat /\ n > 0 /\ (Top.kind = "main" <=> n = 1) BY <1>1, <1>2, StackIs
  <2> QED BY <2>1 DEF Command
<1>4. acts' = Below /\ status' = s BY DEF Leave
<1>5. PICK l : l = IF /\ r.d = "none" /\ Top.kind \in Loops
                      /\ ~(flow.at = "divert" /\ Top.phase = "cond")
                   THEN OrZero(Top.last) ELSE None
  OBVIOUS
<1>6. flow' = [At("command", r) EXCEPT !.simple = simple, !.jumped = Top.jumped, !.promise = l]
  BY <1>5 DEF Leave, OrZero
<1>7. flow'.at = "command" /\ flow'.jumped = Top.jumped /\ flow'.promise = l BY <1>6 DEF At
<1>8. Told' BY <1>4, <1>5, <1>7 DEF Told, LoopStatus
<1>9. ~Settled' BY <1>7 DEF Settled
<1> QED BY <1>1, <1>2, <1>3, <1>4, <1>8, <1>9, BelowNoted

\* A negated pipeline or an and-or list returns to its list.
LEMMA LeaveItemNoted ==
    ASSUME IInv, Noted, Command, NEW s \in Statuses, NEW r, LeaveItem(s, r)
    PROVE  Noted'
<1>1. Stacked BY PartsOf
<1>2. PICK n : n = Len(acts) OBVIOUS
<1>3. PICK m : m = n - 1 OBVIOUS
<1>4. n \in Nat /\ n > 0 /\ (Top.kind = "main" <=> n = 1) BY <1>1, <1>2, StackIs
<1>5. n > 1 /\ m \in Nat /\ m > 0 /\ m \in 1..m /\ m \in 1..n BY <1>3, <1>4 DEF Command
<1>6. PICK as : as = Below OBVIOUS
<1>7. as \in Seq(Acts) /\ Len(as) = m /\ \A i \in 1..m : as[i] = acts[i]
  BY <1>1, <1>2, <1>3, <1>5, <1>6, BelowIs
<1>8. as[m] \in Acts /\ as[m] = acts[m] BY <1>5, <1>7, ElementOfSeq
<1>9. PICK l : l = IF as[m].kind \in Loops /\ as[m].phase = "body" THEN s ELSE as[m].last
  OBVIOUS
<1>10. l \in Statuses \cup {None} BY <1>8, <1>9 DEF Acts
<1>11. PICK b : b = [as[m] EXCEPT !.last = l] OBVIOUS
<1>12. /\ b \in Acts /\ b.kind = acts[m].kind /\ b.phase = acts[m].phase
       /\ b.saved = acts[m].saved /\ b.jumped = acts[m].jumped /\ b.last = l
  BY <1>8, <1>10, <1>11 DEF Acts
<1>13. acts' = [as EXCEPT ![m] = b] BY <1>6, <1>7, <1>9, <1>11 DEF LeaveItem
<1>14. Len(acts') = m /\ \A i \in 1..m : acts'[i] = IF i = m THEN b ELSE acts[i]
  <2>1. Changed(acts', as, m, b) BY <1>5, <1>7, <1>12, <1>13, Replaced
  <2> QED BY <1>7, <2>1 DEF Changed
<1>15. Keeps(acts[m]) BY <1>2, <1>5 DEF Noted
<1>16. Keeps(b) BY <1>8, <1>9, <1>12, <1>15 DEF Keeps
<1>17. status' = s /\ flow'.promise = None /\ flow'.r = r
       /\ (flow'.at = "divert" => r.d # "none")
  BY DEF LeaveItem, At
<1>18. InBody(b) => status' = b.last BY <1>8, <1>9, <1>12, <1>17 DEF InBody
<1>19. Told' BY <1>17 DEF Told, LoopStatus, R
<1> QED BY <1>1, <1>2, <1>3, <1>5, <1>12, <1>14, <1>16, <1>18, <1>19, NotedPop

\* A list ends.
LEMMA EndNoted ==
    ASSUME IInv, Noted,
           \/ EndLoopCondition \/ EndLoopBody \/ NextValue \/ EndFor \/ EndCase
           \/ EndIfCondition \/ EndIfBody \/ EndNot \/ EndAndOr \/ EndSimple \/ ForAssignError
           \/ \E runs \in BOOLEAN : EndAndOrCondition(runs)
    PROVE  Noted'
<1>1. Stacked /\ Settings BY PartsOf
<1>2. PICK n : n = Len(acts) OBVIOUS
<1>3. n \in 1..n /\ Top = acts[n] /\ Top \in Acts /\ Top.phase \in Phases(Top.kind)
  BY <1>1, <1>2, StackIs
<1>4. /\ Top.saved \in Statuses /\ status \in Statuses
      /\ SUCCESS \in Statuses /\ FAILURE \in Statuses /\ None \notin Statuses
  BY <1>1, <1>3 DEF Acts, Settings, Statuses, SUCCESS, FAILURE, None
<1>5. /\ flow.at = "list"
      /\ Top.kind \in {"while", "until", "for", "case", "if", "not", "andor",
                       "function", "eval", "dot"}
  BY DEF EndLoopCondition, EndLoopBody, NextValue, EndFor, EndCase, EndIfCondition, EndIfBody,
         EndNot, EndAndOr, EndAndOrCondition, ListEnds, EndSimple, ForAssignError
<1>6. Command /\ Top.kind # "trap" BY <1>5 DEF Command
<1>7. Top.ran /\ InBody(Top) => status = OrZero(Top.last) /\ status = Top.last
  BY <1>4, <1>5 DEF Noted, Settled, OrZero
<1>8. Keeps(Top) BY <1>2, <1>3 DEF Noted
<1>9. Top.kind = "for" => InBody(Top) BY <1>3 DEF InBody, Phases, Loops
<1>10. ASSUME NEW phase \in {"cond", "body"}, GoOn(phase, Top.saved, FALSE),
              phase = "body" \/ Top.kind \notin Loops
       PROVE  Noted'
  BY <1>4, <1>6, <1>10, GoOnNoted
<1>11. ASSUME NEW s, NEW simple, NEW r, Leave(s, r, simple),
              Top.kind \notin Loops \/ r.d # "none"
       PROVE  Noted'
  BY <1>6, <1>11, LeaveNoted
<1>12. ASSUME NEW s \in Statuses, LeaveItem(s, Continue) PROVE Noted'
  BY <1>6, <1>12, LeaveItemNoted
<1>13. CASE EndLoopCondition
  <2>1. Top.kind \in Loops /\ Top.phase = "cond" BY <1>13 DEF EndLoopCondition, Loops
  <2>2. ~Top.jumped => Top.saved = OrZero(Top.last) BY <1>8, <2>1 DEF Keeps
  <2>3. ASSUME Leave(Top.saved, Continue, FALSE) PROVE Noted'
    BY <1>6, <2>2, <2>3, LeaveNoted
  <2> QED BY <1>10, <1>13, <2>3 DEF EndLoopCondition
<1>14. CASE EndLoopBody
  <2>1. InBody(Top) /\ Top.ran /\ GoOn("cond", status, FALSE)
    BY <1>14 DEF EndLoopBody, InBody, Loops, ListEnds
  <2>2. status = OrZero(Top.last) BY <1>7, <2>1
  <2> QED BY <1>4, <1>6, <2>1, <2>2, GoOnNoted
<1>15. CASE NextValue BY <1>10, <1>15 DEF NextValue
<1>16. CASE EndFor
  <2>1. Top.ran /\ Top.kind = "for" /\ Leave(status, Continue, FALSE)
    BY <1>16 DEF EndFor, ListEnds
  <2>2. status = OrZero(Top.last) BY <1>7, <1>9, <2>1
  <2> QED BY <1>6, <2>1, <2>2, LeaveNoted
<1>17. CASE EndCase
  <2>1. Top.kind \notin Loops BY <1>17 DEF EndCase, Loops
  <2> QED BY <1>10, <1>11, <1>17, <2>1 DEF EndCase
<1>18. CASE EndIfCondition \/ EndIfBody
  <2>1. Top.kind \notin Loops BY <1>18 DEF EndIfCondition, EndIfBody, Loops
  <2> QED BY <1>10, <1>11, <1>18, <2>1 DEF EndIfCondition, EndIfBody
<1>19. CASE EndNot BY <1>4, <1>12, <1>19 DEF EndNot
<1>20. CASE EndAndOr BY <1>4, <1>12, <1>20 DEF EndAndOr
<1>21. ASSUME NEW runs \in BOOLEAN, EndAndOrCondition(runs) PROVE Noted'
  <2>1. Top.kind \notin Loops BY <1>21 DEF EndAndOrCondition, Loops
  <2> QED BY <1>4, <1>10, <1>12, <1>21, <2>1 DEF EndAndOrCondition
<1>22. CASE EndSimple
  <2>1. Top.kind \notin Loops BY <1>22 DEF EndSimple, Loops
  <2> QED BY <1>11, <1>22, <2>1 DEF EndSimple
<1>23. CASE ForAssignError
  <2>1. ErrorResult.d # "none" BY DEF ErrorResult, Divert
  <2> QED BY <1>11, <1>23, <2>1 DEF ForAssignError
<1> QED
  BY <1>13, <1>14, <1>15, <1>16, <1>17, <1>18, <1>19, <1>20, <1>21, <1>22, <1>23

\* A divert reaches a construct that is no trap and no process.
LEMMA DivertNoted ==
    ASSUME IInv, Noted, DivertLoop \/ DivertIf \/ DivertItem \/ DivertSimple
    PROVE  Noted'
<1>1. Stacked /\ Settings BY PartsOf
<1>2. PICK n : n = Len(acts) OBVIOUS
<1>3. n \in 1..n /\ Top = acts[n] /\ Top \in Acts /\ Top.phase \in Phases(Top.kind)
  BY <1>1, <1>2, StackIs
<1>4. Top.saved \in Statuses /\ status \in Statuses /\ None \notin Statuses
  BY <1>1, <1>3 DEF Acts, Settings, Statuses, SUCCESS, FAILURE, None
<1>5. /\ flow.at = "divert"
      /\ Top.kind \in Loops \cup {"if", "case", "not", "andor", "function", "eval", "dot"}
  BY DEF DivertLoop, DivertIf, DivertItem, DivertSimple, Diverted
<1>6. Command /\ Top.kind # "trap" BY <1>5 DEF Command, Loops
<1>7. ASSUME NEW s, NEW r, NEW simple, Leave(s, r, simple), Top.kind \notin Loops \/ r.d # "none"
      PROVE  Noted'
  BY <1>6, <1>7, LeaveNoted
<1>8. CASE DivertLoop
  <2>1. Top.kind \in Loops BY <1>8 DEF DivertLoop
  <2>2. Top.phase \in {"cond", "body"} BY <1>3, <2>1 DEF Phases, Loops
  <2>3. ASSUME R.d \in {"break", "continue"}, Leave(status, Continue, FALSE) PROVE Noted'
    <3>1. InBody(Top) => status = OrZero(Top.last)
      BY <1>4, <1>5, <2>3 DEF Noted, Settled, OrZero
    <3>2. Top.phase # "cond" => status = OrZero(Top.last) BY <2>1, <2>2, <3>1 DEF InBody
    <3> QED BY <1>5, <1>6, <2>3, <3>2, LeaveNoted
  <2>4. ASSUME GoOn("body", Top.saved, TRUE) PROVE Noted' BY <1>4, <1>6, <2>4, GoOnNoted
  <2>5. ASSUME GoOn("cond", Top.saved, Top.phase = "body") PROVE Noted'
    <3>1. PICK jumped : jumped = (Top.phase = "body") OBVIOUS
    <3>2. jumped \in BOOLEAN /\ GoOn("cond", Top.saved, jumped) BY <2>5, <3>1
    <3>3. Keeps(Top) BY <1>2, <1>3 DEF Noted
    <3>4. ~Top.jumped /\ ~jumped => Top.saved = OrZero(Top.last)
      BY <2>1, <2>2, <3>1, <3>3 DEF Keeps
    <3> QED BY <1>4, <1>6, <3>2, <3>4, GoOnNoted
  <2>6. ASSUME R.d \in {"break", "continue"}, Leave(status, [R EXCEPT !.n = @ - 1], FALSE)
        PROVE  Noted'
    <3>1. R \in Results BY <1>1, PartsOf DEF Flowing, Flows, R
    <3>2. PICK r : r = [R EXCEPT !.n = @ - 1] OBVIOUS
    <3>3. r.d = R.d BY <3>1, <3>2 DEF Results
    <3> QED BY <1>7, <2>6, <3>2, <3>3
  <2>7. ASSUME R.d \notin {"break", "continue"}, Leave(status, R, FALSE) PROVE Noted'
    <3>1. R.d # "none" BY <1>5 DEF Noted, Told
    <3> QED BY <1>7, <2>7, <3>1
  <2> QED BY <1>8, <2>3, <2>4, <2>5, <2>6, <2>7 DEF DivertLoop
<1>9. CASE DivertIf
  <2>1. Top.kind \notin Loops BY <1>9 DEF DivertIf, Loops
  <2> QED BY <1>7, <1>9, <2>1 DEF DivertIf
<1>10. CASE DivertItem BY <1>4, <1>6, <1>10, LeaveItemNoted DEF DivertItem
<1>11. CASE DivertSimple
  <2>1. Top.kind \notin Loops BY <1>11 DEF DivertSimple, Loops
  <2> QED BY <1>7, <1>11, <2>1 DEF DivertSimple
<1> QED BY <1>8, <1>9, <1>10, <1>11

\* Nothing happens to the constructs: a signal is caught, SIGINT interrupts, the
\* shell recovers or has finished.
LEMMA StayNoted ==
    ASSUME IInv, Noted,
           \/ \E what \in {"trap", "int"} : Catch(what)
           \/ Recover \/ ExitMain \/ UNCHANGED vars
    PROVE  Noted'
<1>1. Stacked BY PartsOf
<1>2. acts' = acts BY DEF Catch, Recover, ExitMain, vars
<1>3. CASE UNCHANGED <<flow, status>>
  <2>1. Told' BY <1>3 DEF Noted, Told, LoopStatus, R
  <2> QED BY <1>2, <1>3, <2>1 DEF Noted, Settled, Top, R
<1>4. CASE Recover \/ ExitMain
  <2>1. flow'.at \in {"list", "end"} /\ flow'.promise = None
    BY <1>4 DEF Recover, ExitMain, Ready, At
  <2>2. ~InBody(Top) BY <1>4 DEF Recover, ExitMain, InBody, Loops
  <2>3. Told' BY <2>1 DEF Told, LoopStatus
  <2> QED BY <1>1, <1>2, <2>2, <2>3, NotedStay
<1> QED BY <1>3, <1>4 DEF Catch, vars

\* A command returns.
LEMMA CommandReturnsNoted ==
    ASSUME IInv, Noted, CommandReturns
    PROVE  Noted'
<1>1. Stacked /\ Settings BY PartsOf
<1>2. status' \in Statuses /\ acts' = Ran(status') BY <1>1 DEF CommandReturns, Settings, Ran, Top
<1>3. flow'.promise = None /\ (flow'.at = "divert" => flow'.r.d # "none")
  BY DEF CommandReturns, At
<1> QED BY <1>1, <1>2, <1>3, NotedRan

\* SIGINT interrupts the command line.
LEMMA InterruptNoted ==
    ASSUME IInv, Noted, InterruptCommand
    PROVE  Noted'
<1>1. Stacked /\ Settings /\ Flowing BY PartsOf
<1>2. PICK i : i = Divert("interrupt", 0, FAILURE) OBVIOUS
<1>3. i \in Results /\ Dooms(i)
  <2>1. 0 \in 0..MaxCount /\ FAILURE \in Statuses BY ExecutionAssumption DEF Statuses
  <2> QED BY <1>2, <2>1, DivertIs DEF Dooms
<1>4. R \in Results BY <1>1 DEF Flowing, Flows, R
<1>5. PICK r : r = Combined(R, i) OBVIOUS
<1>6. Dooms(r) BY <1>3, <1>4, <1>5, CombinedIs
<1>7. r.d \notin {"none", "break", "continue"} BY <1>6 DEF Dooms
<1>8. flow' = At("divert", r) /\ status' = status BY <1>2, <1>5 DEF InterruptCommand
<1>9. flow'.at = "divert" /\ R' = r /\ flow'.promise = None BY <1>8 DEF At, R
<1>10. ~Settled' BY <1>7, <1>9 DEF Settled
<1>11. Told' BY <1>7, <1>9 DEF Told, LoopStatus
<1>12. CASE flow.at = "command"
  <2>1. status' \in Statuses /\ acts' = Ran(status')
    BY <1>1, <1>8, <1>12 DEF InterruptCommand, Settings, Ran, Top
  <2>2. flow'.at = "divert" => flow'.r.d # "none" BY <1>7, <1>9 DEF R
  <2> QED BY <1>1, <1>9, <2>1, <2>2, NotedRan
<1>13. CASE flow.at # "command"
  <2>1. acts' = acts BY <1>13 DEF InterruptCommand
  <2> QED BY <1>1, <1>10, <1>11, <2>1, NotedStay
<1> QED BY <1>12, <1>13

\* A trap action begins.
LEMMA RunTrapNoted ==
    ASSUME IInv, Noted, RunTrap
    PROVE  Noted'
<1>1. Stacked /\ Flowing /\ Settings BY PartsOf
<1>2. PICK n : n = Len(acts) OBVIOUS
<1>3. n \in 1..n /\ acts \in [1..n -> Acts] /\ Top = acts[n] /\ Top \in Acts
  BY <1>1, <1>2, StackIs
<1>4. status \in Statuses /\ R \in Results BY <1>1 DEF Flowing, Flows, R, Settings
<1>5. PICK a : a = Act("trap", "body", status, R) OBVIOUS
<1>6. a \in Acts /\ a.kind = "trap" /\ a.phase = "body"
  <2>1. "trap" \in AllConstructs \cup ReadEvalLoops BY DEF ReadEvalLoops
  <2> QED BY <1>4, <1>5, <2>1, ActIs
<1>7. a.saved = status /\ ~a.ran BY <1>5 DEF Act
<1>8. \E b \in Acts : /\ b.kind = Top.kind /\ b.saved = Top.saved /\ Keeps(b)
                      /\ InBody(b) => b.last = status
                      /\ Pushed(acts', n, b, a)
  <2>1. CASE flow.at = "command"
    <3>1. PICK as : as = Ran(status) OBVIOUS
    <3>2. PICK b \in Acts : /\ as = [acts EXCEPT ![n] = b] /\ Keeps(b)
                            /\ b.kind = Top.kind /\ b.saved = Top.saved
                            /\ InBody(b) => b.last = status
      BY <1>1, <1>2, <1>4, <3>1, RanNotes
    <3>3. Pushed(Append(as, a), n, b, a) BY <1>1, <1>2, <1>6, <3>2, PushedIs
    <3>4. acts' = Append(as, a) BY <1>5, <2>1, <3>1 DEF RunTrap
    <3> QED BY <3>2, <3>3, <3>4
  <2>2. CASE flow.at # "command"
    <3>1. acts' = Append(acts, a) BY <1>5, <2>2 DEF RunTrap
    <3>2. acts = [acts EXCEPT ![n] = Top] BY <1>3
    <3>3. Pushed(Append(acts, a), n, Top, a) BY <1>1, <1>2, <1>3, <1>6, <3>2, PushedIs
    <3>4. ~InBody(Top) BY <2>2 DEF RunTrap, AtTrapPoint, ReadEvalLoops, InBody, Loops
    <3>5. Keeps(Top) BY <1>2, <1>3 DEF Noted
    <3> QED BY <1>3, <3>1, <3>3, <3>4, <3>5
  <2> QED BY <2>1, <2>2
<1>9. PICK b \in Acts : /\ b.kind = Top.kind /\ b.saved = Top.saved /\ Keeps(b)
                        /\ InBody(b) => b.last = status
                        /\ Pushed(acts', n, b, a)
  BY <1>8
<1>10. Keeps(a) BY <1>6 DEF Keeps, Loops
<1>11. GivesBack(b, a) BY <1>7, <1>9 DEF GivesBack
<1>12. flow'.at = "list" /\ flow'.promise = None BY DEF RunTrap, Ready, At
<1>13. Told' BY <1>12 DEF Told, LoopStatus
<1> QED BY <1>1, <1>2, <1>6, <1>7, <1>9, <1>10, <1>11, <1>12, <1>13, NotedPush

\* A trap action is over, and the loop below finds its status as it was.
LEMMA LeaveTrapNoted ==
    ASSUME IInv, Noted, EndTrap \/ DivertTrap
    PROVE  Noted'
<1>1. Stacked /\ Flowing /\ Settings BY PartsOf
<1>2. PICK n : n = Len(acts) OBVIOUS
<1>3. PICK m : m = n - 1 OBVIOUS
<1>4. n \in Nat /\ n > 0 /\ n \in 1..n /\ Top = acts[n] /\ Top \in Acts /\ (Top.kind = "main" <=> n = 1)
  BY <1>1, <1>2, StackIs
<1>5. Top.kind = "trap" BY DEF EndTrap, DivertTrap
<1>6. n > 1 /\ m \in 1..n - 1 /\ m + 1 = n BY <1>3, <1>4, <1>5
<1>7. PICK r \in Results : LeaveTrap(r)
  <2>1. R \in Results BY <1>1 DEF Flowing, Flows, R
  <2> QED BY <2>1, ContinueIs DEF EndTrap, DivertTrap
<1>8. PICK t : t = TrapResult(r) OBVIOUS
<1>9. t \in Results /\ t.d = r.d BY <1>1, <1>7, <1>8, TrapResultIs
<1>10. PICK q : q = Combined(Top.held, t) OBVIOUS
<1>11. Top.held \in Results BY <1>4 DEF Acts
<1>12. r.d = "interrupt" => q.d \notin {"none", "break", "continue"}
  <2>1. Dooms(t) => Dooms(q) BY <1>9, <1>10, <1>11, CombinedIs
  <2> QED BY <1>9, <2>1 DEF Dooms
<1>13. /\ acts' = Below /\ status' = IF r.d = "interrupt" THEN status ELSE Top.saved
       /\ flow' = At(IF q.d = "none" THEN "list" ELSE "divert", q)
  BY <1>7, <1>8, <1>10 DEF LeaveTrap, TrapStatus
<1>14. /\ flow'.promise = None /\ R' = q
       /\ flow'.at = IF q.d = "none" THEN "list" ELSE "divert"
  BY <1>13 DEF At, R
<1>15. Told' BY <1>14 DEF Told, LoopStatus
<1>16. ASSUME Settled', InBody(acts[m]) PROVE status' = acts[m].last
  <2>1. r.d # "interrupt" BY <1>12, <1>14, <1>16 DEF Settled
  <2>2. GivesBack(acts[m], acts[n]) BY <1>2, <1>6 DEF Noted
  <2> QED BY <1>4, <1>5, <1>13, <1>16, <2>1, <2>2 DEF GivesBack
<1> QED BY <1>1, <1>2, <1>3, <1>6, <1>13, <1>15, <1>16, BelowNoted

\* A process ends, or its EXIT trap does.
LEMMA ProcessNoted ==
    ASSUME IInv, Noted,
           \/ \E runsTrap \in BOOLEAN :
                 \/ EndMain(runsTrap) \/ DivertMain(runsTrap)
                 \/ EndSubshell(runsTrap) \/ DivertSubshell(runsTrap)
           \/ EndExitTrap \/ DivertExitTrap \/ ExitSubshell \/ SubshellHalts
    PROVE  Noted'
<1>1. Stacked /\ Flowing /\ Settings BY PartsOf
<1>2. PICK n : n = Len(acts) OBVIOUS
<1>3. /\ n \in Nat /\ n > 0 /\ n \in 1..n /\ acts \in [1..n -> Acts] /\ Top = acts[n]
      /\ Top \in Acts /\ (Top.kind = "main" <=> n = 1)
  BY <1>1, <1>2, StackIs
<1>4. R \in Results /\ status \in Statuses BY <1>1 DEF Flowing, Flows, R, Settings
<1>5. ASSUME NEW r \in Results, NEW runsTrap \in BOOLEAN, EndProcess(r, runsTrap),
             Top.kind \in {"main", "subshell"}
      PROVE  Noted'
  <2>1. PICK b : b = [Top EXCEPT !.phase = "exit"] OBVIOUS
  <2>2. b \in Acts /\ b.kind = Top.kind BY <1>3, <2>1 DEF Acts
  <2>3. Keeps(b) /\ ~InBody(b) /\ b.kind # "trap" BY <1>5, <2>2 DEF Keeps, InBody, Loops
  <2>4. PICK bs : bs = Exiting OBVIOUS
  <2>5. bs = [acts EXCEPT ![n] = b] BY <1>2, <1>3, <2>1, <2>4 DEF Exiting
  <2>6. flow' = Ready BY <1>5 DEF EndProcess, RunExitTrap
  <2>7. flow'.at = "list" /\ flow'.promise = None BY <2>6 DEF Ready, At
  <2>8. Told' BY <2>7 DEF Told, LoopStatus
  <2>9. CASE ~runsTrap
    <3>1. acts' = [acts EXCEPT ![n] = b] BY <1>5, <2>4, <2>5, <2>9 DEF EndProcess, Exiting
    <3> QED BY <1>1, <1>2, <2>2, <2>3, <2>8, <3>1, NotedChange
  <2>10. CASE runsTrap
    <3>1. PICK s : s = ApplyResult(status, r) OBVIOUS
    <3>2. s \in Statuses BY <1>4, <3>1, ApplyIs
    <3>3. PICK a : a = Act("exittrap", "body", s, r) OBVIOUS
    <3>4. a \in Acts /\ a.kind = "exittrap"
      <4>1. "exittrap" \in AllConstructs \cup ReadEvalLoops BY DEF ReadEvalLoops
      <4> QED BY <3>2, <3>3, <4>1, ActIs
    <3>5. ~a.ran BY <3>3 DEF Act
    <3>6. Keeps(a) /\ GivesBack(b, a) BY <3>4 DEF Keeps, GivesBack, Loops
    <3>7. acts' = Append(bs, a) BY <1>5, <2>4, <2>10, <3>1, <3>3 DEF EndProcess, RunExitTrap, Exiting
    <3>8. Pushed(Append(bs, a), n, b, a) BY <1>1, <1>2, <2>2, <2>5, <3>4, PushedIs
    <3>9. Pushed(acts', n, b, a) BY <3>7, <3>8
    <3> QED
      BY <1>1, <1>2, <2>2, <2>3, <2>7, <2>8, <3>4, <3>5, <3>6, <3>9, NotedPush
  <2> QED BY <2>9, <2>10
<1>6. ASSUME NEW runsTrap \in BOOLEAN,
             \/ EndMain(runsTrap) \/ DivertMain(runsTrap)
             \/ EndSubshell(runsTrap) \/ DivertSubshell(runsTrap)
      PROVE  Noted'
  <2>1. Divert("none", 0, SUCCESS) \in Results
    <3>1. 0 \in 0..MaxCount /\ SUCCESS \in Statuses BY ExecutionAssumption DEF Statuses
    <3> QED BY <3>1, DivertIs
  <2>2. \E r \in Results : EndProcess(r, runsTrap) /\ Top.kind \in {"main", "subshell"}
    BY <1>4, <1>6, <2>1, ContinueIs DEF EndMain, DivertMain, EndSubshell, DivertSubshell
  <2> QED BY <1>5, <2>2
<1>7. PICK m : m = n - 1 OBVIOUS
<1>8. ASSUME EndExitTrap \/ DivertExitTrap PROVE Noted'
  <2>1. Top.kind = "exittrap" BY <1>8 DEF EndExitTrap, DivertExitTrap
  <2>2. n > 1 /\ m \in 1..n - 1 /\ m + 1 = n BY <1>3, <1>7, <2>1
  <2>3. acts[m].phase = "exit" BY <1>1, <1>2, <1>3, <2>1, <2>2 DEF Stacked
  <2>4. ~InBody(acts[m]) BY <2>3 DEF InBody
  <2>5. acts' = Below /\ flow' = Ready
    BY <1>8 DEF EndExitTrap, DivertExitTrap, LeaveExitTrap
  <2>6. Told' BY <2>5 DEF Told, LoopStatus, Ready, At
  <2> QED BY <1>1, <1>2, <1>7, <2>2, <2>4, <2>5, <2>6, BelowNoted
<1>9. ASSUME NEW s, NEW r, NEW why, ParentGoesOn(s, r, why) PROVE Noted'
  <2>1. n > 1 BY <1>3, <1>9 DEF ParentGoesOn
  <2>2. PICK simple : flow' = [At("command", r) EXCEPT !.simple = simple]
    BY <1>9 DEF ParentGoesOn
  <2>3. flow'.at = "command" /\ flow'.promise = None BY <2>2 DEF At
  <2>4. Told' /\ ~Settled' BY <2>3 DEF Told, LoopStatus, Settled
  <2>5. acts' = Below BY <1>9 DEF ParentGoesOn
  <2> QED BY <1>1, <1>2, <2>1, <2>4, <2>5, BelowNoted
<1>10. ASSUME ExitSubshell \/ SubshellHalts PROVE Noted'
  BY <1>9, <1>10 DEF ExitSubshell, SubshellHalts
<1> QED BY <1>6, <1>8, <1>10

\* What is noted about loops is right after every step.
LEMMA NextNoted == IInv /\ Noted /\ [Next]_vars => Noted'
<1> SUFFICES ASSUME IInv, Noted, [Next]_vars PROVE Noted' OBVIOUS
<1>1. CASE Leaf BY <1>1, LeafNoted
<1>2. CASE ConstructStep
  <2>1. CASE \E kind \in Constructs : Enter(kind) BY <2>1, EnterNoted
  <2>2. CASE DivertLoop \/ DivertIf \/ DivertItem \/ DivertSimple BY <2>2, DivertNoted
  <2>3. CASE \/ EndLoopCondition \/ EndLoopBody \/ NextValue \/ EndFor \/ EndCase
             \/ EndIfCondition \/ EndIfBody \/ EndNot \/ EndAndOr \/ EndSimple \/ ForAssignError
             \/ \E runs \in BOOLEAN : EndAndOrCondition(runs)
    BY <2>3, EndNoted
  <2> QED BY <1>2, <2>1, <2>2, <2>3 DEF ConstructStep
<1>3. CASE TrapStep
  BY <1>3, StayNoted, CommandReturnsNoted, InterruptNoted, RunTrapNoted, LeaveTrapNoted DEF TrapStep
<1>4. CASE ProcessStep BY <1>4, ProcessNoted, StayNoted DEF ProcessStep
<1>5. CASE UNCHANGED vars BY <1>5, StayNoted
<1> QED BY <1>1, <1>2, <1>3, <1>4, <1>5 DEF Next

\* A loop that no continue cut short has the exit status of the last command of
\* its body, or zero: neither its condition nor a trap action between two rounds
\* gets into it.
THEOREM LoopsTellStatus == Spec => []LoopStatus
<1>1. Init => Noted
  <2> SUFFICES ASSUME Init PROVE Noted OBVIOUS
  <2>1. PICK a : a = Act("main", "body", SUCCESS, Continue) OBVIOUS
  <2>2. a.kind = "main" BY <2>1 DEF Act
  <2>3. acts = <<a>> BY <2>1 DEF Init
  <2>4. Len(acts) = 1 /\ acts[1] = a /\ Top = a BY <2>3 DEF Top
  <2>5. Keeps(a) /\ ~InBody(a) BY <2>2 DEF Keeps, InBody, Loops
  <2>6. Told BY DEF Init, Ready, At, Told, LoopStatus
  <2>7. (\A i : i \notin 1..1 - 1) /\ \A i \in 1..1 : i = 1 OBVIOUS
  <2> QED BY <2>4, <2>5, <2>6, <2>7 DEF Noted
<1>2. Noted => LoopStatus BY DEF Noted, Told
<1> QED BY <1>1, <1>2, NextNoted, Invariance, PTL DEF Spec

-----------------------------------------------------------------------------
(***************************************************************************)
(* Stacks of variables.                                                    *)
(***************************************************************************)

\* Highest gives the greatest element of a set of numbers that is bounded.
LEMMA HighestIs ==
    ASSUME NEW b \in Nat, NEW X, X \subseteq 0..b, X # {}
    PROVE  Highest(X) \in X /\ \A j \in X : j <= Highest(X)
<1>1. \E i \in X : \A j \in X : j <= i BY Greatest
<1> QED BY <1>1 DEF Highest

\* There is only one.
LEMMA HighestIsOnly ==
    ASSUME NEW b \in Nat, NEW X, X \subseteq 0..b, NEW h \in X, \A j \in X : j <= h
    PROVE  Highest(X) = h
<1>1. Highest(X) \in X /\ \A j \in X : j <= Highest(X) BY HighestIs
<1>2. Highest(X) \in 0..b /\ h \in 0..b BY <1>1
<1> QED BY <1>1, <1>2

Entries == [var : Variable, ctx : 1..MaxContexts]

\* s is a stack of m variables, each of a higher context than those below.
Ordered(s, m) ==
    /\ s \in Seq(Entries) /\ m = Len(s)
    /\ \A i, k \in 1..m : i < k => s[i].ctx < s[k].ctx

\* r is s with variable v in context t, at place p, and nothing above.
PutAt(r, s, m, t, v, p) ==
    /\ r \in Seq(Entries) /\ Len(r) = p
    /\ r[p] = [var |-> v, ctx |-> t]
    /\ \A k \in 1..p - 1 : r[k] = s[k] /\ s[k].ctx < t
    /\ \A k \in p..m : s[k].ctx >= t

\* What is in a stack.
LEMMA InStack ==
    ASSUME NEW s, NEW m, Ordered(s, m)
    PROVE  /\ m \in Nat
           /\ \A k \in 1..m : s[k] \in Entries /\ s[k].ctx \in 1..MaxContexts
                              /\ s[k].var \in Variable
<1>1. s \in Seq(Entries) /\ m = Len(s) BY DEF Ordered
<1>2. m \in Nat BY <1>1, LenProperties
<1>3. \A k \in 1..m : s[k] \in Entries BY <1>1, ElementOfSeq
<1> QED BY <1>2, <1>3 DEF Entries

\* A stack is one no variable of which is out of order.
LEMMA PutIsOrdered ==
    ASSUME NEW s, NEW m, Ordered(s, m), NEW t \in 1..MaxContexts, NEW v \in Variable,
           NEW p \in 1..m + 1, NEW r, PutAt(r, s, m, t, v, p)
    PROVE  Ordered(r, p)
<1>1. m \in Nat /\ p \in Nat BY InStack
<1>2. ASSUME NEW i \in 1..p, NEW k \in 1..p, i < k PROVE r[i].ctx < r[k].ctx
  <2>1. i \in 1..p - 1 /\ i \in 1..m BY <1>1, <1>2
  <2>2. r[i] = s[i] /\ s[i].ctx < t BY <2>1 DEF PutAt
  <2>3. CASE k = p BY <2>2, <2>3 DEF PutAt
  <2>4. CASE k # p
    <3>1. k \in 1..p - 1 /\ k \in 1..m BY <1>1, <2>4
    <3>2. r[k] = s[k] BY <3>1 DEF PutAt
    <3> QED BY <1>2, <2>1, <2>2, <3>1, <3>2 DEF Ordered
  <2> QED BY <2>3, <2>4
<1> QED BY <1>2 DEF Ordered, PutAt

\* Another value for the variable on top.
LEMMA PutAgain ==
    ASSUME NEW s, NEW m \in Nat, NEW t \in 1..MaxContexts, NEW v, NEW p \in 1..m + 1, NEW r,
           PutAt(r, s, m, t, v, p), NEW w \in Variable, NEW q,
           q = [r EXCEPT ![p] = [var |-> w, ctx |-> t]]
    PROVE  PutAt(q, s, m, t, w, p)
<1>1. p \in Nat /\ r \in Seq(Entries) /\ Len(r) = p BY DEF PutAt
<1>2. PICK e : e = [var |-> w, ctx |-> t] OBVIOUS
<1>3. e \in Entries BY <1>2 DEF Entries
<1>4. p \in 1..Len(r) BY <1>1
<1>5. q = [r EXCEPT ![p] = e] BY <1>2
<1>6. q \in Seq(Entries) /\ Len(q) = p /\ \A j \in 1..p : q[j] = IF j = p THEN e ELSE r[j]
  BY <1>1, <1>3, <1>4, <1>5, ExceptSeq
<1>7. q[p] = e BY <1>1, <1>4, <1>6
<1>8. \A k \in 1..p - 1 : q[k] = r[k] BY <1>1, <1>6
<1> QED BY <1>2, <1>6, <1>7, <1>8 DEF PutAt
-----------------------------------------------------------------------------
(***************************************************************************)
(* What get_or_create_variable makes of a stack.                           *)
(***************************************************************************)

\* The last variable of a stack and the stack without it.
LEMMA LastIs ==
    ASSUME NEW s, NEW m, Ordered(s, m)
    PROVE  /\ s = <<>> <=> m = 0
           /\ Last(s) = s[m]
           /\ m # 0 => m \in 1..m /\ s[m].ctx \in 1..MaxContexts /\ s[m].var \in Variable
<1>1. m \in Nat /\ m = Len(s) /\ s \in Seq(Entries) BY InStack DEF Ordered
<1>2. s = <<>> <=> m = 0 BY <1>1, EmptySeq
<1>3. m # 0 => m \in 1..m BY <1>1
<1>4. m # 0 => s[m].ctx \in 1..MaxContexts /\ s[m].var \in Variable BY <1>3, InStack
<1> QED BY <1>1, <1>2, <1>3, <1>4 DEF Last

\* The default is a variable.
LEMMA DefaultIs == Default \in Variable /\ ~Default.ro
BY DEF Default, Variable

\* The variable a stack stands for.
LEMMA GetIs ==
    ASSUME NEW s, NEW m, Ordered(s, m)
    PROVE  Get(s).var = (IF m = 0 THEN Default ELSE s[m].var) /\ Get(s).var \in Variable
BY LastIs, DefaultIs DEF Get

\* A variable more at the end.
LEMMA PutAtEnd ==
    ASSUME NEW s, NEW m, Ordered(s, m), NEW k \in 0..m, NEW t \in 1..MaxContexts,
           NEW v \in Variable, NEW r, r = Append(SubSeq(s, 1, k), [var |-> v, ctx |-> t]),
           \A i \in 1..k : s[i].ctx < t, \A i \in k + 1..m : s[i].ctx >= t
    PROVE  PutAt(r, s, m, t, v, k + 1)
<1>1. m \in Nat /\ k \in Nat BY InStack
<1>2. \A i \in 1..k : s[i] \in Entries BY <1>1, InStack
<1>3. PICK f : f = SubSeq(s, 1, k) OBVIOUS
<1>4. f \in Seq(Entries) /\ Len(f) = (IF 1 <= k THEN k - 1 + 1 ELSE 0)
      /\ \A i \in 1..k - 1 + 1 : f[i] = s[1 + i - 1]
  BY <1>1, <1>2, <1>3, SubSeqProperties
<1>5. Len(f) = k /\ \A i \in 1..k : f[i] = s[i]
  <2>1. k - 1 + 1 = k /\ (1 <= k \/ k = 0) BY <1>1
  <2>2. \A i \in 1..k : 1 + i - 1 = i BY <1>1
  <2> QED BY <1>4, <2>1, <2>2
<1>6. PICK e : e = [var |-> v, ctx |-> t] OBVIOUS
<1>7. e \in Entries BY <1>6 DEF Entries
<1>8. r = Append(f, e) BY <1>3, <1>6
<1>9. r \in Seq(Entries) /\ Len(r) = k + 1 /\ (\A i \in 1..k : r[i] = f[i]) /\ r[k + 1] = e
  BY <1>4, <1>5, <1>7, <1>8, AppendProperties
<1>10. k + 1 - 1 = k BY <1>1
<1> QED BY <1>5, <1>6, <1>9, <1>10 DEF PutAt

\* The variable on top, in the context on top.
LEMMA CopyPuts ==
    ASSUME NEW s, NEW m, Ordered(s, m), NEW n \in 1..MaxContexts, n = Len(contexts),
           \A k \in 1..m : s[k].ctx <= n, NEW r, r = CopyToVolatile(s)
    PROVE  \E p \in 1..m + 1 : PutAt(r, s, m, n, Get(s).var, p)
<1>1. m \in Nat /\ n \in Nat /\ m = Len(s) BY InStack, VariablesAssumption DEF Ordered
<1>2. CASE m = 0
  <2>1. s = <<>> BY <1>2, LastIs
  <2>2. r = <<[var |-> Default, ctx |-> n]>> BY <2>1 DEF CopyToVolatile
  <2>3. SubSeq(s, 1, 0) = <<>> BY SubSeqEmpty
  <2>4. r = Append(SubSeq(s, 1, 0), [var |-> Default, ctx |-> n]) BY <2>2, <2>3
  <2>5. 0 \in 0..m /\ (\A i \in 1..0 : s[i].ctx < n) /\ (\A i \in 0 + 1..m : s[i].ctx >= n)
    BY <1>2
  <2>6. PutAt(r, s, m, n, Default, 0 + 1) BY <2>4, <2>5, DefaultIs, PutAtEnd
  <2> QED BY <1>2, <2>6, GetIs
<1>3. CASE m # 0 /\ s[m].ctx = n
  <2>1. r = s /\ Get(s).var = s[m].var BY <1>3, LastIs, GetIs DEF CopyToVolatile
  <2>2. m \in 1..m /\ m \in 1..m + 1 BY <1>1, <1>3
  <2>3. s[m] = [var |-> s[m].var, ctx |-> n] BY <1>3, <2>2, InStack DEF Entries
  <2>4. ASSUME NEW k \in 1..m - 1 PROVE s[k].ctx < n
    <3>1. k \in 1..m /\ k < m BY <1>1
    <3> QED BY <1>3, <2>2, <3>1 DEF Ordered
  <2>5. ASSUME NEW k \in m..m PROVE s[k].ctx >= n
    <3>1. k = m BY <1>1
    <3> QED BY <1>1, <1>3, <3>1
  <2>6. PutAt(r, s, m, n, s[m].var, m) BY <1>1, <2>1, <2>3, <2>4, <2>5 DEF PutAt, Ordered
  <2> QED BY <2>1, <2>2, <2>6
<1>4. CASE m # 0 /\ s[m].ctx # n
  <2>1. r = Append(s, [var |-> s[m].var, ctx |-> n]) BY <1>4, LastIs DEF CopyToVolatile
  <2>2. SubSeq(s, 1, m) = s BY <1>1, SubSeqFull DEF Ordered
  <2>3. m \in 1..m /\ s[m].var \in Variable /\ s[m].ctx \in Nat BY <1>1, <1>4, LastIs
  <2>4. s[m].ctx < n BY <1>1, <1>4, <2>3
  <2>5. ASSUME NEW k \in 1..m PROVE s[k].ctx < n
    <3>1. CASE k = m BY <2>4, <3>1
    <3>2. CASE k # m
      <4>1. k < m BY <1>1, <3>2
      <4>2. s[k].ctx < s[m].ctx BY <2>3, <4>1 DEF Ordered
      <4>3. s[k].ctx \in Nat BY InStack
      <4> QED BY <1>1, <2>3, <2>4, <4>2, <4>3
    <3> QED BY <3>1, <3>2
  <2>6. \A k \in m + 1..m : s[k].ctx >= n BY <1>1
  <2>7. m \in 0..m /\ m + 1 \in 1..m + 1 BY <1>1
  <2>8. PutAt(r, s, m, n, s[m].var, m + 1) BY <2>1, <2>2, <2>3, <2>5, <2>6, <2>7, PutAtEnd
  <2> QED BY <1>4, <2>7, <2>8, GetIs
<1> QED BY <1>2, <1>3, <1>4

\* The context a variable moves to from the contexts from idx on: that of the
\* topmost regular one there, or idx.
Goal(s, m, idx, t) ==
    LET there == {k \in 1..m : s[k].ctx >= idx /\ IsRegular(s[k].ctx)}
    IN  \/ there = {} /\ t = idx
        \/ \E h \in there : t = s[h].ctx /\ \A k \in there : k <= h

\* move_to_regular: the variable in effect, in that context, and none above.
LEMMA MovePuts ==
    ASSUME NEW s, NEW m, Ordered(s, m), NEW idx \in 1..MaxContexts,
           NEW r, r = MoveToRegular(s, idx)
    PROVE  \E t \in 1..MaxContexts, v \in Variable, p \in 1..m + 1 :
              /\ PutAt(r, s, m, t, v, p)
              /\ Goal(s, m, idx, t)
              /\ p <= m => v = s[m].var
<1>1. m \in Nat /\ idx \in Nat /\ m = Len(s) BY InStack, VariablesAssumption DEF Ordered
<1>2. PICK there : there = {k \in 1..m : s[k].ctx >= idx /\ IsRegular(s[k].ctx)} OBVIOUS
<1>3. PICK low : low = {0} \cup {k \in 1..m : s[k].ctx < idx} OBVIOUS
<1>4. PICK h : h = Highest(there) OBVIOUS
<1>5. PICK b : b = Highest(low) OBVIOUS
<1>6. r = IF there # {} THEN [SubSeq(s, 1, h) EXCEPT ![h].var = Last(s).var]
          ELSE Append(SubSeq(s, 1, b),
                      [var |-> IF b = m THEN Default ELSE Last(s).var, ctx |-> idx])
  BY <1>1, <1>2, <1>3, <1>4, <1>5 DEF MoveToRegular
<1>7. CASE there # {}
  <2>1. there \subseteq 0..m BY <1>1, <1>2
  <2>2. h \in there /\ \A k \in there : k <= h BY <1>1, <1>4, <1>7, <2>1, HighestIs
  <2>3. h \in 1..m /\ h \in 1..m + 1 /\ h \in Nat /\ m # 0 BY <1>1, <1>2, <2>2
  <2>4. PICK t : t = s[h].ctx OBVIOUS
  <2>5. t \in 1..MaxContexts /\ s[h] \in Entries BY <2>3, <2>4, InStack
  <2>6. PICK v : v = s[m].var OBVIOUS
  <2>7. v \in Variable /\ Last(s).var = v BY <2>3, <2>6, LastIs
  <2>8. PICK f : f = SubSeq(s, 1, h) OBVIOUS
  <2>9. \A i \in 1..h : s[i] \in Entries
    <3>1. \A i \in 1..h : i \in 1..m BY <1>1, <2>3
    <3> QED BY <3>1, InStack
  <2>10. f \in Seq(Entries) /\ Len(f) = h /\ \A i \in 1..h : f[i] = s[i]
    <3>1. 1 <= h /\ h - 1 + 1 = h BY <2>3
    <3>2. f \in Seq(Entries) /\ Len(f) = (IF 1 <= h THEN h - 1 + 1 ELSE 0)
          /\ \A i \in 1..h - 1 + 1 : f[i] = s[1 + i - 1]
      BY <2>3, <2>8, <2>9, SubSeqProperties
    <3>3. \A i \in 1..h : 1 + i - 1 = i BY <2>3
    <3> QED BY <3>1, <3>2, <3>3
  <2>11. h \in 1..h BY <2>3
  <2>12. f[h] = [var |-> s[h].var, ctx |-> t] BY <2>4, <2>5, <2>10, <2>11 DEF Entries
  <2>13. r = [f EXCEPT ![h] = [f[h] EXCEPT !.var = v]] BY <1>6, <1>7, <2>7, <2>8
  <2>14. [f[h] EXCEPT !.var = v] = [var |-> v, ctx |-> t] BY <2>12
  <2>15. ASSUME NEW k \in 1..h - 1 PROVE f[k] = s[k] /\ s[k].ctx < t
    <3>1. k \in 1..h /\ k \in 1..m /\ k < h BY <1>1, <2>3
    <3> QED BY <2>3, <2>4, <2>10, <3>1 DEF Ordered
  <2>16. ASSUME NEW k \in h..m PROVE s[k].ctx >= t
    <3>1. k \in 1..m /\ (k = h \/ h < k) BY <1>1, <2>3
    <3>2. s[k].ctx \in Nat /\ s[h].ctx \in Nat BY <2>3, <3>1, InStack, VariablesAssumption
    <3>3. h < k => s[h].ctx < s[k].ctx BY <2>3, <3>1 DEF Ordered
    <3> QED BY <2>4, <3>1, <3>2, <3>3
  <2>17. PutAt(f, s, m, t, s[h].var, h) BY <2>10, <2>12, <2>15, <2>16 DEF PutAt
  <2>18. PutAt(r, s, m, t, v, h) BY <1>1, <2>3, <2>5, <2>7, <2>13, <2>14, <2>17, PutAgain
  <2>19. Goal(s, m, idx, t) BY <1>2, <2>2, <2>4 DEF Goal
  <2> QED BY <2>3, <2>5, <2>6, <2>7, <2>18, <2>19
<1>8. CASE there = {}
  <2>1. low \subseteq 0..m /\ low # {} BY <1>1, <1>3
  <2>2. b \in low /\ \A k \in low : k <= b BY <1>1, <1>5, <2>1, HighestIs
  <2>3. b \in 0..m /\ b + 1 \in 1..m + 1 /\ b \in Nat BY <1>1, <2>1, <2>2
  <2>4. PICK v : v = (IF b = m THEN Default ELSE s[m].var) OBVIOUS
  <2>5. m # 0 \/ b = m BY <1>1, <2>3
  <2>6. v \in Variable BY <2>4, <2>5, LastIs, DefaultIs
  <2>7. r = Append(SubSeq(s, 1, b), [var |-> v, ctx |-> idx]) BY <1>6, <1>8, <2>4, LastIs
  <2>8. ASSUME NEW i \in 1..b PROVE s[i].ctx < idx
    <3>1. b \in 1..m /\ s[b].ctx < idx BY <1>3, <2>2, <2>3
    <3>2. i \in 1..m /\ (i = b \/ i < b) BY <1>1, <2>3
    <3>3. i < b => s[i].ctx < s[b].ctx BY <3>1, <3>2 DEF Ordered
    <3>4. s[i].ctx \in Nat /\ s[b].ctx \in Nat BY <3>1, <3>2, InStack
    <3> QED BY <1>1, <3>1, <3>2, <3>3, <3>4
  <2>9. ASSUME NEW i \in b + 1..m PROVE s[i].ctx >= idx
    <3>1. i \in 1..m /\ ~(i <= b) BY <1>1, <2>3
    <3>2. i \notin low BY <2>2, <3>1
    <3>3. s[i].ctx \in Nat BY <3>1, InStack
    <3> QED BY <1>1, <1>3, <3>1, <3>2, <3>3
  <2>10. PutAt(r, s, m, idx, v, b + 1) BY <2>3, <2>6, <2>7, <2>8, <2>9, PutAtEnd
  <2>11. Goal(s, m, idx, idx) BY <1>2, <1>8 DEF Goal
  <2>12. b + 1 <= m => b # m BY <1>1, <2>3
  <2> QED BY <2>3, <2>4, <2>6, <2>10, <2>11, <2>12
<1> QED BY <1>7, <1>8

\* Another variable on top.
LEMMA VariablePuts ==
    ASSUME NEW s, NEW m \in Nat, NEW t \in 1..MaxContexts, NEW v, NEW p \in 1..m + 1, NEW r,
           PutAt(r, s, m, t, v, p), NEW w \in Variable, NEW q,
           q = [r EXCEPT ![Len(r)].var = w]
    PROVE  PutAt(q, s, m, t, w, p)
<1>1. Len(r) = p /\ r[p] = [var |-> v, ctx |-> t] BY DEF PutAt
<1>2. q = [r EXCEPT ![p] = [r[p] EXCEPT !.var = w]] BY <1>1
<1>3. [r[p] EXCEPT !.var = w] = [var |-> w, ctx |-> t] BY <1>1
<1>4. q = [r EXCEPT ![p] = [var |-> w, ctx |-> t]] BY <1>2, <1>3
<1> QED BY <1>4, PutAgain

\* The variable on top is exported.
LEMMA ExportPuts ==
    ASSUME NEW s, NEW m \in Nat, NEW t \in 1..MaxContexts, NEW v \in Variable,
           NEW p \in 1..m + 1, NEW r, PutAt(r, s, m, t, v, p), NEW q,
           q = Exported(r)
    PROVE  \E w \in Variable : PutAt(q, s, m, t, w, p) /\ w.ro = v.ro /\ w.value = v.value
<1>1. Len(r) = p /\ r[p] = [var |-> v, ctx |-> t] BY DEF PutAt
<1>2. PICK w : w = [v EXCEPT !.exported = TRUE] OBVIOUS
<1>3. w \in Variable /\ w.ro = v.ro /\ w.value = v.value BY <1>2 DEF Variable
<1>4. q = [r EXCEPT ![p] = [r[p] EXCEPT !.var = [r[p].var EXCEPT !.exported = TRUE]]]
  BY <1>1 DEF Exported
<1>5. [r[p].var EXCEPT !.exported = TRUE] = w BY <1>1, <1>2
<1>6. [r[p] EXCEPT !.var = w] = [var |-> w, ctx |-> t] BY <1>1
<1>7. q = [r EXCEPT ![p] = [var |-> w, ctx |-> t]] BY <1>4, <1>5, <1>6
<1>8. PutAt(q, s, m, t, w, p) BY <1>3, <1>7, PutAgain
<1> QED BY <1>3, <1>8

\* The variable on top is assigned.
LEMMA AssignPuts ==
    ASSUME NEW s, NEW m \in Nat, NEW t \in 1..MaxContexts, NEW v \in Variable,
           NEW p \in 1..m + 1, NEW r, PutAt(r, s, m, t, v, p), NEW x \in Values, NEW q,
           q = Assigned(r, x)
    PROVE  \E w \in Variable : PutAt(q, s, m, t, w, p) /\ w.ro = v.ro
<1>1. Len(r) = p /\ r[p] = [var |-> v, ctx |-> t] BY DEF PutAt
<1>2. PICK w : w = [v EXCEPT !.value = x] OBVIOUS
<1>3. w \in Variable /\ w.ro = v.ro BY <1>2 DEF Variable
<1>4. q = [r EXCEPT ![p] = [r[p] EXCEPT !.var = [r[p].var EXCEPT !.value = x]]]
  BY <1>1 DEF Assigned
<1>5. [r[p].var EXCEPT !.value = x] = w BY <1>1, <1>2
<1>6. [r[p] EXCEPT !.var = w] = [var |-> w, ctx |-> t] BY <1>1
<1>7. q = [r EXCEPT ![p] = [var |-> w, ctx |-> t]] BY <1>4, <1>5, <1>6
<1>8. PutAt(q, s, m, t, w, p) BY <1>3, <1>7, PutAgain
<1> QED BY <1>3, <1>8

\* What the top of a stack is after that.
LEMMA TopIs ==
    ASSUME NEW s, NEW m, NEW t, NEW v, NEW p, NEW r, PutAt(r, s, m, t, v, p)
    PROVE  Last(r).var = v /\ (IsReadOnly(r) <=> v.ro)
BY DEF PutAt, Last, IsReadOnly

-----------------------------------------------------------------------------
(***************************************************************************)
(* The steps that change one name.                                         *)
(***************************************************************************)

Scopings == {"Global", "Local", "Volatile"}
Tasks == [do : {"run", "start", "leave", "unwind"},
          kind : {"none", "function", "builtin", "external"}, assigns : Assigns]

\* The invariant without what it says of the task.
Stored ==
    /\ all \in [Names -> Seq(Entries)]
    /\ contexts \in Seq([kind : {"Regular", "Volatile"}, params : ParamLists])
    /\ allexport \in BOOLEAN
    /\ open \in Seq([base : 1..MaxContexts, touched : SUBSET Names, before : [Names -> Variable]])
    /\ Normalized /\ Nested /\ Undoable /\ CopiesRespect

LEMMA TwoParts == VIInv <=> Stored /\ task \in Tasks /\ Started
BY DEF VIInv, VTypeOK, Stored, Entries, Tasks

\* There is at least the base context, and the bound is respected.
LEMMA ContextsAre ==
    ASSUME Stored
    PROVE  /\ Len(contexts) \in 1..MaxContexts /\ Len(contexts) \in Nat
           /\ 1 \in 1..Len(contexts) /\ IsRegular(1)
           /\ \A i \in 1..Len(contexts) :
                 /\ i \in 1..MaxContexts
                 /\ contexts[i] \in [kind : {"Regular", "Volatile"}, params : ParamLists]
                 /\ contexts[i].kind \in {"Regular", "Volatile"} /\ contexts[i].params \in ParamLists
<1>1. PICK n : n = Len(contexts) OBVIOUS
<1>2. n \in 1..MaxContexts /\ n \in Nat /\ MaxContexts \in Nat BY <1>1, VariablesAssumption DEF Stored, Nested
<1>3. IsRegular(1) /\ 1 \in 1..n BY <1>2 DEF Stored, Nested, IsRegular
<1>4. \A i \in 1..n : i \in 1..MaxContexts BY <1>2
<1>5. \A i \in 1..n : contexts[i] \in [kind : {"Regular", "Volatile"}, params : ParamLists]
  BY <1>1, ElementOfSeq DEF Stored
<1>6. \A i \in 1..n : contexts[i].kind \in {"Regular", "Volatile"} /\ contexts[i].params \in ParamLists
  BY <1>5
<1> QED BY <1>1, <1>2, <1>3, <1>4, <1>5, <1>6

\* The topmost regular context.
LEMMA TopmostIs ==
    ASSUME Stored
    PROVE  /\ TopmostRegular \in 1..Len(contexts) /\ IsRegular(TopmostRegular)
           /\ \A i \in 1..Len(contexts) : IsRegular(i) => i <= TopmostRegular
<1>1. PICK X : X = {i \in 1..Len(contexts) : IsRegular(i)} OBVIOUS
<1>2. X \subseteq 0..Len(contexts) /\ X # {} BY <1>1, ContextsAre
<1>3. Highest(X) \in X /\ \A j \in X : j <= Highest(X) BY <1>2, ContextsAre, HighestIs
<1> QED BY <1>1, <1>3 DEF TopmostRegular

\* The stack of a name.
LEMMA StackOf ==
    ASSUME Stored, NEW n \in Names
    PROVE  /\ Ordered(all[n], Len(all[n]))
           /\ \A k \in 1..Len(all[n]) : all[n][k].ctx \in 1..Len(contexts)
BY DEF Stored, Normalized, Ordered

\* r is the stack of name n with variable v in a context that scope chooses.
Changes(n, scope, r, t, v, p) ==
    LET s == all[n]
        m == Len(all[n])
    IN  /\ t \in 1..Len(contexts) /\ v \in Variable /\ p \in 1..m + 1
        /\ PutAt(r, s, m, t, v, p)
        /\ scope = "Volatile" => t = Len(contexts)
        /\ scope = "Global" => Goal(s, m, 1, t)
        /\ scope = "Local" => Goal(s, m, TopmostRegular, t)
        /\ m # 0 /\ (p <= m \/ scope = "Volatile") => Abstract!Respects(v, s[m].var)

\* Taking the place of another is transitive.
LEMMA RespectsAll ==
    ASSUME NEW u, NEW v, NEW w, Abstract!Respects(u, v), Abstract!Respects(v, w)
    PROVE  Abstract!Respects(u, w)
BY DEF Abstract!Respects

\* A change that is changed further.
LEMMA ChangesMore ==
    ASSUME Stored, NEW n \in Names, NEW scope, NEW r, NEW t, NEW v, NEW p,
           Changes(n, scope, r, t, v, p), NEW w \in Variable, Abstract!Respects(w, v), NEW q,
           PutAt(q, all[n], Len(all[n]), t, w, p)
    PROVE  Changes(n, scope, q, t, w, p)
<1>1. PICK u : u = all[n][Len(all[n])].var OBVIOUS
<1>2. Abstract!Respects(v, u) => Abstract!Respects(w, u) BY RespectsAll
<1> QED BY <1>1, <1>2 DEF Changes

\* What a change does to the variable on top.
LEMMA ChangesTop ==
    ASSUME Stored, NEW n \in Names, NEW scope, NEW r, NEW t, NEW v, NEW p,
           Changes(n, scope, r, t, v, p)
    PROVE  /\ Len(all[n]) \in Nat /\ t \in 1..MaxContexts /\ v \in Variable
           /\ p \in 1..Len(all[n]) + 1 /\ PutAt(r, all[n], Len(all[n]), t, v, p)
           /\ Last(r).var = v /\ (IsReadOnly(r) <=> v.ro)
<1>1. Len(all[n]) \in Nat BY StackOf, InStack
<1>2. t \in 1..Len(contexts) /\ v \in Variable /\ p \in 1..Len(all[n]) + 1
      /\ PutAt(r, all[n], Len(all[n]), t, v, p)
  BY DEF Changes
<1>3. t \in 1..MaxContexts BY <1>2, ContextsAre
<1> QED BY <1>1, <1>2, <1>3, TopIs

\* get_or_new makes a change without an assignment.
LEMMA NewChanges ==
    ASSUME Stored, NEW n \in Names, NEW scope \in Scopings
    PROVE  \E t, v, p : Changes(n, scope, GetOrNew(all[n], scope), t, v, p)
<1>1. PICK s : s = all[n] OBVIOUS
<1>2. PICK m : m = Len(s) OBVIOUS
<1>3. PICK r : r = GetOrNew(s, scope) OBVIOUS
<1>4. Ordered(s, m) /\ m \in Nat /\ \A k \in 1..m : s[k].ctx \in 1..Len(contexts)
  BY <1>1, <1>2, StackOf, InStack
<1>5. PICK c : c = Len(contexts) OBVIOUS
<1>6. c \in 1..MaxContexts /\ c \in Nat BY <1>5, ContextsAre
<1>7. CASE scope = "Volatile"
  <2>1. r = CopyToVolatile(s) BY <1>3, <1>7 DEF GetOrNew
  <2>2. \A k \in 1..m : s[k].ctx <= c BY <1>4, <1>5, <1>6
  <2>3. PICK p \in 1..m + 1 : PutAt(r, s, m, c, Get(s).var, p)
    BY <1>4, <1>5, <1>6, <2>1, <2>2, CopyPuts
  <2>4. Get(s).var \in Variable /\ (m # 0 => Get(s).var = s[m].var) BY <1>4, GetIs
  <2>5. Abstract!Respects(s[m].var, s[m].var) BY DEF Abstract!Respects
  <2>6. c \in 1..c BY <1>6
  <2>7. Changes(n, scope, r, c, Get(s).var, p)
    BY <1>1, <1>2, <1>5, <1>7, <2>3, <2>4, <2>5, <2>6 DEF Changes
  <2> QED BY <1>1, <1>3, <2>7
<1>8. CASE scope # "Volatile"
  <2>1. PICK idx : idx = IndexOfContext(scope) OBVIOUS
  <2>2. idx = IF scope = "Global" THEN 1 ELSE TopmostRegular
    BY <1>8, <2>1 DEF IndexOfContext, Scopings
  <2>3. idx \in 1..c /\ idx \in 1..MaxContexts BY <1>5, <2>2, ContextsAre, TopmostIs
  <2>4. r = MoveToRegular(s, idx) BY <1>3, <1>8, <2>1 DEF GetOrNew
  <2>5. PICK t \in 1..MaxContexts, v \in Variable, p \in 1..m + 1 :
              /\ PutAt(r, s, m, t, v, p)
              /\ Goal(s, m, idx, t)
              /\ p <= m => v = s[m].var
    BY <1>4, <2>3, <2>4, MovePuts
  <2>6. t \in 1..c BY <1>4, <1>5, <2>3, <2>5 DEF Goal
  <2>7. Abstract!Respects(s[m].var, s[m].var) BY DEF Abstract!Respects
  <2>8. Changes(n, scope, r, t, v, p)
    BY <1>1, <1>2, <1>5, <1>8, <2>2, <2>5, <2>6, <2>7 DEF Changes, Scopings
  <2> QED BY <1>1, <1>3, <2>8
<1> QED BY <1>7, <1>8

\* get_or_create_variable may export the variable as well.
LEMMA CreateChanges ==
    ASSUME Stored, NEW n \in Names, NEW scope \in Scopings
    PROVE  \E t, v, p : Changes(n, scope, GetOrCreate(n, scope), t, v, p)
<1>1. PICK r : r = GetOrNew(all[n], scope) OBVIOUS
<1>2. PICK t, v, p : Changes(n, scope, r, t, v, p) BY <1>1, NewChanges
<1>3. PICK q : q = GetOrCreate(n, scope) OBVIOUS
<1>4. CASE ~allexport
  <2>1. q = r BY <1>1, <1>3, <1>4 DEF GetOrCreate
  <2> QED BY <1>2, <1>3, <2>1
<1>5. CASE allexport
  <2>1. q = Exported(r) BY <1>1, <1>3, <1>5 DEF GetOrCreate
  <2>2. Len(all[n]) \in Nat /\ t \in 1..MaxContexts /\ v \in Variable
        /\ p \in 1..Len(all[n]) + 1 /\ PutAt(r, all[n], Len(all[n]), t, v, p)
    BY <1>2, ChangesTop
  <2>3. PICK w \in Variable :
          PutAt(q, all[n], Len(all[n]), t, w, p) /\ w.ro = v.ro /\ w.value = v.value
    BY <2>1, <2>2, ExportPuts
  <2>4. Abstract!Respects(w, v) BY <2>3 DEF Abstract!Respects
  <2>5. Changes(n, scope, q, t, w, p) BY <1>2, <2>3, <2>4, ChangesMore
  <2> QED BY <1>3, <2>5
<1> QED BY <1>4, <1>5

\* An assignment to a variable that is not read-only.
LEMMA AssignChanges ==
    ASSUME Stored, NEW n \in Names, NEW scope, NEW r, NEW t, NEW v, NEW p,
           Changes(n, scope, r, t, v, p), ~IsReadOnly(r), NEW x \in Values,
           NEW q, q = Assigned(r, x)
    PROVE  \E w : Changes(n, scope, q, t, w, p)
<1>1. Len(all[n]) \in Nat /\ t \in 1..MaxContexts /\ v \in Variable
      /\ p \in 1..Len(all[n]) + 1 /\ PutAt(r, all[n], Len(all[n]), t, v, p) /\ ~v.ro
  BY ChangesTop
<1>2. PICK w \in Variable : PutAt(q, all[n], Len(all[n]), t, w, p) /\ w.ro = v.ro
  BY <1>1, AssignPuts
<1>3. Abstract!Respects(w, v) BY <1>1 DEF Abstract!Respects
<1> QED BY <1>2, <1>3, ChangesMore

\* An attribute.
LEMMA AttributeChanges ==
    ASSUME Stored, NEW n \in Names, NEW scope, NEW r, NEW t, NEW v, NEW p,
           Changes(n, scope, r, t, v, p), NEW attr,
           NEW q, q = [r EXCEPT ![Len(r)].var = WithAttr(Last(r).var, attr)]
    PROVE  \E w : Changes(n, scope, q, t, w, p)
<1>1. Len(all[n]) \in Nat /\ t \in 1..MaxContexts /\ v \in Variable
      /\ p \in 1..Len(all[n]) + 1 /\ PutAt(r, all[n], Len(all[n]), t, v, p) /\ Last(r).var = v
  BY ChangesTop
<1>2. PICK w : w = WithAttr(v, attr) OBVIOUS
<1>3. w \in Variable /\ (v.ro => w.ro) /\ w.value = v.value
  BY <1>1, <1>2 DEF WithAttr, Variable
<1>4. q = [r EXCEPT ![Len(r)].var = w] BY <1>1, <1>2
<1>5. PutAt(q, all[n], Len(all[n]), t, w, p) BY <1>1, <1>3, <1>4, VariablePuts
<1>6. Abstract!Respects(w, v) BY <1>3 DEF Abstract!Respects
<1> QED BY <1>3, <1>5, <1>6, ChangesMore

\* A temporary variable is exported too.
LEMMA ExportChanges ==
    ASSUME Stored, NEW n \in Names, NEW scope, NEW r, NEW t, NEW v, NEW p,
           Changes(n, scope, r, t, v, p), NEW q, q = Exported(r)
    PROVE  \E w : Changes(n, scope, q, t, w, p)
<1>1. Len(all[n]) \in Nat /\ t \in 1..MaxContexts /\ v \in Variable
      /\ p \in 1..Len(all[n]) + 1 /\ PutAt(r, all[n], Len(all[n]), t, v, p)
  BY ChangesTop
<1>2. PICK w \in Variable :
        PutAt(q, all[n], Len(all[n]), t, w, p) /\ w.ro = v.ro /\ w.value = v.value
  BY <1>1, ExportPuts
<1>3. Abstract!Respects(w, v) BY <1>2 DEF Abstract!Respects
<1> QED BY <1>2, <1>3, ChangesMore

-----------------------------------------------------------------------------
(***************************************************************************)
(* These steps keep the invariant.                                         *)
(***************************************************************************)

\* Where an assignment for good goes to.
LEMMA GoalIs ==
    ASSUME Stored, NEW n \in Names, NEW scope \in {"Global", "Local"}, NEW r, NEW t, NEW v, NEW p,
           Changes(n, scope, r, t, v, p)
    PROVE  IsRegular(t) /\ (scope = "Local" => t = TopmostRegular)
<1>1. PICK s : s = all[n] OBVIOUS
<1>2. PICK m : m = Len(s) OBVIOUS
<1>3. PICK idx : idx = IF scope = "Global" THEN 1 ELSE TopmostRegular OBVIOUS
<1>4. IsRegular(idx) /\ idx \in 1..Len(contexts) BY <1>3, ContextsAre, TopmostIs
<1>5. Goal(s, m, idx, t) BY <1>1, <1>2, <1>3 DEF Changes
<1>6. IsRegular(t) BY <1>4, <1>5 DEF Goal
<1>7. ASSUME scope = "Local" PROVE t = TopmostRegular
  <2>1. idx = TopmostRegular BY <1>3, <1>7
  <2>2. CASE t = idx BY <2>1, <2>2
  <2>3. CASE \E h \in 1..m : t = s[h].ctx /\ s[h].ctx >= idx
    <3>1. t \in 1..Len(contexts) /\ t >= idx BY <1>1, <1>2, <2>3, StackOf
    <3>2. t <= TopmostRegular BY <1>6, <3>1, TopmostIs
    <3>3. Len(contexts) \in Nat BY ContextsAre
    <3> QED BY <1>4, <2>1, <3>1, <3>2, <3>3
  <2> QED BY <1>5, <2>2, <2>3 DEF Goal
<1> QED BY <1>6, <1>7

\* A change in a context at or above b is not seen below b.
LEMMA BelowStays ==
    ASSUME NEW s, NEW m \in Nat, m = Len(s), NEW t \in Nat, NEW v, NEW p \in 1..m + 1, NEW r,
           PutAt(r, s, m, t, v, p), NEW b \in Nat, b <= t,
           \A k \in 1..m : s[k].ctx \in Nat
    PROVE  VisibleBelow(r, b) = VisibleBelow(s, b)
<1>1. PICK X : X = {k \in 1..m : s[k].ctx < b} OBVIOUS
<1>2. PICK Y : Y = {k \in 1..p : r[k].ctx < b} OBVIOUS
<1>3. p \in Nat /\ Len(r) = p /\ r[p].ctx = t BY DEF PutAt
<1>4. ASSUME NEW k \in X PROVE k \in 1..p - 1
  <2>1. k \in 1..m /\ s[k].ctx < b /\ s[k].ctx \in Nat BY <1>1, <1>4
  <2>2. k \in p..m => s[k].ctx >= t BY DEF PutAt
  <2>3. ~(s[k].ctx >= t) BY <2>1
  <2> QED BY <1>3, <2>1, <2>2, <2>3
<1>5. ASSUME NEW k \in Y PROVE k \in 1..p - 1
  <2>1. k \in 1..p /\ r[k].ctx < b BY <1>2, <1>5
  <2>2. k # p BY <1>3, <2>1
  <2> QED BY <1>3, <2>1, <2>2
<1>6. \A k \in 1..p - 1 : k \in 1..m /\ k \in 1..p /\ r[k] = s[k] BY <1>3 DEF PutAt
<1>7. X = Y
  <2>1. X \subseteq Y BY <1>1, <1>2, <1>4, <1>6
  <2>2. Y \subseteq X BY <1>1, <1>2, <1>5, <1>6
  <2> QED BY <2>1, <2>2
<1>8. VisibleBelow(s, b) = IF X = {} THEN Default ELSE s[Highest(X)].var BY <1>1 DEF VisibleBelow
<1>9. VisibleBelow(r, b) = IF Y = {} THEN Default ELSE r[Highest(Y)].var
  BY <1>2, <1>3 DEF VisibleBelow
<1>10. X # {} => Highest(X) \in X
  <2>1. X \subseteq 0..m BY <1>1
  <2> QED BY <2>1, HighestIs
<1>11. X # {} => r[Highest(X)] = s[Highest(X)] BY <1>4, <1>6, <1>10
<1> QED BY <1>7, <1>8, <1>9, <1>11

\* open[k] with more names touched.
Retouched(o, q) ==
    /\ o \in Seq([base : 1..MaxContexts, touched : SUBSET Names, before : [Names -> Variable]])
    /\ Len(o) = Len(q)
    /\ \A k \in 1..Len(q) : /\ o[k].base = q[k].base /\ o[k].before = q[k].before
                            /\ q[k].touched \subseteq o[k].touched

\* Touch only adds the name to what the commands have had touched.
LEMMA TouchIs ==
    ASSUME Stored, NEW n \in Names, NEW from, NEW o, o = Touch(n, from)
    PROVE  /\ Retouched(o, open)
           /\ \A k \in 1..Len(open) : open[k].base >= from => n \in o[k].touched
<1>1. PICK d : d = Len(open) OBVIOUS
<1>2. PICK T : T = [base : 1..MaxContexts, touched : SUBSET Names, before : [Names -> Variable]] OBVIOUS
<1>3. d \in Nat /\ \A k \in 1..d : open[k] \in T
  BY <1>1, <1>2, LenProperties, ElementOfSeq DEF Stored
<1>4. o = [k \in 1..d |-> IF open[k].base >= from THEN [open[k] EXCEPT !.touched = open[k].touched \cup {n}]
                          ELSE open[k]]
  BY <1>1 DEF Touch
<1>5. ASSUME NEW k \in 1..d
      PROVE  /\ o[k] \in T /\ o[k].base = open[k].base /\ o[k].before = open[k].before
             /\ open[k].touched \subseteq o[k].touched
             /\ open[k].base >= from => n \in o[k].touched
  <2>1. o[k] = IF open[k].base >= from THEN [open[k] EXCEPT !.touched = open[k].touched \cup {n}] ELSE open[k]
    BY <1>4
  <2>2. open[k] \in T BY <1>3
  <2> QED BY <1>2, <2>1, <2>2
<1>6. o \in [1..d -> T] BY <1>4, <1>5
<1>7. o \in Seq(T) BY <1>3, <1>6, SeqDef
<1>8. Len(o) = d BY <1>3, <1>4
<1> QED BY <1>1, <1>2, <1>5, <1>7, <1>8 DEF Retouched

\* The stacks stay in order.
LEMMA ChangeKeepsOrder ==
    ASSUME Stored, NEW n \in Names, NEW scope, NEW r, NEW t, NEW v, NEW p,
           Changes(n, scope, r, t, v, p), all' = [all EXCEPT ![n] = r], contexts' = contexts
    PROVE  all' \in [Names -> Seq(Entries)] /\ Normalized'
<1>1. PICK m : m = Len(all[n]) OBVIOUS
<1>2. Ordered(all[n], m) /\ m \in Nat /\ \A k \in 1..m : all[n][k].ctx \in 1..Len(contexts)
  BY <1>1, StackOf, InStack
<1>3. t \in 1..MaxContexts /\ t \in 1..Len(contexts) /\ v \in Variable /\ p \in 1..m + 1
      /\ PutAt(r, all[n], m, t, v, p)
  BY <1>1, ChangesTop DEF Changes
<1>4. Ordered(r, p) /\ Len(r) = p /\ r \in Seq(Entries)
  BY <1>2, <1>3, PutIsOrdered DEF PutAt
<1>5. all \in [Names -> Seq(Entries)] BY DEF Stored
<1>6. ASSUME NEW k \in 1..p PROVE r[k].ctx \in 1..Len(contexts)
  <2>1. CASE k = p BY <1>3, <2>1 DEF PutAt
  <2>2. CASE k # p
    <3>1. k \in 1..p - 1 /\ k \in 1..m BY <1>2, <1>3, <2>2
    <3>2. r[k] = all[n][k] BY <1>3, <3>1 DEF PutAt
    <3> QED BY <1>2, <3>1, <3>2
  <2> QED BY <2>1, <2>2
<1>7. ASSUME NEW x \in Names
      PROVE  /\ \A i, j \in 1..Len(all'[x]) : i < j => all'[x][i].ctx < all'[x][j].ctx
             /\ \A i \in 1..Len(all'[x]) : all'[x][i].ctx \in 1..Len(contexts')
  <2>1. CASE x = n
    <3>1. all'[x] = r BY <1>5, <2>1
    <3> QED BY <1>4, <1>6, <3>1 DEF Ordered
  <2>2. CASE x # n
    <3>1. all'[x] = all[x] BY <1>5, <2>2
    <3> QED BY <3>1 DEF Stored, Normalized
  <2> QED BY <2>1, <2>2
<1>8. all' \in [Names -> Seq(Entries)] BY <1>4, <1>5
<1> QED BY <1>7, <1>8 DEF Normalized

\* What a command will uncover stays.
LEMMA ChangeKeepsUndoable ==
    ASSUME Stored, NEW n \in Names, NEW scope \in Scopings, NEW r, NEW t, NEW v, NEW p,
           Changes(n, scope, r, t, v, p), Modify(n, scope, r)
    PROVE  Undoable' /\ Retouched(open', open)
<1>1. PICK m : m = Len(all[n]) OBVIOUS
<1>2. m \in Nat /\ \A k \in 1..m : all[n][k].ctx \in Nat
  <2>1. Ordered(all[n], m) BY <1>1, StackOf
  <2> QED BY <2>1, InStack
<1>3. t \in Nat /\ p \in 1..m + 1 /\ PutAt(r, all[n], m, t, v, p) BY <1>1, ChangesTop
<1>4. all \in [Names -> Seq(Entries)] /\ all' = [all EXCEPT ![n] = r] BY DEF Stored, Modify
<1>5. PICK from : from = IF scope = "Local" THEN TopmostRegular ELSE 1 OBVIOUS
<1>6. ASSUME scope = "Volatile" PROVE Retouched(open', open)
  <2>1. open' = open BY <1>6 DEF Modify
  <2> QED BY <2>1 DEF Retouched, Stored
<1>7. ASSUME scope # "Volatile" PROVE Retouched(open', open)
  <2>1. open' = Touch(n, from) BY <1>5, <1>7 DEF Modify
  <2> QED BY <2>1, TouchIs
<1>8. Retouched(open', open) BY <1>6, <1>7
<1>9. ASSUME NEW k \in 1..Len(open), n \notin open'[k].touched PROVE open[k].base \in Nat /\ open[k].base <= t
  <2>1. open[k].base \in 2..Len(contexts) /\ Len(contexts) \in Nat BY ContextsAre DEF Stored, Nested
  <2>2. CASE scope = "Volatile"
    <3>1. t = Len(contexts) BY <2>2 DEF Changes
    <3> QED BY <2>1, <3>1
  <2>3. CASE scope # "Volatile"
    <3>1. open' = Touch(n, from) BY <1>5, <2>3 DEF Modify
    <3>2. ~(open[k].base >= from) BY <1>9, <3>1, TouchIs
    <3>3. scope = "Local" /\ from = TopmostRegular BY <1>5, <2>1, <3>2
    <3>4. from = t BY <3>3, GoalIs
    <3> QED BY <1>3, <2>1, <3>2, <3>4
  <2> QED BY <2>2, <2>3
<1>10. ASSUME NEW k \in 1..Len(open'), NEW x \in Names \ open'[k].touched
       PROVE  VisibleBelow(all'[x], open'[k].base) = open'[k].before[x]
  <2>1. k \in 1..Len(open) /\ open'[k].base = open[k].base /\ open'[k].before = open[k].before
        /\ x \in Names \ open[k].touched
    BY <1>8 DEF Retouched
  <2>2. VisibleBelow(all[x], open[k].base) = open[k].before[x] BY <2>1 DEF Stored, Undoable
  <2>3. CASE x # n
    <3>1. all'[x] = all[x] BY <1>4, <2>3
    <3> QED BY <2>1, <2>2, <3>1
  <2>4. CASE x = n
    <3>1. all'[x] = r BY <1>4, <2>4
    <3>2. open[k].base \in Nat /\ open[k].base <= t BY <1>9, <2>1, <2>4
    <3>3. VisibleBelow(r, open[k].base) = VisibleBelow(all[n], open[k].base)
      BY <1>1, <1>2, <1>3, <3>2, BelowStays
    <3> QED BY <2>1, <2>2, <2>4, <3>1, <3>3
  <2> QED BY <2>3, <2>4
<1> QED BY <1>8, <1>10 DEF Undoable

\* A temporary variable still respects what it hides.
LEMMA ChangeKeepsCopies ==
    ASSUME Stored, NEW n \in Names, NEW scope \in Scopings, NEW r, NEW t, NEW v, NEW p,
           Changes(n, scope, r, t, v, p), all' = [all EXCEPT ![n] = r], contexts' = contexts
    PROVE  CopiesRespect'
<1>1. PICK s : s = all[n] OBVIOUS
<1>2. PICK m : m = Len(s) OBVIOUS
<1>3. m \in Nat /\ Ordered(s, m) /\ \A k \in 1..m : s[k].ctx \in 1..Len(contexts)
  BY <1>1, <1>2, StackOf, InStack
<1>4. p \in 1..m + 1 /\ PutAt(r, s, m, t, v, p) /\ p \in Nat
  BY <1>1, <1>2, <1>3, ChangesTop
<1>5. all \in [Names -> Seq(Entries)] BY DEF Stored
<1>6. Len(r) = p /\ r[p].ctx = t /\ r[p].var = v /\ \A k \in 1..p - 1 : r[k] = s[k]
  BY <1>4 DEF PutAt
<1>7. \A i, k \in 1..m : i < k /\ (\A j \in i + 1..k : ~IsRegular(s[j].ctx)) =>
        Abstract!Respects(s[k].var, s[i].var)
  BY <1>1, <1>2 DEF Stored, CopiesRespect
<1>8. ASSUME NEW i \in 1..p, NEW k \in 1..p, i < k, \A j \in i + 1..k : ~IsRegular(r[j].ctx)
      PROVE  Abstract!Respects(r[k].var, r[i].var)
  <2>1. i \in 1..p - 1 /\ i \in 1..m /\ r[i] = s[i] BY <1>3, <1>4, <1>6, <1>8
  <2>2. CASE k # p
    <3>1. k \in 1..p - 1 /\ k \in 1..m BY <1>3, <1>4, <2>2
    <3>2. \A j \in i + 1..k : r[j] = s[j]
      <4>1. \A j \in i + 1..k : j \in 1..p - 1 BY <1>4, <2>1, <3>1
      <4> QED BY <1>6, <4>1
    <3>3. r[k] = s[k] BY <1>6, <3>1
    <3>4. \A j \in i + 1..k : ~IsRegular(s[j].ctx) BY <1>8, <3>2
    <3> QED BY <1>7, <1>8, <2>1, <3>1, <3>3, <3>4
  <2>3. CASE k = p
    <3>1. k \in i + 1..k BY <1>4, <1>8
    <3>2. ~IsRegular(t) BY <1>6, <1>8, <2>3, <3>1
    <3>3. scope = "Volatile" BY <3>2, GoalIs DEF Scopings
    <3>4. t = Len(contexts) /\ m # 0 BY <1>3, <2>1, <3>3 DEF Changes
    <3>5. Abstract!Respects(v, s[m].var) BY <1>1, <1>2, <3>3, <3>4 DEF Changes
    <3>6. CASE i = m BY <1>6, <2>1, <2>3, <3>5, <3>6
    <3>7. CASE i # m
      <4>1. i < m /\ m \in 1..m BY <1>3, <2>1, <3>7
      <4>2. ASSUME NEW j \in i + 1..m PROVE ~IsRegular(s[j].ctx)
        <5>1. j \in 1..m /\ j \in Nat BY <1>3, <2>1
        <5>2. CASE j < p
          <6>1. j \in i + 1..k /\ j \in 1..p - 1 BY <1>4, <2>1, <2>3, <5>1, <5>2
          <6> QED BY <1>6, <1>8, <6>1
        <5>3. CASE ~(j < p)
          <6>1. j \in p..m BY <1>4, <5>1, <5>3
          <6>2. s[j].ctx >= t BY <1>4, <6>1 DEF PutAt
          <6>3. s[j].ctx \in 1..Len(contexts) /\ Len(contexts) \in Nat BY <1>3, <5>1, ContextsAre
          <6>4. s[j].ctx = t BY <3>4, <6>2, <6>3
          <6> QED BY <3>2, <6>4
        <5> QED BY <5>2, <5>3
      <4>3. Abstract!Respects(s[m].var, s[i].var) BY <1>7, <2>1, <4>1, <4>2
      <4>4. Abstract!Respects(v, s[i].var) BY <3>5, <4>3, RespectsAll
      <4> QED BY <1>6, <2>1, <2>3, <4>4
    <3> QED BY <3>6, <3>7
  <2> QED BY <2>2, <2>3
<1>9. ASSUME NEW x \in Names, NEW i \in 1..Len(all'[x]), NEW k \in 1..Len(all'[x]), i < k,
             \A j \in i + 1..k : ~(contexts'[all'[x][j].ctx].kind = "Regular")
      PROVE  Abstract!Respects(all'[x][k].var, all'[x][i].var)
  <2>1. CASE x = n
    <3>1. all'[x] = r BY <1>5, <2>1
    <3> QED BY <1>6, <1>8, <1>9, <3>1 DEF IsRegular
  <2>2. CASE x # n
    <3>1. all'[x] = all[x] BY <1>5, <2>2
    <3> QED BY <1>9, <3>1 DEF Stored, CopiesRespect, IsRegular
  <2> QED BY <2>1, <2>2
<1> QED BY <1>9 DEF CopiesRespect, IsRegular, Abstract!Respects

\* Together.
LEMMA ChangeKeeps ==
    ASSUME Stored, NEW n \in Names, NEW scope \in Scopings, NEW r, NEW t, NEW v, NEW p,
           Changes(n, scope, r, t, v, p), Modify(n, scope, r)
    PROVE  Stored' /\ Retouched(open', open) /\ contexts' = contexts
<1>1. all' = [all EXCEPT ![n] = r] /\ contexts' = contexts /\ allexport' = allexport BY DEF Modify
<1>2. all' \in [Names -> Seq(Entries)] /\ Normalized' BY <1>1, ChangeKeepsOrder
<1>3. Undoable' /\ Retouched(open', open) BY ChangeKeepsUndoable
<1>4. CopiesRespect' BY <1>1, ChangeKeepsCopies
<1>5. Nested'
  <2>1. Nested BY DEF Stored
  <2>2. Len(open) \in Nat BY LenProperties DEF Stored
  <2>3. \A k \in 1..Len(open) : \A l \in 1..k - 1 : l \in 1..Len(open) BY <2>2
  <2> QED BY <1>1, <1>3, <2>1, <2>3 DEF Nested, Retouched
<1> QED BY <1>1, <1>2, <1>3, <1>4, <1>5 DEF Stored, Retouched

\* A sequence without its last element.
LEMMA FrontIs ==
    ASSUME NEW T, NEW s \in Seq(T), s # <<>>
    PROVE  /\ Front(s) \in Seq(T)
           /\ Len(Front(s)) = Len(s) - 1
           /\ \A k \in 1..Len(s) - 1 : Front(s)[k] = s[k]
<1>1. PICK m : m = Len(s) OBVIOUS
<1>2. m \in Nat /\ m >= 1 BY <1>1, LenProperties, EmptySeq
<1>3. \A i \in 1..m - 1 : s[i] \in T
  <2>1. \A i \in 1..m - 1 : i \in 1..Len(s) BY <1>1, <1>2
  <2> QED BY <2>1, ElementOfSeq
<1>4. PICK r : r = Front(s) OBVIOUS
<1>5. r = SubSeq(s, 1, m - 1) BY <1>1, <1>4 DEF Front
<1>6. m - 1 \in Int BY <1>2
<1>7. /\ r \in Seq(T)
      /\ Len(r) = (IF 1 <= m - 1 THEN m - 1 - 1 + 1 ELSE 0)
      /\ \A i \in 1..m - 1 - 1 + 1 : r[i] = s[1 + i - 1]
  BY <1>3, <1>5, <1>6, SubSeqProperties
<1>8. m - 1 - 1 + 1 = m - 1 /\ (1 <= m - 1 \/ m - 1 = 0) BY <1>2
<1>9. \A i \in 1..m - 1 : 1 + i - 1 = i BY <1>2
<1>10. Len(r) = m - 1 /\ \A k \in 1..m - 1 : r[k] = s[k] BY <1>7, <1>8, <1>9
<1> QED BY <1>1, <1>4, <1>7, <1>10

\* r is s without what is in context c.
Shortened(r, s, m, c, p) ==
    /\ r \in Seq(Entries) /\ Len(r) = p
    /\ \A k \in 1..p : r[k] = s[k]
    /\ \A k \in 1..m : k <= p <=> s[k].ctx < c

\* pop_context takes what is in the context on top from each stack: there is
\* at most one variable, the last.
LEMMA PopShortens ==
    ASSUME Stored, NEW n \in Names, NEW m, m = Len(all[n]), NEW r, r = StackPopped(all[n]),
           NEW c, c = Len(contexts)
    PROVE  \E p \in 0..m : Shortened(r, all[n], m, c, p)
<1>1. PICK s : s = all[n] OBVIOUS
<1>2. Ordered(s, m) /\ m \in Nat /\ \A k \in 1..m : s[k].ctx \in 1..c
  BY <1>1, StackOf, InStack
<1>3. c \in Nat BY ContextsAre
<1>4. s \in Seq(Entries) /\ m = Len(s) BY <1>2 DEF Ordered
<1>5. \A k \in 1..m : k # m => k < m /\ m \in 1..m BY <1>2
<1>6. \A k \in 1..m : k # m => s[k].ctx < s[m].ctx BY <1>2, <1>5 DEF Ordered
<1>7. \A k \in 1..m : k # m => s[k].ctx < c BY <1>2, <1>3, <1>5, <1>6
<1>8. CASE m # 0 /\ s[m].ctx >= c
  <2>1. r = Front(s) BY <1>1, <1>2, <1>8, LastIs DEF StackPopped
  <2>2. r \in Seq(Entries) /\ Len(r) = m - 1 /\ \A k \in 1..m - 1 : r[k] = s[k]
    <3>1. s # <<>> BY <1>2, <1>8, LastIs
    <3> QED BY <1>4, <2>1, <3>1, FrontIs
  <2>3. m - 1 \in 0..m BY <1>2, <1>8
  <2>4. \A k \in 1..m : k <= m - 1 <=> k # m BY <1>2
  <2>5. m \in 1..m /\ ~(s[m].ctx < c) BY <1>2, <1>3, <1>8
  <2>6. \A k \in 1..m : k <= m - 1 <=> s[k].ctx < c BY <1>7, <2>4, <2>5
  <2>7. Shortened(r, s, m, c, m - 1) BY <2>2, <2>6 DEF Shortened
  <2> QED BY <1>1, <2>3, <2>7
<1>9. CASE m = 0 \/ ~(s[m].ctx >= c)
  <2>1. r = s BY <1>1, <1>2, <1>9, LastIs DEF StackPopped
  <2>2. \A k \in 1..m : k <= m /\ s[k].ctx < c BY <1>2, <1>3, <1>5, <1>7, <1>9
  <2>3. m \in 0..m BY <1>2
  <2>4. Shortened(r, s, m, c, m) BY <1>1, <1>4, <2>1, <2>2 DEF Shortened
  <2> QED BY <1>1, <2>3, <2>4
<1> QED BY <1>8, <1>9

\* What is visible below the context is not changed by that.
LEMMA ShortenedBelow ==
    ASSUME NEW s, NEW m \in Nat, m = Len(s), NEW c \in Nat, NEW p \in 0..m, NEW r,
           Shortened(r, s, m, c, p), NEW b \in Nat, b <= c, \A k \in 1..m : s[k].ctx \in Nat
    PROVE  VisibleBelow(r, b) = VisibleBelow(s, b)
<1>1. PICK X : X = {k \in 1..m : s[k].ctx < b} OBVIOUS
<1>2. Len(r) = p /\ p \in Nat /\ \A k \in 1..p : k \in 1..m /\ r[k] = s[k] BY DEF Shortened
<1>3. \A k \in 1..m : s[k].ctx < b => k \in 1..p
  <2>1. \A k \in 1..m : s[k].ctx < b => s[k].ctx < c OBVIOUS
  <2>2. \A k \in 1..m : s[k].ctx < c => k <= p BY DEF Shortened
  <2> QED BY <1>2, <2>1, <2>2
<1>4. X = {k \in 1..p : r[k].ctx < b} BY <1>1, <1>2, <1>3
<1>5. VisibleBelow(s, b) = IF X = {} THEN Default ELSE s[Highest(X)].var BY <1>1 DEF VisibleBelow
<1>6. VisibleBelow(r, b) = IF X = {} THEN Default ELSE r[Highest(X)].var
  BY <1>2, <1>4 DEF VisibleBelow
<1>7. X # {} => Highest(X) \in X
  <2>1. X \subseteq 0..m BY <1>1
  <2> QED BY <2>1, HighestIs
<1> QED BY <1>2, <1>4, <1>5, <1>6, <1>7

\* Above everything, it is the variable the stack stands for.
LEMMA VisibleIsGet ==
    ASSUME NEW s, NEW m, Ordered(s, m), NEW b, \A k \in 1..m : s[k].ctx < b
    PROVE  VisibleBelow(s, b) = Get(s).var
<1>1. m \in Nat /\ m = Len(s) BY InStack DEF Ordered
<1>2. {k \in 1..m : s[k].ctx < b} = 1..m OBVIOUS
<1>3. VisibleBelow(s, b) = IF 1..m = {} THEN Default ELSE s[Highest(1..m)].var
  BY <1>1, <1>2 DEF VisibleBelow
<1>4. CASE m = 0
  <2>1. 1..m = {} BY <1>4
  <2> QED BY <1>3, <1>4, <2>1, GetIs
<1>5. CASE m # 0
  <2>1. m \in 1..m /\ 1..m \subseteq 0..m /\ \A j \in 1..m : j <= m BY <1>1, <1>5
  <2>2. Highest(1..m) = m BY <1>1, <2>1, HighestIsOnly
  <2> QED BY <1>3, <1>5, <2>1, <2>2, GetIs
<1> QED BY <1>4, <1>5

\* What is uncovered.
LEMMA PopUncovers ==
    ASSUME Stored, NEW n \in Names, NEW c, c = Len(contexts)
    PROVE  Get(StackPopped(all[n])).var = VisibleBelow(all[n], c)
<1>1. PICK s : s = all[n] OBVIOUS
<1>2. PICK m : m = Len(s) OBVIOUS
<1>3. PICK r : r = StackPopped(s) OBVIOUS
<1>4. Ordered(s, m) /\ m \in Nat /\ c \in Nat /\ \A k \in 1..m : s[k].ctx \in Nat
  BY <1>1, <1>2, StackOf, InStack, ContextsAre
<1>5. PICK p \in 0..m : Shortened(r, s, m, c, p) BY <1>1, <1>2, <1>3, PopShortens
<1>6. p \in Nat /\ \A k \in 1..p : k \in 1..m /\ k <= p BY <1>4
<1>7. Ordered(r, p)
  <2>1. \A i, k \in 1..p : i < k => r[i].ctx < r[k].ctx BY <1>4, <1>5, <1>6 DEF Shortened, Ordered
  <2> QED BY <1>5, <2>1 DEF Shortened, Ordered
<1>8. \A k \in 1..p : r[k].ctx < c BY <1>5, <1>6 DEF Shortened
<1>9. VisibleBelow(r, c) = Get(r).var BY <1>7, <1>8, VisibleIsGet
<1>10. VisibleBelow(r, c) = VisibleBelow(s, c) BY <1>2, <1>4, <1>5, ShortenedBelow
<1> QED BY <1>1, <1>3, <1>9, <1>10

-----------------------------------------------------------------------------
(***************************************************************************)
(* Contexts come and go.                                                   *)
(***************************************************************************)

\* The commands whose contexts are left when the one on top goes.
LEMMA OpenIs ==
    ASSUME Stored, NEW d, d = Len(open)
    PROVE  /\ d \in Nat /\ (open = <<>> <=> d = 0)
           /\ Last(open) = open[d]
           /\ \A k \in 1..d :
                 /\ open[k] \in [base : 1..MaxContexts, touched : SUBSET Names,
                                 before : [Names -> Variable]]
                 /\ open[k].base \in 2..Len(contexts)
                 /\ contexts[open[k].base].kind = "Volatile"
                 /\ k # d => open[k].base < open[d].base
<1>1. d \in Nat /\ (open = <<>> <=> d = 0) BY LenProperties, EmptySeq DEF Stored
<1>2. Last(open) = open[d] BY DEF Last
<1>3. \A k \in 1..d : k # d => d \in 1..d /\ k \in 1..d - 1 BY <1>1
<1>4. \A k \in 1..d : open[k] \in [base : 1..MaxContexts, touched : SUBSET Names,
                                   before : [Names -> Variable]]
  BY ElementOfSeq DEF Stored
<1>5. \A k \in 1..d : open[k].base \in 2..Len(contexts) /\ contexts[open[k].base].kind = "Volatile"
  BY DEF Stored, Nested
<1>6. \A k \in 1..d : k # d => open[k].base < open[d].base BY <1>3 DEF Stored, Nested
<1> QED BY <1>1, <1>2, <1>4, <1>5, <1>6

\* q holds the first e commands of open.
LEMMA PopOpen ==
    ASSUME Stored, NEW c, c = Len(contexts), c > 1, NEW q,
           q = IF Last(open).base = c THEN Front(open) ELSE open
    PROVE  /\ q \in Seq([base : 1..MaxContexts, touched : SUBSET Names, before : [Names -> Variable]])
           /\ Len(q) \in 0..Len(open)
           /\ \A k \in 1..Len(q) : k \in 1..Len(open) /\ q[k] = open[k] /\ open[k].base \in 2..c - 1
           /\ Len(q) < Len(open) => open # <<>> /\ Last(open).base = c
<1>1. PICK T : T = [base : 1..MaxContexts, touched : SUBSET Names, before : [Names -> Variable]] OBVIOUS
<1>2. PICK d : d = Len(open) OBVIOUS
<1>3. open \in Seq(T) /\ c \in Nat BY <1>1, ContextsAre DEF Stored
<1>4. d \in Nat /\ (open = <<>> <=> d = 0) /\ Last(open) = open[d] BY <1>2, OpenIs
<1>5. \A k \in 1..d : open[k].base \in 2..c /\ (k # d => open[k].base < open[d].base)
  BY <1>2, OpenIs
<1>6. \A k \in 1..d : d \in 1..d BY <1>4
<1>7. CASE d # 0 /\ open[d].base = c
  <2>1. q = Front(open) BY <1>4, <1>7
  <2>2. q \in Seq(T) /\ Len(q) = d - 1 /\ \A k \in 1..d - 1 : q[k] = open[k]
    BY <1>2, <1>3, <1>4, <1>7, <2>1, FrontIs
  <2>3. d - 1 \in 0..d /\ \A k \in 1..d - 1 : k \in 1..d /\ k # d BY <1>4, <1>7
  <2>4. \A k \in 1..d - 1 : open[k].base \in 2..c - 1
    <3>1. \A k \in 1..d - 1 : open[k].base \in 2..c /\ open[k].base < c BY <1>5, <1>7, <2>3
    <3> QED BY <1>3, <3>1
  <2> QED BY <1>1, <1>2, <1>4, <1>7, <2>2, <2>3, <2>4
<1>8. CASE d # 0 /\ open[d].base # c
  <2>1. q = open BY <1>4, <1>8
  <2>2. d \in 1..d /\ d \in 0..d BY <1>4, <1>8
  <2>3. \A k \in 1..d : open[k].base \in 2..c - 1
    <3>1. open[d].base \in 2..c - 1 BY <1>3, <1>5, <1>8, <2>2
    <3> QED BY <1>3, <1>5, <3>1
  <2> QED BY <1>1, <1>2, <1>3, <1>4, <2>1, <2>2, <2>3
<1>9. CASE d = 0
  <2>1. open = <<>> BY <1>4, <1>9
  <2>2. Front(open) = <<>>
    <3>1. Len(open) - 1 < 1 /\ Len(open) - 1 \in Int BY <1>2, <1>9
    <3> QED BY <3>1, SubSeqEmpty DEF Front
  <2>3. q = open BY <2>1, <2>2
  <2>4. Len(q) = 0 /\ Len(q) \in 0..Len(open) /\ ~(Len(q) < Len(open))
    <3>1. Len(open) = 0 BY <1>2, <1>9
    <3>2. Len(q) = 0 BY <2>3, <3>1
    <3>3. 0 \in 0..0 /\ ~(0 < 0) OBVIOUS
    <3> QED BY <3>1, <3>2, <3>3, Zenon
  <2>5. q \in Seq(T) BY <1>3, <2>3
  <2> QED BY <1>1, <2>4, <2>5
<1> QED BY <1>7, <1>8, <1>9

\* pop_context_impl.
LEMMA PopKeeps ==
    ASSUME Stored, PopContext
    PROVE  Stored' /\ Len(contexts') = Len(contexts) - 1
           /\ \A i \in 1..Len(contexts) - 1 : contexts'[i] = contexts[i]
<1>1. PICK c : c = Len(contexts) OBVIOUS
<1>2. c \in Nat /\ c > 1 /\ c \in 1..MaxContexts BY <1>1, ContextsAre DEF PopContext
<1>3. PICK K : K = [kind : {"Regular", "Volatile"}, params : ParamLists] OBVIOUS
<1>4. contexts \in Seq(K) /\ contexts # <<>> BY <1>1, <1>2, <1>3, EmptySeq DEF Stored
<1>5. contexts' = Front(contexts) BY DEF PopContext
<1>6. contexts' \in Seq(K) /\ Len(contexts') = c - 1 /\ \A i \in 1..c - 1 : contexts'[i] = contexts[i]
  BY <1>1, <1>4, <1>5, FrontIs
<1>7. all \in [Names -> Seq(Entries)] /\ all' = [n \in Names |-> StackPopped(all[n])]
  BY DEF Stored, PopContext
<1>8. ASSUME NEW n \in Names
      PROVE  /\ Len(all[n]) \in Nat
             /\ all'[n] = StackPopped(all[n])
             /\ \E p \in 0..Len(all[n]) : Shortened(all'[n], all[n], Len(all[n]), c, p)
             /\ \A k \in 1..Len(all[n]) : all[n][k].ctx \in 1..c /\ all[n][k].ctx \in Nat
  <2>1. all'[n] = StackPopped(all[n]) BY <1>7
  <2>2. \E p \in 0..Len(all[n]) : Shortened(all'[n], all[n], Len(all[n]), c, p)
    BY <1>1, <2>1, PopShortens
  <2>3. \A k \in 1..Len(all[n]) : all[n][k].ctx \in 1..c BY <1>1, StackOf
  <2>4. Len(all[n]) \in Nat BY StackOf, InStack
  <2>5. \A k \in 1..Len(all[n]) : all[n][k].ctx \in Nat BY <1>2, <2>3
  <2> QED BY <2>1, <2>2, <2>3, <2>4, <2>5
<1>9. /\ open' \in Seq([base : 1..MaxContexts, touched : SUBSET Names, before : [Names -> Variable]])
      /\ Len(open') \in 0..Len(open)
      /\ \A k \in 1..Len(open') : k \in 1..Len(open) /\ open'[k] = open[k] /\ open[k].base \in 2..c - 1
  <2>1. open' = IF Last(open).base = c THEN Front(open) ELSE open BY <1>1 DEF PopContext
  <2>2. PICK q : q = open' OBVIOUS
  <2>3. q = IF Last(open).base = c THEN Front(open) ELSE open BY <2>1, <2>2
  <2>4. /\ q \in Seq([base : 1..MaxContexts, touched : SUBSET Names, before : [Names -> Variable]])
        /\ Len(q) \in 0..Len(open)
        /\ \A k \in 1..Len(q) : k \in 1..Len(open) /\ q[k] = open[k] /\ open[k].base \in 2..c - 1
    BY <1>1, <1>2, <2>3, PopOpen
  <2> QED BY <2>2, <2>4
<1>10. all' \in [Names -> Seq(Entries)]
  <2>1. \A n \in Names : all'[n] \in Seq(Entries) BY <1>8 DEF Shortened
  <2> QED BY <1>7, <2>1
<1>11. Normalized'
  <2>1. ASSUME NEW n \in Names
        PROVE  /\ \A i, j \in 1..Len(all'[n]) : i < j => all'[n][i].ctx < all'[n][j].ctx
               /\ \A i \in 1..Len(all'[n]) : all'[n][i].ctx \in 1..c - 1
    <3>1. PICK p \in 0..Len(all[n]) : Shortened(all'[n], all[n], Len(all[n]), c, p) BY <1>8
    <3>2. Len(all'[n]) = p /\ \A k \in 1..p : /\ k \in 1..Len(all[n]) /\ all'[n][k] = all[n][k]
                                              /\ all[n][k].ctx < c
      <4>1. \A k \in 1..p : k \in 1..Len(all[n]) /\ k <= p BY <1>8
      <4> QED BY <3>1, <4>1 DEF Shortened
    <3>3. \A i, j \in 1..Len(all[n]) : i < j => all[n][i].ctx < all[n][j].ctx
      BY DEF Stored, Normalized
    <3>4. \A k \in 1..p : all[n][k].ctx \in 1..c - 1
      <4>1. \A k \in 1..p : all[n][k].ctx \in 1..c /\ all[n][k].ctx < c BY <1>8, <3>2
      <4> QED BY <1>2, <4>1
    <3> QED BY <3>2, <3>3, <3>4
  <2> QED BY <1>6, <2>1 DEF Normalized
<1>12. Nested'
  <2>1. contexts'[1].kind = "Regular" /\ c - 1 \in 1..MaxContexts
    <3>1. 1 \in 1..c - 1 /\ c - 1 \in 1..MaxContexts BY <1>2, VariablesAssumption
    <3> QED BY <1>6, <3>1 DEF Stored, Nested
  <2>2. ASSUME NEW k \in 1..Len(open')
        PROVE  /\ open'[k].base \in 2..c - 1
               /\ contexts'[open'[k].base].kind = "Volatile"
               /\ \A l \in 1..k - 1 : open'[l].base < open'[k].base
    <3>1. Len(open) \in Nat /\ Len(open') \in Nat BY <1>9, LenProperties DEF Stored
    <3>2. \A l \in 1..k - 1 : l \in 1..Len(open') BY <3>1
    <3>3. open[k].base \in 1..c - 1 BY <1>2, <1>9
    <3>4. contexts'[open[k].base] = contexts[open[k].base] BY <1>6, <3>3
    <3> QED BY <1>9, <3>2, <3>4 DEF Stored, Nested
  <2> QED BY <1>6, <2>1, <2>2 DEF Nested
<1>13. Undoable'
  <2>1. ASSUME NEW k \in 1..Len(open'), NEW n \in Names \ open'[k].touched
        PROVE  VisibleBelow(all'[n], open'[k].base) = open'[k].before[n]
    <3>1. k \in 1..Len(open) /\ open'[k] = open[k] /\ open[k].base \in 2..c - 1 BY <1>9
    <3>2. VisibleBelow(all[n], open[k].base) = open[k].before[n] BY <3>1 DEF Stored, Undoable
    <3>3. PICK p \in 0..Len(all[n]) : Shortened(all'[n], all[n], Len(all[n]), c, p) BY <1>8
    <3>4. open[k].base \in Nat /\ open[k].base <= c BY <1>2, <3>1
    <3>5. PICK s, m, r : s = all[n] /\ m = Len(s) /\ r = all'[n] OBVIOUS
    <3>6. m \in Nat /\ p \in 0..m /\ Shortened(r, s, m, c, p) /\ \A j \in 1..m : s[j].ctx \in Nat
      BY <1>8, <3>3, <3>5
    <3>7. VisibleBelow(r, open[k].base) = VisibleBelow(s, open[k].base)
      BY <1>2, <3>4, <3>5, <3>6, ShortenedBelow
    <3> QED BY <3>1, <3>2, <3>5, <3>7
  <2> QED BY <2>1 DEF Undoable
<1>14. CopiesRespect'
  <2>1. ASSUME NEW n \in Names, NEW i \in 1..Len(all'[n]), NEW k \in 1..Len(all'[n]), i < k,
               \A j \in i + 1..k : ~(contexts'[all'[n][j].ctx].kind = "Regular")
        PROVE  Abstract!Respects(all'[n][k].var, all'[n][i].var)
    <3>1. PICK p \in 0..Len(all[n]) : Shortened(all'[n], all[n], Len(all[n]), c, p) BY <1>8
    <3>2. p \in Nat /\ Len(all'[n]) = p BY <1>8, <3>1 DEF Shortened
    <3>3. \A j \in 1..p : /\ j \in 1..Len(all[n]) /\ all'[n][j] = all[n][j]
                          /\ all[n][j].ctx < c
      <4>1. \A j \in 1..p : j \in 1..Len(all[n]) /\ j <= p BY <1>8
      <4> QED BY <3>1, <4>1 DEF Shortened
    <3>4. \A j \in 1..p : contexts'[all[n][j].ctx] = contexts[all[n][j].ctx]
      <4>1. \A j \in 1..p : all[n][j].ctx \in 1..c /\ all[n][j].ctx < c BY <1>8, <3>3
      <4>2. \A j \in 1..p : all[n][j].ctx \in 1..c - 1 BY <1>2, <4>1
      <4> QED BY <1>6, <4>2
    <3>5. \A j \in i + 1..k : j \in 1..p BY <2>1, <3>2
    <3>6. \A j \in i + 1..k : ~(contexts[all[n][j].ctx].kind = "Regular")
      BY <2>1, <3>3, <3>4, <3>5
    <3>7. i \in 1..p /\ k \in 1..p BY <3>2
    <3> QED BY <2>1, <3>3, <3>6, <3>7 DEF Stored, CopiesRespect, IsRegular
  <2> QED BY <2>1 DEF CopiesRespect, IsRegular, Abstract!Respects
<1>15. allexport' \in BOOLEAN BY DEF Stored, PopContext
<1> QED
  BY <1>1, <1>3, <1>6, <1>9, <1>10, <1>11, <1>12, <1>13, <1>14, <1>15 DEF Stored

\* A context is pushed, by a command that is opened or by a function.
LEMMA ContextPushKeeps ==
    ASSUME Stored, NEW kind \in {"Regular", "Volatile"}, NEW p \in ParamLists,
           Len(contexts) < MaxContexts, PushContext(kind, p), UNCHANGED <<all, allexport>>,
           \/ open' = open
           \/ /\ kind = "Volatile"
              /\ open' = Append(open, [base |-> Len(contexts) + 1, touched |-> {},
                                       before |-> [n \in Names |-> Get(all[n]).var]])
    PROVE  Stored'
<1>1. PICK c : c = Len(contexts) OBVIOUS
<1>2. c \in Nat /\ c < MaxContexts /\ c \in 1..MaxContexts /\ c + 1 \in 1..MaxContexts
      /\ c + 1 \in 2..c + 1
  BY <1>1, ContextsAre, VariablesAssumption
<1>3. PICK K : K = [kind : {"Regular", "Volatile"}, params : ParamLists] OBVIOUS
<1>4. PICK e : e = [kind |-> kind, params |-> p] OBVIOUS
<1>5. e \in K /\ contexts \in Seq(K) /\ contexts' = Append(contexts, e)
  BY <1>3, <1>4 DEF Stored, PushContext
<1>6. contexts' \in Seq(K) /\ Len(contexts') = c + 1 /\ (\A i \in 1..c : contexts'[i] = contexts[i])
      /\ contexts'[c + 1] = e
  BY <1>1, <1>5, AppendProperties
<1>7. all' = all /\ allexport' = allexport OBVIOUS
<1>8. PICK T : T = [base : 1..MaxContexts, touched : SUBSET Names, before : [Names -> Variable]] OBVIOUS
<1>9. PICK d : d = Len(open) OBVIOUS
<1>10. open \in Seq(T) /\ d \in Nat BY <1>8, <1>9, LenProperties DEF Stored
<1>11. PICK o : o = [base |-> c + 1, touched |-> {}, before |-> [n \in Names |-> Get(all[n]).var]]
  OBVIOUS
<1>12. \A n \in Names : Ordered(all[n], Len(all[n])) BY StackOf
<1>13. \A n \in Names : Get(all[n]).var \in Variable BY <1>12, GetIs
<1>14. o \in T BY <1>2, <1>8, <1>11, <1>13
<1>15. \/ open' = open
       \/ /\ kind = "Volatile" /\ open' \in Seq(T) /\ Len(open') = d + 1
          /\ \A k \in 1..d : open'[k] = open[k]
          /\ open'[d + 1] = o
  <2>1. open' = open \/ (kind = "Volatile" /\ open' = Append(open, o)) BY <1>1, <1>11
  <2>2. ASSUME open' = Append(open, o)
        PROVE  open' \in Seq(T) /\ Len(open') = d + 1 /\ (\A k \in 1..d : open'[k] = open[k])
               /\ open'[d + 1] = o
    BY <1>9, <1>10, <1>14, <2>2, AppendProperties
  <2> QED BY <2>1, <2>2
<1>16. open' \in Seq(T) BY <1>10, <1>15
<1>17. ASSUME NEW k \in 1..Len(open')
       PROVE  \/ k \in 1..d /\ open'[k] = open[k]
              \/ k = d + 1 /\ open'[k] = o /\ kind = "Volatile"
  BY <1>9, <1>10, <1>15, <1>17
<1>18. Normalized'
  <2>1. \A i \in 1..c : i \in 1..c + 1 BY <1>2
  <2> QED BY <1>1, <1>6, <1>7, <2>1 DEF Stored, Normalized
<1>19. Nested'
  <2>1. contexts'[1].kind = "Regular" BY <1>1, <1>6, ContextsAre DEF IsRegular
  <2>2. ASSUME NEW k \in 1..Len(open')
        PROVE  /\ open'[k].base \in 2..c + 1
               /\ contexts'[open'[k].base].kind = "Volatile"
               /\ \A l \in 1..k - 1 : open'[l].base < open'[k].base
    <3>1. \A j \in 1..d : /\ open[j].base \in 2..c /\ open[j].base \in 1..c
                          /\ open[j].base \in 2..c + 1 /\ open[j].base < c + 1
      <4>1. \A j \in 1..d : open[j].base \in 2..c BY <1>1, <1>9 DEF Stored, Nested
      <4> QED BY <1>2, <4>1
    <3>2. CASE k \in 1..d /\ open'[k] = open[k]
      <4>1. \A l \in 1..k - 1 : l \in 1..d /\ open'[l] = open[l]
        <5>1. \A l \in 1..k - 1 : l \in 1..d BY <1>10, <3>2
        <5> QED BY <1>15, <5>1
      <4>2. contexts'[open[k].base] = contexts[open[k].base] BY <1>6, <3>1, <3>2
      <4> QED BY <1>9, <3>1, <3>2, <4>1, <4>2 DEF Stored, Nested
    <3>3. CASE k = d + 1 /\ open'[k] = o /\ kind = "Volatile"
      <4>1. open'[k].base = c + 1 BY <1>11, <3>3
      <4>2. contexts'[c + 1].kind = "Volatile" BY <1>4, <1>6, <3>3
      <4>3. \A l \in 1..k - 1 : l \in 1..d BY <1>10, <3>3
      <4>4. \A l \in 1..d : open'[l] = open[l] BY <1>15
      <4> QED BY <1>2, <3>1, <4>1, <4>2, <4>3, <4>4
    <3> QED BY <1>17, <3>2, <3>3
  <2> QED BY <1>2, <1>6, <2>1, <2>2 DEF Nested
<1>20. Undoable'
  <2>1. ASSUME NEW k \in 1..Len(open'), NEW n \in Names \ open'[k].touched
        PROVE  VisibleBelow(all[n], open'[k].base) = open'[k].before[n]
    <3>1. CASE k \in 1..d /\ open'[k] = open[k] BY <1>9, <2>1, <3>1 DEF Stored, Undoable
    <3>2. CASE k = d + 1 /\ open'[k] = o
      <4>1. open'[k].base = c + 1 /\ open'[k].before[n] = Get(all[n]).var BY <1>11, <3>2
      <4>2. \A i \in 1..Len(all[n]) : all[n][i].ctx \in 1..c BY <1>1, StackOf
      <4>3. \A i \in 1..Len(all[n]) : all[n][i].ctx < c + 1 BY <1>2, <4>2
      <4>4. VisibleBelow(all[n], c + 1) = Get(all[n]).var BY <1>12, <4>3, VisibleIsGet
      <4> QED BY <4>1, <4>4
    <3> QED BY <1>17, <3>1, <3>2
  <2> QED BY <1>7, <2>1 DEF Undoable
<1>21. CopiesRespect'
  <2>1. ASSUME NEW n \in Names, NEW i \in 1..Len(all[n]), NEW k \in 1..Len(all[n]), i < k,
               \A j \in i + 1..k : ~(contexts'[all[n][j].ctx].kind = "Regular")
        PROVE  Abstract!Respects(all[n][k].var, all[n][i].var)
    <3>1. Len(all[n]) \in Nat BY StackOf, InStack
    <3>2. \A j \in i + 1..k : j \in 1..Len(all[n]) BY <3>1
    <3>3. \A j \in 1..Len(all[n]) : all[n][j].ctx \in 1..c BY <1>1, StackOf
    <3>4. \A j \in i + 1..k : ~(contexts[all[n][j].ctx].kind = "Regular")
      BY <1>6, <2>1, <3>2, <3>3
    <3> QED BY <2>1, <3>4 DEF Stored, CopiesRespect, IsRegular
  <2> QED BY <1>7, <2>1 DEF CopiesRespect, IsRegular, Abstract!Respects
<1> QED BY <1>3, <1>6, <1>7, <1>8, <1>16, <1>18, <1>19, <1>20, <1>21 DEF Stored

\* unset removes a name from all contexts.
LEMMA UnsetKeeps ==
    ASSUME Stored, NEW n \in Names, Modify(n, "Global", <<>>)
    PROVE  Stored' /\ Retouched(open', open) /\ contexts' = contexts
<1>1. all' = [all EXCEPT ![n] = <<>>] /\ contexts' = contexts /\ allexport' = allexport
  BY DEF Modify
<1>2. all \in [Names -> Seq(Entries)] BY DEF Stored
<1>3. <<>> \in Seq(Entries) /\ Len(<<>>) = 0 BY EmptySeq
<1>4. all' \in [Names -> Seq(Entries)] /\ all'[n] = <<>> /\ \A x \in Names : x # n => all'[x] = all[x]
  BY <1>1, <1>2, <1>3
<1>5. open' = Touch(n, 1) BY DEF Modify
<1>6. Retouched(open', open) /\ \A k \in 1..Len(open) : open[k].base >= 1 => n \in open'[k].touched
  BY <1>5, TouchIs
<1>7. \A k \in 1..Len(open) : open[k].base >= 1
  <2>1. \A k \in 1..Len(open) : open[k].base \in 2..Len(contexts) BY DEF Stored, Nested
  <2> QED BY <2>1, ContextsAre
<1>8. Len(all'[n]) = 0 BY <1>3, <1>4
<1>9. \A i \in 1..Len(all'[n]) : FALSE BY <1>8
<1>10. Normalized'
  <2>1. ASSUME NEW x \in Names
        PROVE  /\ \A i, j \in 1..Len(all'[x]) : i < j => all'[x][i].ctx < all'[x][j].ctx
               /\ \A i \in 1..Len(all'[x]) : all'[x][i].ctx \in 1..Len(contexts)
    BY <1>4, <1>9 DEF Stored, Normalized
  <2> QED BY <1>1, <2>1 DEF Normalized
<1>11. Undoable'
  <2>1. ASSUME NEW k \in 1..Len(open'), NEW x \in Names \ open'[k].touched
        PROVE  VisibleBelow(all'[x], open'[k].base) = open'[k].before[x]
    <3>1. k \in 1..Len(open) /\ open'[k].base = open[k].base /\ open'[k].before = open[k].before
          /\ x \in Names \ open[k].touched
      BY <1>6 DEF Retouched
    <3>2. x # n BY <1>6, <1>7, <3>1
    <3> QED BY <1>4, <3>1, <3>2 DEF Stored, Undoable
  <2> QED BY <2>1 DEF Undoable
<1>12. CopiesRespect'
  <2>1. ASSUME NEW x \in Names, NEW i \in 1..Len(all'[x]), NEW k \in 1..Len(all'[x]), i < k,
               \A j \in i + 1..k : ~(contexts[all'[x][j].ctx].kind = "Regular")
        PROVE  Abstract!Respects(all'[x][k].var, all'[x][i].var)
    BY <1>4, <1>9, <2>1 DEF Stored, CopiesRespect, IsRegular
  <2> QED BY <1>1, <2>1 DEF CopiesRespect, IsRegular, Abstract!Respects
<1>13. Nested'
  <2>1. Nested BY DEF Stored
  <2>2. Len(open) \in Nat BY LenProperties DEF Stored
  <2>3. \A k \in 1..Len(open) : \A l \in 1..k - 1 : l \in 1..Len(open) BY <2>2
  <2> QED BY <1>1, <1>6, <2>1, <2>3 DEF Nested, Retouched
<1> QED BY <1>1, <1>4, <1>6, <1>10, <1>11, <1>12, <1>13 DEF Stored, Retouched

\* set and shift change parameters only.
LEMMA ParamsKeep ==
    ASSUME Stored, NEW p \in ParamLists,
           contexts' = [contexts EXCEPT ![TopmostRegular].params = p],
           UNCHANGED <<all, allexport, open>>
    PROVE  Stored'
<1>1. PICK c : c = Len(contexts) OBVIOUS
<1>2. PICK K : K = [kind : {"Regular", "Volatile"}, params : ParamLists] OBVIOUS
<1>3. PICK t : t = TopmostRegular OBVIOUS
<1>4. t \in 1..c /\ c \in Nat /\ contexts[t] \in K BY <1>1, <1>2, <1>3, TopmostIs, ContextsAre
<1>5. PICK e : e = [contexts[t] EXCEPT !.params = p] OBVIOUS
<1>6. e \in K /\ e.kind = contexts[t].kind BY <1>2, <1>4, <1>5
<1>7. contexts \in Seq(K) /\ contexts' = [contexts EXCEPT ![t] = e] BY <1>2, <1>3, <1>5 DEF Stored
<1>8. contexts' \in Seq(K) /\ Len(contexts') = c
      /\ \A j \in 1..c : contexts'[j] = IF j = t THEN e ELSE contexts[j]
  <2>1. PICK s : s = contexts OBVIOUS
  <2>2. PICK q : q = contexts' OBVIOUS
  <2>3. s \in Seq(K) /\ t \in 1..Len(s) /\ e \in K /\ Len(s) = c BY <1>1, <1>4, <1>6, <1>7, <2>1
  <2>4. q = [s EXCEPT ![t] = e] BY <1>7, <2>1, <2>2
  <2>5. q \in Seq(K) /\ Len(q) = Len(s) /\ \A j \in 1..Len(s) : q[j] = IF j = t THEN e ELSE s[j]
    BY <2>3, <2>4, ExceptSeq
  <2> QED BY <2>1, <2>2, <2>3, <2>5
<1>9. \A j \in 1..c : contexts'[j].kind = contexts[j].kind BY <1>6, <1>8
<1>10. all' = all /\ allexport' = allexport /\ open' = open OBVIOUS
<1>11. Normalized' /\ Undoable' BY <1>1, <1>8, <1>10 DEF Stored, Normalized, Undoable
<1>12. Nested'
  <2>1. \A k \in 1..Len(open) : open[k].base \in 1..c
    <3>1. \A k \in 1..Len(open) : open[k].base \in 2..c BY <1>1 DEF Stored, Nested
    <3> QED BY <1>4, <3>1
  <2>2. 1 \in 1..c BY <1>1, ContextsAre
  <2> QED BY <1>1, <1>8, <1>9, <1>10, <2>1, <2>2 DEF Stored, Nested
<1>13. CopiesRespect'
  <2>1. ASSUME NEW n \in Names, NEW i \in 1..Len(all[n]), NEW k \in 1..Len(all[n]), i < k,
               \A j \in i + 1..k : ~(contexts'[all[n][j].ctx].kind = "Regular")
        PROVE  Abstract!Respects(all[n][k].var, all[n][i].var)
    <3>1. Len(all[n]) \in Nat BY StackOf, InStack
    <3>2. \A j \in i + 1..k : j \in 1..Len(all[n]) BY <3>1
    <3>3. \A j \in 1..Len(all[n]) : all[n][j].ctx \in 1..c BY <1>1, StackOf
    <3>4. \A j \in i + 1..k : ~(contexts[all[n][j].ctx].kind = "Regular")
      BY <1>9, <2>1, <3>2, <3>3
    <3> QED BY <2>1, <3>4 DEF Stored, CopiesRespect, IsRegular
  <2> QED BY <1>10, <2>1 DEF CopiesRespect, IsRegular, Abstract!Respects
<1> QED BY <1>2, <1>8, <1>10, <1>11, <1>12, <1>13 DEF Stored

\* The state of the variables and contexts is as before.
LEMMA QuietVariables ==
    ASSUME Stored, UNCHANGED <<all, contexts, open>>, allexport' \in BOOLEAN
    PROVE  Stored'
BY DEF Stored, Normalized, Nested, Undoable, CopiesRespect, IsRegular, Abstract!Respects

-----------------------------------------------------------------------------
(***************************************************************************)
(* What a step may do to the variables and the contexts.                   *)
(***************************************************************************)

Quietly == UNCHANGED <<all, contexts, open>> /\ allexport' \in BOOLEAN
SetsOne ==
    \E n \in Names, scope \in Scopings : \E r, t, v, p :
        /\ Changes(n, scope, r, t, v, p) /\ Modify(n, scope, r)
        /\ scope = "Volatile" => contexts[Len(contexts)].kind = "Volatile"
RemovesOne ==
    \E n \in Names : /\ \A k \in 1..Len(all[n]) : ~all[n][k].var.ro
                     /\ Modify(n, "Global", <<>>)
SetsParams ==
    \E p \in ParamLists : /\ contexts' = [contexts EXCEPT ![TopmostRegular].params = p]
                          /\ UNCHANGED <<all, allexport, open>>
Opens ==
    /\ Len(contexts) < MaxContexts /\ PushContext("Volatile", <<>>)
    /\ open' = Append(open, [base |-> Len(contexts) + 1, touched |-> {},
                             before |-> [n \in Names |-> Get(all[n]).var]])
    /\ UNCHANGED <<all, allexport>>
Calls ==
    \E p \in ParamLists :
        /\ Len(contexts) < MaxContexts /\ PushContext("Regular", p)
        /\ UNCHANGED <<all, allexport, open>>
Effect == Quietly \/ SetsOne \/ RemovesOne \/ SetsParams \/ Opens \/ Calls \/ PopContext

\* Each of these keeps the invariant.
LEMMA EffectKeeps == ASSUME Stored, Effect PROVE Stored'
<1>1. CASE Quietly BY <1>1, QuietVariables DEF Quietly
<1>2. CASE SetsOne BY <1>2, ChangeKeeps DEF SetsOne
<1>3. CASE RemovesOne BY <1>3, UnsetKeeps DEF RemovesOne
<1>4. CASE SetsParams BY <1>4, ParamsKeep DEF SetsParams
<1>5. CASE Opens BY <1>5, ContextPushKeeps, VariablesAssumption DEF Opens
<1>6. CASE Calls BY <1>6, ContextPushKeeps DEF Calls
<1>7. CASE PopContext BY <1>7, PopKeeps
<1> QED BY <1>1, <1>2, <1>3, <1>4, <1>5, <1>6, <1>7 DEF Effect

\* Run, Unwind and the like are tasks.
LEMMA TasksAre ==
    /\ Run \in Tasks /\ Unwind \in Tasks /\ [Unwind EXCEPT !.do = "leave"] \in Tasks
    /\ Run.do # "start" /\ Unwind.do # "start" /\ [Unwind EXCEPT !.do = "leave"].do # "start"
<1>1. <<>> \in Assigns
  <2>1. 0 \in 0..MaxAssigns /\ <<>> \in [1..0 -> Names \X Values] BY VariablesAssumption
  <2> QED BY <2>1 DEF Assigns
<1> QED BY <1>1 DEF Run, Unwind, Tasks

\* What is not assigned yet is a list of assignments too.
LEMMA AssignsAre ==
    ASSUME NEW a \in Assigns, a # <<>>
    PROVE  /\ Head(a)[1] \in Names /\ Head(a)[2] \in Values /\ Tail(a) \in Assigns
<1>1. PICK k \in 0..MaxAssigns : a \in [1..k -> Names \X Values] BY DEF Assigns
<1>2. k \in Nat /\ MaxAssigns \in Nat BY VariablesAssumption
<1>3. a \in Seq(Names \X Values) /\ Len(a) = k BY <1>1, <1>2, SeqDef
<1>4. Head(a) \in Names \X Values /\ Tail(a) \in Seq(Names \X Values) /\ Len(Tail(a)) = Len(a) - 1
  BY <1>3, HeadTailProperties
<1>5. k - 1 \in 0..MaxAssigns BY <1>2, <1>3, EmptySeq
<1>6. Tail(a) \in [1..k - 1 -> Names \X Values]
  <2>1. Tail(a) \in [1..Len(Tail(a)) -> Names \X Values] BY <1>4, LenProperties
  <2> QED BY <1>3, <1>4, <2>1
<1>7. Tail(a) \in Assigns BY <1>5, <1>6 DEF Assigns
<1> QED BY <1>4, <1>7

\* Where the task goes from here.
Onward == task' \in Tasks /\ Started'

\* A step that leaves the task running, or makes it unwind or leave.
LEMMA OnwardOf ==
    ASSUME task' \in {Run, Unwind, [Unwind EXCEPT !.do = "leave"]}
    PROVE  Onward
BY TasksAre DEF Onward, Started

\* Assignment commands.
LEMMA AssignHasEffect ==
    ASSUME VIInv, NEW n \in Names, NEW x \in Values, Assign(n, x)
    PROVE  Effect /\ Onward
<1>1. Stored /\ task = Run BY TwoParts DEF Assign
<1>2. PICK r : r = GetOrCreate(n, "Global") OBVIOUS
<1>3. PICK t, v, p : Changes(n, "Global", r, t, v, p) BY <1>1, <1>2, CreateChanges DEF Scopings
<1>4. CASE IsReadOnly(r)
  <2>1. Modify(n, "Global", r) /\ task' = Unwind BY <1>2, <1>4 DEF Assign
  <2>2. SetsOne BY <1>3, <2>1 DEF SetsOne, Scopings
  <2> QED BY <2>1, <2>2, OnwardOf DEF Effect
<1>5. CASE ~IsReadOnly(r)
  <2>1. PICK q : q = Assigned(r, x) OBVIOUS
  <2>2. Modify(n, "Global", q) /\ task' = Run BY <1>1, <1>2, <1>5, <2>1 DEF Assign
  <2>3. PICK w : Changes(n, "Global", q, t, w, p) BY <1>1, <1>3, <1>5, <2>1, AssignChanges
  <2>4. SetsOne BY <2>2, <2>3 DEF SetsOne, Scopings
  <2> QED BY <2>2, <2>4, OnwardOf DEF Effect
<1> QED BY <1>4, <1>5

\* typeset, export and readonly.
LEMMA SetVariableHasEffect ==
    ASSUME VIInv, NEW n \in Names, NEW x \in Values \cup {NoValue}, NEW scope \in {"Global", "Local"},
           NEW attr, NEW special \in BOOLEAN, SetVariable(n, x, scope, attr, special)
    PROVE  Effect /\ Onward
<1>1. Stored /\ task = Run BY TwoParts DEF SetVariable
<1>2. PICK r : r = GetOrCreate(n, scope) OBVIOUS
<1>3. PICK t, v, p : Changes(n, scope, r, t, v, p) BY <1>1, <1>2, CreateChanges DEF Scopings
<1>4. task' \in {Run, Unwind} BY <1>1 DEF SetVariable
<1>5. CASE x # NoValue /\ IsReadOnly(r)
  <2>1. Modify(n, scope, r) BY <1>2, <1>5 DEF SetVariable
  <2>2. SetsOne BY <1>3, <2>1 DEF SetsOne, Scopings
  <2> QED BY <1>4, <2>2, OnwardOf DEF Effect
<1>6. CASE ~(x # NoValue /\ IsReadOnly(r))
  <2>1. PICK new : new = IF x = NoValue THEN r ELSE Assigned(r, x) OBVIOUS
  <2>2. PICK q : q = [new EXCEPT ![Len(new)].var = WithAttr(Last(new).var, attr)] OBVIOUS
  <2>3. Modify(n, scope, q) BY <1>2, <1>6, <2>1, <2>2 DEF SetVariable
  <2>4. \E w : Changes(n, scope, new, t, w, p)
    <3>1. CASE x = NoValue BY <1>3, <2>1, <3>1
    <3>2. CASE x # NoValue
      <4>1. x \in Values /\ new = Assigned(r, x) /\ ~IsReadOnly(r) BY <1>6, <2>1, <3>2
      <4> QED BY <1>1, <1>3, <4>1, AssignChanges
    <3> QED BY <3>1, <3>2
  <2>5. PICK w : Changes(n, scope, new, t, w, p) BY <2>4
  <2>6. PICK u : Changes(n, scope, q, t, u, p) BY <1>1, <2>2, <2>5, AttributeChanges
  <2>7. SetsOne BY <2>3, <2>6 DEF SetsOne, Scopings
  <2> QED BY <1>4, <2>7, OnwardOf DEF Effect
<1> QED BY <1>5, <1>6

\* unset.
LEMMA UnsetHasEffect ==
    ASSUME VIInv, NEW n \in Names, Unset(n)
    PROVE  Effect /\ Onward
<1>1. Stored /\ task = Run BY TwoParts DEF Unset
<1>2. CASE \E k \in 1..Len(all[n]) : all[n][k].var.ro
  <2>1. UNCHANGED <<all, contexts, allexport, open>> /\ task' = Unwind BY <1>2 DEF Unset
  <2>2. Quietly BY <1>1, <2>1 DEF Quietly, Stored
  <2> QED BY <2>1, <2>2, OnwardOf DEF Effect
<1>3. CASE \A k \in 1..Len(all[n]) : ~all[n][k].var.ro
  <2>1. Modify(n, "Global", <<>>) /\ task' = Run BY <1>1, <1>3 DEF Unset
  <2>2. RemovesOne BY <1>3, <2>1 DEF RemovesOne
  <2> QED BY <2>1, <2>2, OnwardOf DEF Effect
<1> QED BY <1>2, <1>3

\* set, shift and the allexport option.
LEMMA SettingHasEffect ==
    ASSUME VIInv, \/ \E p \in ParamLists : SetOrShift(p)
                  \/ \E a \in BOOLEAN : SetAllexport(a)
    PROVE  Effect /\ Onward
<1>1. CASE \E p \in ParamLists : SetOrShift(p)
  <2>1. SetsParams /\ task' = Run BY <1>1 DEF SetsParams, SetOrShift
  <2> QED BY <2>1, OnwardOf DEF Effect
<1>2. CASE \E a \in BOOLEAN : SetAllexport(a)
  <2>1. Quietly /\ task' = Run BY <1>2 DEF Quietly, SetAllexport
  <2> QED BY <2>1, OnwardOf DEF Effect
<1> QED BY <1>1, <1>2

\* A command with temporary assignments begins.
LEMMA StartHasEffect ==
    ASSUME VIInv, NEW kind \in {"function", "builtin", "external"}, NEW a \in Assigns, Start(kind, a)
    PROVE  Effect /\ Onward
<1>1. Stored BY TwoParts
<1>2. PICK c : c = Len(contexts) OBVIOUS
<1>3. c \in Nat /\ MaxContexts \in Nat BY <1>1, <1>2, ContextsAre, VariablesAssumption
<1>4. c + (IF kind = "function" THEN 2 ELSE 1) <= MaxContexts BY <1>2 DEF Start
<1>5. c < MaxContexts /\ (kind = "function" => c + 1 < MaxContexts) BY <1>3, <1>4
<1>6. Opens BY <1>2, <1>5 DEF Opens, Start
<1>7. task' = [do |-> "start", kind |-> kind, assigns |-> a] BY DEF Start
<1>8. task' \in Tasks BY <1>7 DEF Tasks
<1>9. PICK o : o = [base |-> c + 1, touched |-> {}, before |-> [n \in Names |-> Get(all[n]).var]]
  OBVIOUS
<1>10. PICK T : T = [base : 1..MaxContexts, touched : SUBSET Names, before : [Names -> Variable]]
  OBVIOUS
<1>11. o \in T
  <2>1. \A n \in Names : Ordered(all[n], Len(all[n])) BY <1>1, StackOf
  <2>2. \A n \in Names : Get(all[n]).var \in Variable BY <2>1, GetIs
  <2>3. c + 1 \in 1..MaxContexts BY <1>3, <1>5
  <2> QED BY <1>9, <1>10, <2>2, <2>3
<1>12. open \in Seq(T) /\ open' = Append(open, o) BY <1>1, <1>2, <1>6, <1>9, <1>10 DEF Opens, Stored
<1>13. open' # <<>> /\ Len(open') = Len(open) + 1 /\ open'[Len(open) + 1] = o
  BY <1>11, <1>12, AppendProperties
<1>14. open'[Len(open')].base = c + 1 BY <1>9, <1>13
<1>15. Len(contexts') = c + 1
  <2>1. PICK K : K = [kind : {"Regular", "Volatile"}, params : ParamLists] OBVIOUS
  <2>2. PICK e : e = [kind |-> "Volatile", params |-> <<>>] OBVIOUS
  <2>3. e \in K /\ contexts \in Seq(K) /\ contexts' = Append(contexts, e)
    BY <1>1, <1>6, <2>1, <2>2, VariablesAssumption DEF Stored, Opens, PushContext
  <2> QED BY <1>2, <2>3, AppendProperties
<1>16. Started' BY <1>5, <1>7, <1>13, <1>14, <1>15 DEF Started, Last
<1> QED BY <1>6, <1>8, <1>16 DEF Effect, Onward

\* perform_assignments.
LEMMA AssignTemporarilyHasEffect ==
    ASSUME VIInv, AssignTemporarily
    PROVE  Effect /\ Onward
<1>1. Stored /\ task \in Tasks /\ Started /\ task.do = "start" /\ task.assigns # <<>>
  BY TwoParts DEF AssignTemporarily
<1>2. task.assigns \in Assigns BY <1>1 DEF Tasks
<1>3. PICK n, x : n = Head(task.assigns)[1] /\ x = Head(task.assigns)[2] OBVIOUS
<1>4. n \in Names /\ x \in Values /\ Tail(task.assigns) \in Assigns BY <1>1, <1>2, <1>3, AssignsAre
<1>5. PICK r : r = GetOrCreate(n, "Volatile") OBVIOUS
<1>6. PICK t, v, p : Changes(n, "Volatile", r, t, v, p) BY <1>1, <1>4, <1>5, CreateChanges DEF Scopings
<1>7. contexts[Len(contexts)].kind = "Volatile"
  <2>1. open # <<>> /\ Last(open).base = Len(contexts) BY <1>1 DEF Started
  <2>2. PICK d : d = Len(open) OBVIOUS
  <2>3. d \in Nat /\ (open = <<>> <=> d = 0) /\ Last(open) = open[d] BY <1>1, <2>2, OpenIs
  <2>4. d \in 1..d BY <2>1, <2>3
  <2>5. contexts[open[d].base].kind = "Volatile" BY <1>1, <2>2, <2>4, OpenIs
  <2> QED BY <2>1, <2>3, <2>5
<1>8. CASE IsReadOnly(r)
  <2>1. Modify(n, "Volatile", r) /\ task' = Unwind BY <1>3, <1>5, <1>8 DEF AssignTemporarily
  <2>2. SetsOne BY <1>4, <1>6, <1>7, <2>1 DEF SetsOne, Scopings
  <2> QED BY <2>1, <2>2, OnwardOf DEF Effect
<1>9. CASE ~IsReadOnly(r)
  <2>1. PICK new : new = Assigned(r, x) OBVIOUS
  <2>2. PICK q : q = Exported(new) OBVIOUS
  <2>3. Modify(n, "Volatile", q) /\ task' = [task EXCEPT !.assigns = Tail(task.assigns)]
    BY <1>3, <1>5, <1>9, <2>1, <2>2 DEF AssignTemporarily
  <2>4. PICK w : Changes(n, "Volatile", new, t, w, p) BY <1>1, <1>4, <1>6, <1>9, <2>1, AssignChanges
  <2>5. PICK u : Changes(n, "Volatile", q, t, u, p) BY <1>1, <1>4, <2>2, <2>4, ExportChanges
  <2>6. SetsOne BY <1>4, <1>7, <2>3, <2>5 DEF SetsOne, Scopings
  <2>7. task' \in Tasks /\ task'.do = task.do /\ task'.kind = task.kind BY <1>1, <1>4, <2>3 DEF Tasks
  <2>8. open' = open /\ contexts' = contexts BY <2>3 DEF Modify
  <2>9. Started' BY <1>1, <2>7, <2>8 DEF Started, Last
  <2> QED BY <2>6, <2>7, <2>9 DEF Effect, Onward
<1> QED BY <1>8, <1>9

\* The command runs.
LEMMA RunHasEffect ==
    ASSUME VIInv, \/ \E p \in ParamLists : RunFunction(p)
                  \/ RunBuiltin \/ RunExternal
    PROVE  Effect /\ Onward
<1>1. Stored /\ Started BY TwoParts
<1>2. CASE \E p \in ParamLists : RunFunction(p)
  <2>1. task.do = "start" /\ task.kind = "function" /\ task' = Run BY <1>2 DEF RunFunction
  <2>2. Len(contexts) < MaxContexts BY <1>1, <2>1 DEF Started
  <2>3. Calls BY <1>2, <2>2 DEF Calls, RunFunction
  <2> QED BY <2>1, <2>3, OnwardOf DEF Effect
<1>3. CASE RunBuiltin
  <2>1. Quietly /\ task' = Run BY <1>1, <1>3 DEF RunBuiltin, Quietly, Stored
  <2> QED BY <2>1, OnwardOf DEF Effect
<1>4. CASE RunExternal
  <2>1. Quietly /\ task' = [Unwind EXCEPT !.do = "leave"]
    BY <1>1, <1>4 DEF RunExternal, Quietly, Stored
  <2> QED BY <2>1, OnwardOf DEF Effect
<1> QED BY <1>2, <1>3, <1>4

\* The command ends, in whatever way.
LEMMA EndHasEffect ==
    ASSUME VIInv, EndBody \/ LeaveCommand \/ UnwindOne
    PROVE  Effect /\ Onward
<1>1. Stored /\ task \in Tasks BY TwoParts
<1>2. CASE EndBody
  <2>1. PopContext /\ task' \in {Run, [Unwind EXCEPT !.do = "leave"]} BY <1>2 DEF EndBody
  <2> QED BY <2>1, OnwardOf DEF Effect
<1>3. CASE LeaveCommand
  <2>1. PopContext /\ task' = Run BY <1>3 DEF LeaveCommand
  <2> QED BY <2>1, OnwardOf DEF Effect
<1>4. CASE UnwindOne
  <2>1. CASE Len(contexts) = 1
    <3>1. task' = Run /\ UNCHANGED <<all, contexts, allexport, open>> BY <1>4, <2>1 DEF UnwindOne
    <3>2. Quietly BY <1>1, <3>1 DEF Quietly, Stored
    <3> QED BY <3>1, <3>2, OnwardOf DEF Effect
  <2>2. CASE Len(contexts) # 1
    <3>1. PopContext /\ task' = task /\ task.do = "unwind" BY <1>4, <2>2 DEF UnwindOne
    <3>2. Started' /\ task' \in Tasks BY <1>1, <3>1 DEF Started
    <3> QED BY <3>1, <3>2 DEF Effect, Onward
  <2> QED BY <2>1, <2>2
<1> QED BY <1>2, <1>3, <1>4

\* Every step.
LEMMA StepHasEffect == VIInv /\ [VNext]_vvars => Effect /\ Onward
<1> SUFFICES ASSUME VIInv, [VNext]_vvars PROVE Effect /\ Onward OBVIOUS
<1>1. ASSUME NEW n \in Names, NEW x \in Values, Assign(n, x) PROVE Effect /\ Onward
  BY <1>1, AssignHasEffect
<1>2. ASSUME NEW n \in Names, NEW x \in Values \cup {NoValue}, NEW scope \in {"Global", "Local"},
             NEW attr \in {"none", "readonly", "export", "unexport"}, Typeset(n, x, scope, attr)
      PROVE  Effect /\ Onward
  BY <1>2, SetVariableHasEffect DEF Typeset
<1>3. ASSUME NEW n \in Names, NEW x \in Values \cup {NoValue}, NEW attr \in {"readonly", "export"},
             ExportOrReadonly(n, x, attr)
      PROVE  Effect /\ Onward
  BY <1>3, SetVariableHasEffect DEF ExportOrReadonly
<1>4. ASSUME NEW n \in Names, Unset(n) PROVE Effect /\ Onward BY <1>4, UnsetHasEffect
<1>5. ASSUME NEW kind \in {"function", "builtin", "external"}, NEW a \in Assigns, Start(kind, a)
      PROVE  Effect /\ Onward
  BY <1>5, StartHasEffect
<1>6. CASE UNCHANGED vvars
  <2>1. Stored /\ Started /\ task \in Tasks BY TwoParts
  <2>2. Quietly BY <1>6, <2>1 DEF Quietly, vvars, Stored
  <2>3. Onward BY <1>6, <2>1 DEF Onward, Started, vvars, Last
  <2> QED BY <2>2, <2>3 DEF Effect
<1> QED
  BY <1>1, <1>2, <1>3, <1>4, <1>5, <1>6, SettingHasEffect, AssignTemporarilyHasEffect,
     RunHasEffect, EndHasEffect
  DEF VNext

-----------------------------------------------------------------------------
(***************************************************************************)
(* The invariant, and that temporary assignments are undone.               *)
(***************************************************************************)

\* A shell starts with the base context and no variables.
LEMMA VInitially == VInit => VIInv
<1> SUFFICES ASSUME VInit PROVE VIInv OBVIOUS
<1>1. PICK e : e = [kind |-> "Regular", params |-> <<>>] OBVIOUS
<1>2. PICK K : K = [kind : {"Regular", "Volatile"}, params : ParamLists] OBVIOUS
<1>3. contexts = <<e>> /\ e \in K BY <1>1, <1>2, VariablesAssumption DEF VInit
<1>4. contexts \in Seq(K) /\ Len(contexts) = 1 /\ contexts[1].kind = "Regular" BY <1>1, <1>3
<1>5. \A n \in Names : all[n] = <<>> /\ Len(all[n]) = 0 /\ all[n] \in Seq(Entries)
  BY EmptySeq DEF VInit
<1>6. all \in [Names -> Seq(Entries)] BY <1>5 DEF VInit
<1>7. \A n \in Names : 1..Len(all[n]) = {}
  <2>1. 1..0 = {} OBVIOUS
  <2>2. \A n \in Names : Len(all[n]) = 0 BY <1>5
  <2> QED BY <2>1, <2>2
<1>8. Len(open) = 0 /\ 1..Len(open) = {} BY DEF VInit
<1>9. open \in Seq([base : 1..MaxContexts, touched : SUBSET Names, before : [Names -> Variable]])
  BY EmptySeq DEF VInit
<1>10. Normalized /\ CopiesRespect BY <1>7 DEF Normalized, CopiesRespect
<1>11. Undoable BY <1>8 DEF Undoable
<1>12. Nested BY <1>4, <1>8, VariablesAssumption DEF Nested
<1>13. Stored BY <1>2, <1>4, <1>6, <1>9, <1>10, <1>11, <1>12 DEF Stored, VInit
<1>14. task \in Tasks /\ Started BY TasksAre DEF VInit, Started
<1> QED BY <1>13, <1>14, TwoParts

\* Every step keeps the invariant.
LEMMA VInductive == VIInv /\ [VNext]_vvars => VIInv'
<1> SUFFICES ASSUME VIInv, [VNext]_vvars PROVE VIInv' OBVIOUS
<1>1. Effect /\ Onward BY StepHasEffect
<1>2. Stored BY TwoParts
<1>3. Stored' BY <1>1, <1>2, EffectKeeps
<1>4. VIInv' <=> Stored' /\ (task \in Tasks)' /\ Started'
  BY DEF VIInv, VTypeOK, Stored, Entries, Tasks
<1> QED BY <1>1, <1>3, <1>4 DEF Onward

\* The inductive invariant of the variables, however deep contexts are nested.
THEOREM VInvariance == VSpec => []VIInv
BY VInitially, VInductive, PTL DEF VSpec

\* A stack has at most one variable per context, in the order of the contexts.
THEOREM StacksNormalized == VSpec => []Normalized
<1>1. VIInv => Normalized BY DEF VIInv
<1> QED BY <1>1, VInvariance, PTL

\* A step that closes a command pops its context, the one on top.
LEMMA ClosesByPop ==
    ASSUME Stored, Effect, Len(open') < Len(open)
    PROVE  PopContext /\ open # <<>> /\ Last(open).base = Len(contexts)
<1>1. PICK d : d = Len(open) OBVIOUS
<1>2. d \in Nat BY <1>1, OpenIs
<1>3. Len(open') # d BY <1>1, <1>2
<1>4. ~Quietly BY <1>1, <1>3 DEF Quietly
<1>5. ~SetsOne BY <1>1, <1>3, ChangeKeeps DEF SetsOne, Retouched
<1>6. ~RemovesOne BY <1>1, <1>3, UnsetKeeps DEF RemovesOne, Retouched
<1>7. ~SetsParams /\ ~Calls BY <1>1, <1>3 DEF SetsParams, Calls
<1>8. ~Opens
  <2>1. SUFFICES ASSUME Opens PROVE FALSE OBVIOUS
  <2>2. PICK o : o = [base |-> Len(contexts) + 1, touched |-> {},
                      before |-> [n \in Names |-> Get(all[n]).var]]
    OBVIOUS
  <2>3. PICK T : T = [base : 1..MaxContexts, touched : SUBSET Names, before : [Names -> Variable]]
    OBVIOUS
  <2>4. open \in Seq(T) /\ open' = Append(open, o) BY <2>1, <2>2, <2>3 DEF Opens, Stored
  <2>5. Len(open') = d + 1 BY <1>1, <2>4
  <2> QED BY <1>1, <1>2, <2>5
<1>9. PopContext BY <1>4, <1>5, <1>6, <1>7, <1>8 DEF Effect
<1>10. PICK c : c = Len(contexts) OBVIOUS
<1>11. PICK q : q = open' OBVIOUS
<1>12. c > 1 /\ q = IF Last(open).base = c THEN Front(open) ELSE open
  BY <1>9, <1>10, <1>11 DEF PopContext
<1>13. Len(q) < Len(open) => open # <<>> /\ Last(open).base = c BY <1>10, <1>12, PopOpen
<1> QED BY <1>9, <1>10, <1>11, <1>13

\* When a command with temporary assignments is over, in whatever way, all
\* that was not assigned for good meanwhile is as it was: what a context that
\* is popped uncovers is what the command found.
THEOREM AssignmentsUndone == VSpec => TemporaryUndone
<1>1. ASSUME VIInv, [VNext]_vvars
      PROVE  Len(open') < Len(open) =>
               \A n \in Names \ Last(open).touched : Get(all'[n]).var = Last(open).before[n]
  <2> SUFFICES ASSUME Len(open') < Len(open), NEW n \in Names \ Last(open).touched
               PROVE  Get(all'[n]).var = Last(open).before[n]
    OBVIOUS
  <2>1. Stored /\ Effect BY <1>1, StepHasEffect, TwoParts
  <2>2. PopContext /\ open # <<>> /\ Last(open).base = Len(contexts) BY <2>1, ClosesByPop
  <2>3. PICK d : d = Len(open) OBVIOUS
  <2>4. d \in Nat /\ (open = <<>> <=> d = 0) /\ Last(open) = open[d] BY <2>1, <2>3, OpenIs
  <2>5. d \in 1..d BY <2>2, <2>4
  <2>6. VisibleBelow(all[n], open[d].base) = open[d].before[n]
    BY <2>1, <2>3, <2>4, <2>5 DEF Stored, Undoable
  <2>7. all'[n] = StackPopped(all[n]) BY <2>2 DEF PopContext
  <2>8. Get(StackPopped(all[n])).var = VisibleBelow(all[n], Len(contexts))
    BY <2>1, PopUncovers
  <2> QED BY <2>2, <2>4, <2>6, <2>7, <2>8
<1>2. VIInv /\ [VNext]_vvars =>
        [Len(open') < Len(open) =>
           \A n \in Names \ Last(open).touched : Get(all'[n]).var = Last(open).before[n]]_vvars
  BY <1>1
<1> QED BY <1>2, VInvariance, PTL DEF VSpec, TemporaryUndone

-----------------------------------------------------------------------------
(***************************************************************************)
(* The variable set as a stack of scopes.                                  *)
(***************************************************************************)

\* Whether a stack has a variable of context i, and which.
Holds(s, i) == \E k \in 1..Len(s) : s[k].ctx = i
Held(s, i) == s[CHOOSE k \in 1..Len(s) : s[k].ctx = i].var

\* The variables of context i when the stacks are a, and the scopes they make.
Layer(a, i) == [n \in {x \in Names : Holds(a[x], i)} |-> Held(a[n], i)]
Layers(a, cs) ==
    [i \in 1..Len(cs) |-> [kind |-> cs[i].kind, vars |-> Layer(a, i), params |-> cs[i].params]]

\* These are the scopes of the refinement, now and after a step.
LEMMA ScopesAre ==
    /\ ScopeStack = Layers(all, contexts)
    /\ ScopeStack' = Layers(all', contexts')
BY DEF ScopeStack, VariablesIn, Layers, Layer, Holds, Held

\* The names a context has.
LEMMA LayerIs ==
    ASSUME NEW a, NEW i
    PROVE  /\ DOMAIN Layer(a, i) = {x \in Names : Holds(a[x], i)}
           /\ \A x \in DOMAIN Layer(a, i) : Layer(a, i)[x] = Held(a[x], i)
BY DEF Layer

\* What a scope consists of.
LEMMA LayersAre ==
    ASSUME NEW a, NEW cs, NEW c \in Nat, c = Len(cs), NEW S, S = Layers(a, cs)
    PROVE  /\ Len(S) = c
           /\ S = [i \in 1..c |-> [kind |-> cs[i].kind, vars |-> Layer(a, i), params |-> cs[i].params]]
           /\ \A i \in 1..c : S[i] = [kind |-> cs[i].kind, vars |-> Layer(a, i), params |-> cs[i].params]
<1>1. S = [i \in 1..c |-> [kind |-> cs[i].kind, vars |-> Layer(a, i), params |-> cs[i].params]]
  BY DEF Layers
<1>2. Len(S) = c BY <1>1
<1>3. \A i \in 1..c : S[i] = [kind |-> cs[i].kind, vars |-> Layer(a, i), params |-> cs[i].params]
  BY <1>1
<1> QED BY <1>1, <1>2, <1>3

\* A context has a name just if a variable of its stack is of the context.
LEMMA HeldIs ==
    ASSUME NEW s, NEW m, Ordered(s, m)
    PROVE  /\ \A k \in 1..m : Holds(s, s[k].ctx) /\ Held(s, s[k].ctx) = s[k].var
           /\ \A i : Holds(s, i) <=> \E k \in 1..m : s[k].ctx = i
<1>1. m \in Nat /\ m = Len(s) BY InStack DEF Ordered
<1>2. \A i : Holds(s, i) <=> \E k \in 1..m : s[k].ctx = i BY <1>1 DEF Holds
<1>3. ASSUME NEW k \in 1..m PROVE Held(s, s[k].ctx) = s[k].var
  <2>1. ASSUME NEW j \in 1..m, s[j].ctx = s[k].ctx PROVE j = k
    <3>1. s[k].ctx \in Nat /\ s[j].ctx \in Nat BY InStack
    <3>2. j < k => s[j].ctx < s[k].ctx BY DEF Ordered
    <3>3. k < j => s[k].ctx < s[j].ctx BY DEF Ordered
    <3>4. ~(j < k) /\ ~(k < j) BY <2>1, <3>1, <3>2, <3>3
    <3> QED BY <1>1, <3>4
  <2>2. (CHOOSE j \in 1..m : s[j].ctx = s[k].ctx) = k BY <2>1
  <2> QED BY <1>1, <2>2 DEF Held
<1> QED BY <1>2, <1>3

\* What a change makes of the contexts of a stack.
LEMMA PutHolds ==
    ASSUME NEW s, NEW m, Ordered(s, m), NEW t \in 1..MaxContexts, NEW v, NEW p \in 1..m + 1,
           NEW r, PutAt(r, s, m, t, v, p), Ordered(r, p)
    PROVE  /\ Holds(r, t) /\ Held(r, t) = v
           /\ \A i \in Nat : i > t => ~Holds(r, i)
           /\ \A i \in Nat : i < t => (Holds(r, i) <=> Holds(s, i))
           /\ \A i \in Nat : i < t /\ Holds(s, i) => Held(r, i) = Held(s, i)
<1>1. m \in Nat /\ p \in Nat /\ t \in Nat /\ p \in 1..p BY InStack
<1>2. r[p].ctx = t /\ r[p].var = v BY DEF PutAt
<1>3. Holds(r, t) /\ Held(r, t) = v BY <1>1, <1>2, HeldIs
<1>4. \A k \in 1..p : k # p => k \in 1..p - 1 /\ k \in 1..m BY <1>1
<1>5. \A k \in 1..p : r[k].ctx \in Nat /\ (k # p => r[k] = s[k] /\ r[k].ctx < t)
  BY <1>4, InStack DEF PutAt
<1>6. ASSUME NEW i \in Nat, i > t PROVE ~Holds(r, i)
  <2>1. \A k \in 1..p : r[k].ctx # i BY <1>1, <1>2, <1>5, <1>6
  <2> QED BY <2>1, HeldIs
<1>7. ASSUME NEW i \in Nat, i < t
      PROVE  (Holds(r, i) <=> Holds(s, i)) /\ (Holds(s, i) => Held(r, i) = Held(s, i))
  <2>1. ASSUME NEW k \in 1..p, r[k].ctx = i PROVE Holds(s, i)
    <3>1. k # p BY <1>1, <1>2, <1>7, <2>1
    <3>2. k \in 1..m /\ s[k].ctx = i BY <1>4, <1>5, <2>1, <3>1
    <3> QED BY <3>2, HeldIs
  <2>2. ASSUME NEW k \in 1..m, s[k].ctx = i PROVE Holds(r, i) /\ Held(r, i) = Held(s, i)
    <3>1. ~(s[k].ctx >= t) BY <1>1, <1>7, <2>2
    <3>2. k \notin p..m BY <3>1 DEF PutAt
    <3>3. k \in 1..p /\ k # p BY <1>1, <3>2
    <3>4. r[k] = s[k] BY <1>5, <3>3
    <3>5. Held(s, i) = s[k].var BY <2>2, HeldIs
    <3>6. Holds(r, i) /\ Held(r, i) = r[k].var BY <2>2, <3>3, <3>4, HeldIs
    <3> QED BY <3>4, <3>5, <3>6
  <2> QED BY <2>1, <2>2, HeldIs
<1> QED BY <1>3, <1>6, <1>7

\* What it makes of the scopes.
LEMMA LayerChanges ==
    ASSUME Stored, NEW n \in Names, NEW scope, NEW r, NEW t, NEW v, NEW p,
           Changes(n, scope, r, t, v, p), NEW a, a[n] = r,
           \A x \in Names : x # n => a[x] = all[x]
    PROVE  /\ Layer(a, t) = Abstract!With(Layer(all, t), n, v)
           /\ \A i \in Nat : i > t => Layer(a, i) = Abstract!Without(Layer(all, i), n)
           /\ \A i \in Nat : i < t => Layer(a, i) = Layer(all, i)
<1>1. PICK s : s = all[n] OBVIOUS
<1>2. PICK m : m = Len(s) OBVIOUS
<1>3. Ordered(s, m) BY <1>1, <1>2, StackOf
<1>4. t \in 1..MaxContexts /\ v \in Variable /\ p \in 1..m + 1 /\ PutAt(r, s, m, t, v, p)
  BY <1>1, <1>2, ChangesTop
<1>5. Ordered(r, p) BY <1>3, <1>4, PutIsOrdered
<1>6. /\ Holds(r, t) /\ Held(r, t) = v
      /\ \A i \in Nat : i > t => ~Holds(r, i)
      /\ \A i \in Nat : i < t => (Holds(r, i) <=> Holds(s, i))
      /\ \A i \in Nat : i < t /\ Holds(s, i) => Held(r, i) = Held(s, i)
  BY <1>3, <1>4, <1>5, PutHolds
<1>7. a[n] = r /\ \A x \in Names : x # n => a[x] = all[x] OBVIOUS
<1>8. n \in Names /\ \A i : DOMAIN Layer(all, i) \subseteq Names BY LayerIs
<1>9. Layer(a, t) = Abstract!With(Layer(all, t), n, v)
  <2>1. PICK f : f = Layer(all, t) OBVIOUS
  <2>2. DOMAIN f = {x \in Names : Holds(all[x], t)} /\ \A x \in DOMAIN f : f[x] = Held(all[x], t)
    BY <2>1, LayerIs
  <2>3. PICK D : D = {x \in Names : Holds(a[x], t)} OBVIOUS
  <2>4. ASSUME NEW x \in Names PROVE x \in D <=> x \in DOMAIN f \cup {n}
    BY <1>6, <1>7, <2>2, <2>3
  <2>5. D = DOMAIN f \cup {n} BY <2>2, <2>3, <2>4
  <2>6. ASSUME NEW x \in D PROVE Held(a[x], t) = IF x = n THEN v ELSE f[x]
    BY <1>6, <1>7, <2>2, <2>5
  <2>7. Layer(a, t) = [x \in D |-> Held(a[x], t)] BY <2>3 DEF Layer
  <2>8. Abstract!With(f, n, v) = [x \in D |-> IF x = n THEN v ELSE f[x]]
    BY <2>5 DEF Abstract!With
  <2>9. [x \in D |-> Held(a[x], t)] = [x \in D |-> IF x = n THEN v ELSE f[x]] BY <2>6
  <2> QED BY <2>1, <2>7, <2>8, <2>9
<1>10. ASSUME NEW i \in Nat, i > t PROVE Layer(a, i) = Abstract!Without(Layer(all, i), n)
  <2>1. PICK f : f = Layer(all, i) OBVIOUS
  <2>2. DOMAIN f = {x \in Names : Holds(all[x], i)} /\ \A x \in DOMAIN f : f[x] = Held(all[x], i)
    BY <2>1, LayerIs
  <2>3. PICK D : D = {x \in Names : Holds(a[x], i)} OBVIOUS
  <2>4. ASSUME NEW x \in Names PROVE x \in D <=> x \in DOMAIN f \ {n}
    <3>1. ~Holds(r, i) BY <1>6, <1>10
    <3> QED BY <1>7, <2>2, <2>3, <3>1
  <2>5. D = DOMAIN f \ {n} BY <2>2, <2>3, <2>4
  <2>6. ASSUME NEW x \in D PROVE Held(a[x], i) = f[x] BY <1>7, <2>2, <2>5
  <2>7. Layer(a, i) = [x \in D |-> Held(a[x], i)] BY <2>3 DEF Layer
  <2>8. Abstract!Without(f, n) = [x \in D |-> f[x]] BY <2>5 DEF Abstract!Without
  <2>9. [x \in D |-> Held(a[x], i)] = [x \in D |-> f[x]] BY <2>6
  <2> QED BY <2>1, <2>7, <2>8, <2>9
<1>11. ASSUME NEW i \in Nat, i < t PROVE Layer(a, i) = Layer(all, i)
  <2>1. (Holds(r, i) <=> Holds(s, i)) /\ (Holds(s, i) => Held(r, i) = Held(s, i))
    BY <1>6, <1>11
  <2>2. \A x \in Names : Holds(a[x], i) <=> Holds(all[x], i) BY <1>1, <1>7, <2>1
  <2>3. PICK D : D = {x \in Names : Holds(all[x], i)} OBVIOUS
  <2>4. D = {x \in Names : Holds(a[x], i)} BY <2>2, <2>3
  <2>5. ASSUME NEW x \in D PROVE Held(a[x], i) = Held(all[x], i) BY <1>1, <1>7, <2>1, <2>3
  <2>6. [x \in D |-> Held(a[x], i)] = [x \in D |-> Held(all[x], i)] BY <2>5
  <2> QED BY <2>3, <2>4, <2>6 DEF Layer
<1> QED BY <1>9, <1>10, <1>11

\* The scopes as the abstract specification sees them.
LEMMA AbstractIs ==
    ASSUME Stored, NEW c, c = Len(contexts)
    PROVE  /\ Len(ScopeStack) = c /\ c \in Nat
           /\ \A i \in 1..c : /\ ScopeStack[i].kind = contexts[i].kind
                              /\ ScopeStack[i].vars = Layer(all, i)
                              /\ ScopeStack[i].params = contexts[i].params
                              /\ ScopeStack[i] = [kind |-> contexts[i].kind, vars |-> Layer(all, i),
                                                  params |-> contexts[i].params]
           /\ \A n \in Names : Abstract!Has(n) = {i \in 1..c : Holds(all[n], i)}
           /\ Abstract!Regulars = {i \in 1..c : IsRegular(i)}
           /\ \A X : Abstract!Highest(X) = Highest(X)
<1>1. c \in Nat BY ContextsAre
<1>2. PICK S : S = ScopeStack OBVIOUS
<1>3. Len(S) = c
      /\ \A i \in 1..c : S[i] = [kind |-> contexts[i].kind, vars |-> Layer(all, i),
                                 params |-> contexts[i].params]
  BY <1>1, <1>2, ScopesAre, LayersAre
<1>4. \A i \in 1..c : S[i].kind = contexts[i].kind /\ S[i].vars = Layer(all, i)
                      /\ S[i].params = contexts[i].params
  <2>1. ASSUME NEW i \in 1..c
        PROVE  S[i].kind = contexts[i].kind /\ S[i].vars = Layer(all, i)
               /\ S[i].params = contexts[i].params
    <3>1. PICK e : e = S[i] OBVIOUS
    <3>2. e = [kind |-> contexts[i].kind, vars |-> Layer(all, i), params |-> contexts[i].params]
      BY <1>3, <3>1
    <3>3. e.kind = contexts[i].kind /\ e.vars = Layer(all, i) /\ e.params = contexts[i].params
      BY <3>2
    <3> QED BY <3>1, <3>3
  <2> QED BY <2>1
<1>5. ASSUME NEW n \in Names PROVE Abstract!Has(n) = {i \in 1..c : Holds(all[n], i)}
  <2>1. Abstract!Has(n) = {i \in 1..c : n \in DOMAIN S[i].vars} BY <1>2, <1>3 DEF Abstract!Has
  <2>2. ASSUME NEW i \in 1..c PROVE n \in DOMAIN S[i].vars <=> Holds(all[n], i)
    <3>1. S[i].vars = Layer(all, i) BY <1>4
    <3>2. DOMAIN Layer(all, i) = {x \in Names : Holds(all[x], i)} BY LayerIs
    <3> QED BY <3>1, <3>2
  <2> QED BY <2>1, <2>2
<1>6. Abstract!Regulars = {i \in 1..c : IsRegular(i)}
  <2>1. Abstract!Regulars = {i \in 1..c : ~(S[i].kind = "Volatile")}
    BY <1>2, <1>3 DEF Abstract!Regulars, Abstract!Temporary
  <2>2. ASSUME NEW i \in 1..c PROVE ~(S[i].kind = "Volatile") <=> IsRegular(i)
    <3>1. contexts[i].kind \in {"Regular", "Volatile"} BY ContextsAre
    <3> QED BY <1>4, <3>1 DEF IsRegular
  <2> QED BY <2>1, <2>2
<1>7. \A X : Abstract!Highest(X) = Highest(X) BY DEF Abstract!Highest, Highest
<1> QED BY <1>1, <1>2, <1>3, <1>4, <1>5, <1>6, <1>7

\* No regular context above where an assignment for good goes has the name.
LEMMA NoneAbove ==
    ASSUME Stored, NEW n \in Names, NEW scope \in {"Global", "Local"}, NEW r, NEW t, NEW v, NEW p,
           Changes(n, scope, r, t, v, p), NEW k \in 1..Len(all[n]), all[n][k].ctx > t
    PROVE  ~IsRegular(all[n][k].ctx)
<1>1. PICK s : s = all[n] OBVIOUS
<1>2. PICK m : m = Len(s) OBVIOUS
<1>3. Ordered(s, m) /\ m \in Nat /\ \A j \in 1..m : s[j].ctx \in Nat
  BY <1>1, <1>2, StackOf, InStack
<1>4. PICK idx : idx = IF scope = "Global" THEN 1 ELSE TopmostRegular OBVIOUS
<1>5. idx \in Nat /\ t \in Nat /\ k \in 1..m
  BY <1>1, <1>2, <1>4, ChangesTop, TopmostIs, ContextsAre
<1>6. Goal(s, m, idx, t) BY <1>1, <1>2, <1>4 DEF Changes
<1>7. PICK there : there = {j \in 1..m : s[j].ctx >= idx /\ IsRegular(s[j].ctx)} OBVIOUS
<1>8. \/ there = {} /\ t = idx
      \/ \E h \in there : t = s[h].ctx /\ \A j \in there : j <= h
  BY <1>6, <1>7 DEF Goal
<1>9. SUFFICES ASSUME IsRegular(s[k].ctx) PROVE FALSE BY <1>1
<1>10. t >= idx BY <1>5, <1>7, <1>8
<1>11. k \in there BY <1>1, <1>3, <1>5, <1>7, <1>9, <1>10
<1>12. PICK h \in there : t = s[h].ctx /\ k <= h BY <1>8, <1>11
<1>13. h \in 1..m /\ (k = h \/ k < h) BY <1>3, <1>5, <1>7, <1>12
<1>14. k < h => s[k].ctx < s[h].ctx BY <1>3, <1>5, <1>13 DEF Ordered
<1> QED BY <1>1, <1>3, <1>5, <1>12, <1>13, <1>14

\* What an assignment for good replaces is respected.
LEMMA ReplacedRespected ==
    ASSUME Stored, NEW n \in Names, NEW scope \in {"Global", "Local"}, NEW r, NEW t, NEW v, NEW p,
           Changes(n, scope, r, t, v, p), NEW i \in Nat, Holds(all[n], i), i >= t
    PROVE  Abstract!Respects(v, Held(all[n], i))
<1>1. PICK s : s = all[n] OBVIOUS
<1>2. PICK m : m = Len(s) OBVIOUS
<1>3. Ordered(s, m) /\ m \in Nat /\ \A j \in 1..m : s[j].ctx \in Nat
  BY <1>1, <1>2, StackOf, InStack
<1>4. PICK k \in 1..m : s[k].ctx = i BY <1>1, <1>3, HeldIs
<1>5. Held(s, i) = s[k].var BY <1>3, <1>4, HeldIs
<1>6. t \in Nat /\ p \in 1..m + 1 /\ PutAt(r, s, m, t, v, p) BY <1>1, <1>2, ChangesTop
<1>7. ~(k \in 1..p - 1)
  <2>1. k \in 1..p - 1 => s[k].ctx < t BY <1>6 DEF PutAt
  <2> QED BY <1>4, <1>6, <2>1
<1>8. p <= m /\ m # 0 BY <1>3, <1>4, <1>6, <1>7
<1>9. Abstract!Respects(v, s[m].var) BY <1>1, <1>2, <1>8 DEF Changes
<1>10. CASE k = m BY <1>1, <1>5, <1>9, <1>10
<1>11. CASE k # m
  <2>1. k < m /\ m \in 1..m BY <1>3, <1>4, <1>11
  <2>2. ASSUME NEW j \in k + 1..m PROVE ~IsRegular(s[j].ctx)
    <3>1. j \in 1..m /\ k < j BY <1>3, <1>4
    <3>2. s[k].ctx < s[j].ctx BY <1>3, <1>4, <3>1 DEF Ordered
    <3>3. s[j].ctx > t BY <1>3, <1>4, <1>6, <3>1, <3>2
    <3> QED BY <1>1, <1>2, <3>1, <3>3, NoneAbove
  <2>3. Abstract!Respects(s[m].var, s[k].var)
    BY <1>1, <1>2, <1>4, <2>1, <2>2 DEF Stored, CopiesRespect
  <2>4. Abstract!Respects(v, s[k].var) BY <1>9, <2>3, RespectsAll
  <2> QED BY <1>1, <1>5, <2>4
<1> QED BY <1>10, <1>11

\* The scope an assignment for good goes to is the one it should.
LEMMA GoalIsRight ==
    ASSUME Stored, NEW n \in Names, NEW scope \in {"Global", "Local"}, NEW r, NEW t, NEW v, NEW p,
           Changes(n, scope, r, t, v, p)
    PROVE  t = IF scope = "Local" THEN Abstract!Highest(Abstract!Regulars)
               ELSE LET there == Abstract!Has(n) \cap Abstract!Regulars
                    IN  IF there = {} THEN 1 ELSE Abstract!Highest(there)
<1>1. PICK c : c = Len(contexts) OBVIOUS
<1>2. Abstract!Regulars = {i \in 1..c : IsRegular(i)} /\ (\A X : Abstract!Highest(X) = Highest(X))
      /\ Abstract!Has(n) = {i \in 1..c : Holds(all[n], i)} /\ c \in Nat
  BY <1>1, AbstractIs
<1>3. CASE scope = "Local"
  <2>1. t = TopmostRegular BY <1>3, GoalIs
  <2>2. Highest(Abstract!Regulars) = TopmostRegular BY <1>1, <1>2 DEF TopmostRegular
  <2> QED BY <1>2, <1>3, <2>1, <2>2
<1>4. CASE scope = "Global"
  <2>1. PICK s : s = all[n] OBVIOUS
  <2>2. PICK m : m = Len(s) OBVIOUS
  <2>3. Ordered(s, m) /\ m \in Nat /\ (\A j \in 1..m : s[j].ctx \in 1..c)
        /\ (\A j \in 1..m : s[j].ctx >= 1 /\ s[j].ctx \in Nat)
    <3>1. Ordered(s, m) /\ m \in Nat /\ (\A j \in 1..m : s[j].ctx \in 1..c)
      BY <1>1, <2>1, <2>2, StackOf, InStack
    <3> QED BY <1>2, <3>1
  <2>4. PICK X : X = Abstract!Has(n) \cap Abstract!Regulars OBVIOUS
  <2>5. \A i : i \in X <=> \E k \in 1..m : s[k].ctx = i /\ IsRegular(i)
    <3>1. \A i : Holds(s, i) <=> \E k \in 1..m : s[k].ctx = i BY <2>3, HeldIs
    <3> QED BY <1>2, <2>1, <2>3, <2>4, <3>1
  <2>6. PICK there : there = {j \in 1..m : s[j].ctx >= 1 /\ IsRegular(s[j].ctx)} OBVIOUS
  <2>7. \/ there = {} /\ t = 1
        \/ \E h \in there : t = s[h].ctx /\ \A j \in there : j <= h
    BY <1>4, <2>1, <2>2, <2>6 DEF Changes, Goal
  <2>8. CASE there = {} /\ t = 1
    <3>1. X = {} BY <2>3, <2>5, <2>6, <2>8
    <3> QED BY <1>4, <2>4, <2>8, <3>1
  <2>9. CASE \E h \in there : t = s[h].ctx /\ \A j \in there : j <= h
    <3>1. PICK h \in there : t = s[h].ctx /\ \A j \in there : j <= h BY <2>9
    <3>2. t \in X BY <2>5, <2>6, <3>1
    <3>3. ASSUME NEW i \in X PROVE i <= t
      <4>1. PICK k \in 1..m : s[k].ctx = i /\ IsRegular(i) BY <2>5
      <4>2. k \in there /\ k <= h BY <2>3, <2>6, <3>1, <4>1
      <4>3. h \in 1..m /\ (k = h \/ k < h) BY <2>3, <2>6, <3>1, <4>1, <4>2
      <4>4. k < h => s[k].ctx < s[h].ctx BY <2>3, <4>1, <4>3 DEF Ordered
      <4> QED BY <2>3, <3>1, <4>1, <4>3, <4>4
    <3>4. X \subseteq 0..c BY <1>2, <2>4
    <3>5. Highest(X) = t BY <1>2, <3>2, <3>3, <3>4, HighestIsOnly
    <3> QED BY <1>2, <1>4, <2>4, <3>2, <3>5
  <2> QED BY <2>7, <2>8, <2>9
<1> QED BY <1>3, <1>4

-----------------------------------------------------------------------------
(***************************************************************************)
(* Every step is one of the abstract specification, or changes nothing.    *)
(***************************************************************************)

\* What a scope holds for a name.
LEMMA ScopeHolds ==
    ASSUME Stored, NEW n \in Names, NEW i \in 1..Len(contexts), Holds(all[n], i)
    PROVE  ScopeStack[i].vars[n] = Held(all[n], i)
<1>1. ScopeStack[i].vars = Layer(all, i) BY AbstractIs
<1>2. n \in DOMAIN Layer(all, i) BY LayerIs
<1> QED BY <1>1, <1>2, LayerIs

\* An assignment for good.
LEMMA SetsForGood ==
    ASSUME Stored, NEW n \in Names, NEW scope \in {"Global", "Local"}, NEW r, NEW t, NEW v, NEW p,
           Changes(n, scope, r, t, v, p), Modify(n, scope, r)
    PROVE  Abstract!SetIn(n, t, v)
<1>1. PICK c : c = Len(contexts) OBVIOUS
<1>2. /\ Len(ScopeStack) = c /\ c \in Nat
      /\ \A i \in 1..c : ScopeStack[i] = [kind |-> contexts[i].kind, vars |-> Layer(all, i),
                                          params |-> contexts[i].params]
      /\ Abstract!Has(n) = {i \in 1..c : Holds(all[n], i)}
  BY <1>1, AbstractIs
<1>3. t \in 1..c /\ t \in Nat BY <1>1, <1>2 DEF Changes
<1>4. \A i \in Abstract!Has(n) : i >= t => Abstract!Respects(v, ScopeStack[i].vars[n])
  <2>1. ASSUME NEW i \in Abstract!Has(n), i >= t
        PROVE  Abstract!Respects(v, ScopeStack[i].vars[n])
    <3>1. i \in 1..Len(contexts) /\ i \in Nat /\ Holds(all[n], i) BY <1>1, <1>2
    <3>2. ScopeStack[i].vars[n] = Held(all[n], i) BY <3>1, ScopeHolds
    <3>3. Abstract!Respects(v, Held(all[n], i)) BY <2>1, <3>1, ReplacedRespected
    <3> QED BY <3>2, <3>3
  <2> QED BY <2>1
<1>5. PICK a : a = all' OBVIOUS
<1>6. a[n] = r /\ (\A x \in Names : x # n => a[x] = all[x]) /\ contexts' = contexts
  BY <1>5 DEF Modify, Stored
<1>7. /\ Layer(a, t) = Abstract!With(Layer(all, t), n, v)
      /\ \A i \in Nat : i > t => Layer(a, i) = Abstract!Without(Layer(all, i), n)
      /\ \A i \in Nat : i < t => Layer(a, i) = Layer(all, i)
  BY <1>6, LayerChanges
<1>8. ScopeStack' = Layers(a, contexts) BY <1>5, <1>6, ScopesAre
<1>9. ScopeStack' = [i \in 1..c |-> [kind |-> contexts[i].kind, vars |-> Layer(a, i),
                                     params |-> contexts[i].params]]
  BY <1>1, <1>8 DEF Layers
<1>10. ASSUME NEW i \in 1..c
       PROVE  [kind |-> contexts[i].kind, vars |-> Layer(a, i), params |-> contexts[i].params]
              = [ScopeStack[i] EXCEPT !.vars = CASE i = t -> Abstract!With(ScopeStack[i].vars, n, v)
                                                 [] i > t -> Abstract!Without(ScopeStack[i].vars, n)
                                                 [] OTHER -> ScopeStack[i].vars]
  <2>1. PICK e, k, f, q : e = ScopeStack[i] /\ k = contexts[i].kind /\ f = Layer(all, i)
                          /\ q = contexts[i].params
    OBVIOUS
  <2>2. e = [kind |-> k, vars |-> f, params |-> q] /\ e.vars = f BY <1>2, <2>1
  <2>3. PICK g : g = CASE i = t -> Abstract!With(f, n, v)
                       [] i > t -> Abstract!Without(f, n)
                       [] OTHER -> f
    OBVIOUS
  <2>4. Layer(a, i) = g
    <3>1. i \in Nat /\ (i = t \/ i > t \/ i < t) BY <1>2, <1>3
    <3>2. i = t => g = Abstract!With(f, n, v) BY <2>3
    <3>3. i > t => g = Abstract!Without(f, n) BY <1>3, <2>3, <3>1
    <3>4. i < t => g = f BY <1>3, <2>3, <3>1
    <3> QED BY <1>7, <2>1, <3>1, <3>2, <3>3, <3>4
  <2>5. [e EXCEPT !.vars = g] = [kind |-> k, vars |-> g, params |-> q] BY <2>2
  <2> QED BY <2>1, <2>2, <2>3, <2>4, <2>5
<1>11. ScopeStack' = [i \in 1..Len(ScopeStack) |->
          [ScopeStack[i] EXCEPT !.vars = CASE i = t -> Abstract!With(ScopeStack[i].vars, n, v)
                                           [] i > t -> Abstract!Without(ScopeStack[i].vars, n)
                                           [] OTHER -> ScopeStack[i].vars]]
  BY <1>2, <1>9, <1>10
<1> QED BY <1>4, <1>11 DEF Abstract!SetIn

\* A temporary assignment.
LEMMA SetsForCommand ==
    ASSUME Stored, NEW n \in Names, NEW r, NEW t, NEW v, NEW p,
           Changes(n, "Volatile", r, t, v, p), Modify(n, "Volatile", r),
           contexts[Len(contexts)].kind = "Volatile"
    PROVE  Abstract!SetTemporary(n, v)
<1>1. PICK c : c = Len(contexts) OBVIOUS
<1>2. /\ Len(ScopeStack) = c /\ c \in Nat
      /\ \A i \in 1..c : ScopeStack[i] = [kind |-> contexts[i].kind, vars |-> Layer(all, i),
                                          params |-> contexts[i].params]
      /\ Abstract!Has(n) = {i \in 1..c : Holds(all[n], i)}
      /\ \A X : Abstract!Highest(X) = Highest(X)
  BY <1>1, AbstractIs
<1>3. t = c /\ c \in 1..c BY <1>1, <1>2, ContextsAre DEF Changes
<1>4. Abstract!Temporary(Len(ScopeStack))
  <2>1. ScopeStack[c].kind = contexts[c].kind BY <1>1, <1>3, AbstractIs
  <2> QED BY <1>1, <1>2, <2>1 DEF Abstract!Temporary
<1>5. Abstract!Respects(v, Abstract!Visible(n))
  <2>1. PICK s : s = all[n] OBVIOUS
  <2>2. PICK m : m = Len(s) OBVIOUS
  <2>3. Ordered(s, m) /\ m \in Nat /\ \A k \in 1..m : s[k].ctx \in 1..c
    BY <1>1, <2>1, <2>2, StackOf, InStack
  <2>4. PICK X : X = Abstract!Has(n) OBVIOUS
  <2>5. Abstract!Visible(n) = IF X = {} THEN Default ELSE ScopeStack[Highest(X)].vars[n]
    BY <1>2, <2>4 DEF Abstract!Visible
  <2>6. \A i : i \in X <=> \E k \in 1..m : s[k].ctx = i
    <3>1. \A i : Holds(s, i) <=> \E k \in 1..m : s[k].ctx = i BY <2>3, HeldIs
    <3> QED BY <1>2, <2>1, <2>3, <2>4, <3>1
  <2>7. CASE m = 0
    <3>1. X = {} BY <2>6, <2>7
    <3>2. Abstract!Visible(n) = Default BY <2>5, <3>1
    <3> QED BY <3>2, DefaultIs DEF Abstract!Respects
  <2>8. CASE m # 0
    <3>1. m \in 1..m BY <2>3, <2>8
    <3>2. s[m].ctx \in X BY <2>6, <3>1
    <3>3. ASSUME NEW i \in X PROVE i <= s[m].ctx
      <4>1. PICK k \in 1..m : s[k].ctx = i BY <2>6
      <4>2. k = m \/ k < m BY <2>3
      <4>3. k < m => s[k].ctx < s[m].ctx BY <2>3, <3>1 DEF Ordered
      <4>4. s[k].ctx \in Nat /\ s[m].ctx \in Nat BY <2>3, <3>1, InStack
      <4> QED BY <4>1, <4>2, <4>3, <4>4
    <3>4. X \subseteq 0..c BY <1>2, <2>4
    <3>5. Highest(X) = s[m].ctx BY <1>2, <3>2, <3>3, <3>4, HighestIsOnly
    <3>6. s[m].ctx \in 1..c /\ Holds(s, s[m].ctx) /\ Held(s, s[m].ctx) = s[m].var
      BY <2>3, <3>1, HeldIs
    <3>7. ScopeStack[s[m].ctx].vars[n] = s[m].var BY <1>1, <2>1, <3>6, ScopeHolds
    <3>8. Abstract!Visible(n) = s[m].var BY <2>5, <3>2, <3>5, <3>7
    <3>9. Abstract!Respects(v, s[m].var) BY <2>1, <2>2, <2>8 DEF Changes
    <3> QED BY <3>8, <3>9
  <2> QED BY <2>7, <2>8
<1>6. PICK a : a = all' OBVIOUS
<1>7. a[n] = r /\ (\A x \in Names : x # n => a[x] = all[x]) /\ contexts' = contexts
  BY <1>6 DEF Modify, Stored
<1>8. Layer(a, c) = Abstract!With(Layer(all, c), n, v)
      /\ \A i \in Nat : i < c => Layer(a, i) = Layer(all, i)
  BY <1>3, <1>7, LayerChanges
<1>9. ScopeStack' = [i \in 1..c |-> [kind |-> contexts[i].kind, vars |-> Layer(a, i),
                                     params |-> contexts[i].params]]
  <2>1. ScopeStack' = Layers(a, contexts) BY <1>6, <1>7, ScopesAre
  <2> QED BY <1>1, <2>1 DEF Layers
<1>10. PICK g : g = Abstract!With(ScopeStack[c].vars, n, v) OBVIOUS
<1>11. Layer(a, c) = g BY <1>1, <1>3, <1>8, <1>10, AbstractIs
<1>12. PICK S : S = ScopeStack OBVIOUS
<1>13. S = [i \in 1..c |-> [kind |-> contexts[i].kind, vars |-> Layer(all, i),
                            params |-> contexts[i].params]]
  <2>1. S = Layers(all, contexts) BY <1>12, ScopesAre
  <2> QED BY <1>1, <2>1 DEF Layers
<1>14. ASSUME NEW i \in 1..c
       PROVE  [S EXCEPT ![c].vars = g][i]
              = [kind |-> contexts[i].kind, vars |-> Layer(a, i), params |-> contexts[i].params]
  <2>1. CASE i = c BY <1>3, <1>11, <1>13, <2>1
  <2>2. CASE i # c
    <3>1. i \in Nat /\ i < c BY <1>2, <2>2
    <3>2. Layer(a, i) = Layer(all, i) BY <1>8, <3>1
    <3> QED BY <1>13, <2>2, <3>2
  <2> QED BY <2>1, <2>2
<1>15. DOMAIN [S EXCEPT ![c].vars = g] = 1..c BY <1>13
<1>16. [S EXCEPT ![c].vars = g]
       = [i \in 1..c |-> [kind |-> contexts[i].kind, vars |-> Layer(a, i), params |-> contexts[i].params]]
  BY <1>14, <1>15
<1>17. ScopeStack' = [ScopeStack EXCEPT ![Len(ScopeStack)].vars =
                        Abstract!With(ScopeStack[Len(ScopeStack)].vars, n, v)]
  BY <1>2, <1>9, <1>10, <1>12, <1>16
<1> QED BY <1>4, <1>5, <1>17 DEF Abstract!SetTemporary

\* A function of no names is the empty one.
LEMMA EmptyIs ==
    ASSUME NEW f, f = [x \in DOMAIN f |-> f[x]], DOMAIN f = {}
    PROVE  f = <<>>
<1>1. 1..0 = {} OBVIOUS
<1>2. f \in [1..0 -> {}] BY <1>1
<1>3. f \in Seq({}) BY <1>2, SeqDef
<1>4. Len(f) \in Nat /\ DOMAIN f = 1..Len(f) BY <1>3, LenProperties
<1>5. Len(f) = 0
  <2>1. Len(f) # 0 => 1 \in 1..Len(f) BY <1>4
  <2> QED BY <1>4, <2>1
<1> QED BY <1>3, <1>5, EmptySeq

\* Stacks of variables of the same contexts make the same scopes.
LEMMA SameLayers ==
    ASSUME NEW a, NEW b, NEW i, \A n \in Names : Holds(a[n], i) <=> Holds(b[n], i),
           \A n \in Names : Holds(b[n], i) => Held(a[n], i) = Held(b[n], i)
    PROVE  Layer(a, i) = Layer(b, i)
<1>1. PICK D : D = {n \in Names : Holds(b[n], i)} OBVIOUS
<1>2. D = {n \in Names : Holds(a[n], i)} BY <1>1
<1>3. \A n \in D : Held(a[n], i) = Held(b[n], i) BY <1>1
<1>4. [n \in D |-> Held(a[n], i)] = [n \in D |-> Held(b[n], i)] BY <1>3
<1> QED BY <1>1, <1>2, <1>4 DEF Layer

\* A name is removed.
LEMMA RemovesFromAll ==
    ASSUME Stored, RemovesOne
    PROVE  \E n \in Names : Abstract!Remove(n)
<1>1. PICK n \in Names : (\A k \in 1..Len(all[n]) : ~all[n][k].var.ro) /\ Modify(n, "Global", <<>>)
  BY DEF RemovesOne
<1>2. PICK c : c = Len(contexts) OBVIOUS
<1>3. /\ Len(ScopeStack) = c /\ c \in Nat
      /\ \A i \in 1..c : ScopeStack[i] = [kind |-> contexts[i].kind, vars |-> Layer(all, i),
                                          params |-> contexts[i].params]
      /\ Abstract!Has(n) = {i \in 1..c : Holds(all[n], i)}
  BY <1>2, AbstractIs
<1>4. ASSUME NEW i \in Abstract!Has(n) PROVE ~ScopeStack[i].vars[n].ro
  <2>1. i \in 1..Len(contexts) /\ Holds(all[n], i) BY <1>2, <1>3
  <2>2. ScopeStack[i].vars[n] = Held(all[n], i) BY <2>1, ScopeHolds
  <2>3. PICK s : s = all[n] OBVIOUS
  <2>4. PICK m : m = Len(s) OBVIOUS
  <2>5. Ordered(s, m) BY <2>3, <2>4, StackOf
  <2>6. \E k \in 1..m : s[k].ctx = i
    <3>1. Holds(s, i) BY <2>1, <2>3
    <3> QED BY <2>5, <3>1, HeldIs
  <2>7. PICK k \in 1..m : s[k].ctx = i BY <2>6
  <2>8. Held(s, i) = s[k].var BY <2>5, <2>7, HeldIs
  <2>9. ~s[k].var.ro BY <1>1, <2>3, <2>4, <2>7
  <2> QED BY <2>2, <2>3, <2>7, <2>8, <2>9
<1>5. PICK a : a = all' OBVIOUS
<1>6. a[n] = <<>> /\ (\A x \in Names : x # n => a[x] = all[x]) /\ contexts' = contexts
  BY <1>1, <1>5 DEF Modify, Stored
<1>7. ASSUME NEW i \in 1..c PROVE Layer(a, i) = Abstract!Without(Layer(all, i), n)
  <2>1. PICK f : f = Layer(all, i) OBVIOUS
  <2>2. DOMAIN f = {x \in Names : Holds(all[x], i)} /\ \A x \in DOMAIN f : f[x] = Held(all[x], i)
    BY <2>1, LayerIs
  <2>3. PICK D : D = {x \in Names : Holds(a[x], i)} OBVIOUS
  <2>4. ~Holds(a[n], i)
    <3>1. Len(a[n]) = 0 BY <1>6, EmptySeq
    <3>2. 1..0 = {} OBVIOUS
    <3> QED BY <3>1, <3>2 DEF Holds
  <2>5. ASSUME NEW x \in Names PROVE x \in D <=> x \in DOMAIN f \ {n}
    BY <1>6, <2>2, <2>3, <2>4
  <2>6. D = DOMAIN f \ {n} BY <2>2, <2>3, <2>5
  <2>7. ASSUME NEW x \in D PROVE Held(a[x], i) = f[x] BY <1>6, <2>2, <2>6
  <2>8. Layer(a, i) = [x \in D |-> Held(a[x], i)] BY <2>3 DEF Layer
  <2>9. Abstract!Without(f, n) = [x \in D |-> f[x]] BY <2>6 DEF Abstract!Without
  <2>10. [x \in D |-> Held(a[x], i)] = [x \in D |-> f[x]] BY <2>7
  <2> QED BY <2>1, <2>8, <2>9, <2>10
<1>8. ScopeStack' = [i \in 1..c |-> [kind |-> contexts[i].kind, vars |-> Layer(a, i),
                                     params |-> contexts[i].params]]
  <2>1. ScopeStack' = Layers(a, contexts) BY <1>5, <1>6, ScopesAre
  <2> QED BY <1>2, <2>1 DEF Layers
<1>9. ASSUME NEW i \in 1..c
      PROVE  [kind |-> contexts[i].kind, vars |-> Layer(a, i), params |-> contexts[i].params]
             = [ScopeStack[i] EXCEPT !.vars = Abstract!Without(ScopeStack[i].vars, n)]
  <2>1. PICK e, k, f, q : e = ScopeStack[i] /\ k = contexts[i].kind /\ f = Layer(all, i)
                          /\ q = contexts[i].params
    OBVIOUS
  <2>2. e = [kind |-> k, vars |-> f, params |-> q] /\ e.vars = f BY <1>3, <2>1
  <2>3. PICK g : g = Abstract!Without(f, n) OBVIOUS
  <2>4. Layer(a, i) = g BY <1>7, <2>1, <2>3
  <2>5. [e EXCEPT !.vars = g] = [kind |-> k, vars |-> g, params |-> q] BY <2>2
  <2> QED BY <2>1, <2>2, <2>3, <2>4, <2>5
<1>10. ScopeStack' = [i \in 1..Len(ScopeStack) |->
         [ScopeStack[i] EXCEPT !.vars = Abstract!Without(ScopeStack[i].vars, n)]]
  BY <1>3, <1>8, <1>9
<1>11. Abstract!Remove(n) BY <1>4, <1>10 DEF Abstract!Remove
<1> QED BY <1>1, <1>11

\* The positional parameters change.
LEMMA ParamsSet ==
    ASSUME Stored, SetsParams
    PROVE  \E p \in ParamLists : Abstract!SetParams(p)
<1>1. PICK p \in ParamLists : /\ contexts' = [contexts EXCEPT ![TopmostRegular].params = p]
                              /\ all' = all
  BY DEF SetsParams
<1>2. PICK c : c = Len(contexts) OBVIOUS
<1>3. Len(ScopeStack) = c /\ c \in Nat /\ Abstract!Regulars = {i \in 1..c : IsRegular(i)}
      /\ \A X : Abstract!Highest(X) = Highest(X)
  BY <1>2, AbstractIs
<1>4. PICK t : t = TopmostRegular OBVIOUS
<1>5. Abstract!Highest(Abstract!Regulars) = t BY <1>2, <1>3, <1>4 DEF TopmostRegular
<1>6. t \in 1..c BY <1>2, <1>4, TopmostIs
<1>7. PICK K : K = [kind : {"Regular", "Volatile"}, params : ParamLists] OBVIOUS
<1>8. contexts \in Seq(K) /\ contexts \in [1..c -> K] BY <1>2, <1>7, LenProperties DEF Stored
<1>9. contexts' = [contexts EXCEPT ![t] = [contexts[t] EXCEPT !.params = p]] BY <1>1, <1>4
<1>10. PICK cs : cs = contexts' OBVIOUS
<1>11. \A i \in 1..c : cs[i].kind = contexts[i].kind
                       /\ cs[i].params = IF i = t THEN p ELSE contexts[i].params
  <2>1. contexts[t] \in K BY <1>6, <1>8
  <2>2. \A i \in 1..c : cs[i] = IF i = t THEN [contexts[t] EXCEPT !.params = p] ELSE contexts[i]
    BY <1>6, <1>8, <1>9, <1>10
  <2> QED BY <1>7, <2>1, <2>2
<1>12. Len(cs) = c
  <2>1. DOMAIN cs = 1..c BY <1>8, <1>9, <1>10
  <2>2. Stored' BY <1>1, ParamsKeep DEF SetsParams
  <2>3. cs \in Seq(K) BY <1>7, <1>10, <2>2 DEF Stored
  <2>4. Len(cs) \in Nat /\ DOMAIN cs = 1..Len(cs) BY <2>3, LenProperties
  <2> QED BY <1>3, <2>1, <2>4
<1>13. PICK S : S = ScopeStack OBVIOUS
<1>14. S = [i \in 1..c |-> [kind |-> contexts[i].kind, vars |-> Layer(all, i),
                            params |-> contexts[i].params]]
  <2>1. S = Layers(all, contexts) BY <1>13, ScopesAre
  <2> QED BY <1>2, <2>1 DEF Layers
<1>15. ScopeStack' = [i \in 1..c |-> [kind |-> cs[i].kind, vars |-> Layer(all, i),
                                      params |-> cs[i].params]]
  <2>1. ScopeStack' = Layers(all, cs) BY <1>1, <1>10, ScopesAre
  <2> QED BY <1>12, <2>1 DEF Layers
<1>16. ASSUME NEW i \in 1..c
       PROVE  [S EXCEPT ![t].params = p][i]
              = [kind |-> cs[i].kind, vars |-> Layer(all, i), params |-> cs[i].params]
  BY <1>6, <1>11, <1>14
<1>17. [S EXCEPT ![t].params = p]
       = [i \in 1..c |-> [kind |-> cs[i].kind, vars |-> Layer(all, i), params |-> cs[i].params]]
  <2>1. DOMAIN [S EXCEPT ![t].params = p] = 1..c BY <1>14
  <2> QED BY <1>16, <2>1
<1>18. Abstract!SetParams(p) BY <1>5, <1>13, <1>15, <1>17 DEF Abstract!SetParams
<1> QED BY <1>18

\* A function on 1..c is a sequence of what it has.
LEMMA SequenceOf ==
    ASSUME NEW c \in Nat, NEW S, S = [i \in 1..c |-> S[i]], NEW U, \A i \in 1..c : S[i] \in U
    PROVE  S \in Seq(U) /\ Len(S) = c
<1>1. S \in [1..c -> U] OBVIOUS
<1>2. S \in Seq(U) BY <1>1, SeqDef
<1>3. DOMAIN S = 1..c BY <1>1
<1>4. Len(S) \in Nat /\ DOMAIN S = 1..Len(S) BY <1>2, LenProperties
<1> QED BY <1>2, <1>3, <1>4

\* A context is pushed, and with it a scope that has nothing yet.
LEMMA PushesScope ==
    ASSUME Stored, NEW kind \in {"Regular", "Volatile"}, NEW p \in ParamLists,
           PushContext(kind, p), all' = all
    PROVE  Abstract!Push(kind, p)
<1>1. PICK c : c = Len(contexts) OBVIOUS
<1>2. PICK S : S = ScopeStack OBVIOUS
<1>3. PICK T : T = ScopeStack' OBVIOUS
<1>4. PICK cs : cs = contexts' OBVIOUS
<1>5. PICK e : e = [kind |-> kind, params |-> p] OBVIOUS
<1>6. c \in Nat /\ c + 1 \in Nat /\ Len(S) = c
      /\ \A i \in 1..c : S[i] = [kind |-> contexts[i].kind, vars |-> Layer(all, i),
                                 params |-> contexts[i].params]
  BY <1>1, <1>2, AbstractIs
<1>7. Len(cs) = c + 1 /\ (\A i \in 1..c : cs[i] = contexts[i]) /\ cs[c + 1] = e
  <2>1. PICK K : K = [kind : {"Regular", "Volatile"}, params : ParamLists] OBVIOUS
  <2>2. e \in K /\ contexts \in Seq(K) /\ cs = Append(contexts, e)
    BY <1>4, <1>5, <2>1 DEF Stored, PushContext
  <2> QED BY <1>1, <2>2, AppendProperties
<1>8. T = Layers(all, cs) BY <1>3, <1>4, ScopesAre
<1>9. /\ Len(T) = c + 1
      /\ T = [i \in 1..c + 1 |-> [kind |-> cs[i].kind, vars |-> Layer(all, i), params |-> cs[i].params]]
      /\ \A i \in 1..c + 1 : T[i] = [kind |-> cs[i].kind, vars |-> Layer(all, i), params |-> cs[i].params]
  <2>1. PICK d : d = c + 1 OBVIOUS
  <2>2. d \in Nat /\ d = Len(cs) BY <1>6, <1>7, <2>1
  <2> QED BY <1>8, <2>1, <2>2, LayersAre
<1>10. Layer(all, c + 1) = <<>>
  <2>1. ASSUME NEW x \in Names PROVE ~Holds(all[x], c + 1)
    <3>1. PICK s, m : s = all[x] /\ m = Len(s) OBVIOUS
    <3>2. Ordered(s, m) /\ \A k \in 1..m : s[k].ctx \in 1..c BY <1>1, <3>1, StackOf
    <3>3. \A k \in 1..m : s[k].ctx # c + 1 BY <1>6, <3>2
    <3> QED BY <3>1, <3>2, <3>3, HeldIs
  <2>2. PICK f : f = Layer(all, c + 1) OBVIOUS
  <2>3. DOMAIN f = {} BY <2>1, <2>2, LayerIs
  <2>4. f = [x \in DOMAIN f |-> f[x]] BY <2>2 DEF Layer
  <2> QED BY <2>2, <2>3, <2>4, EmptyIs
<1>11. PICK g : g = [kind |-> kind, vars |-> <<>>, params |-> p] OBVIOUS
<1>12. T[c + 1] = g
  <2>1. e.kind = kind /\ e.params = p BY <1>5
  <2>2. c + 1 \in 1..c + 1 BY <1>6
  <2> QED BY <1>7, <1>9, <1>10, <1>11, <2>1, <2>2
<1>13. \A i \in 1..c : i \in 1..c + 1 /\ T[i] = S[i] BY <1>6, <1>7, <1>9
<1>14. PICK U : U = {T[i] : i \in 1..c + 1} OBVIOUS
<1>15. T \in Seq(U)
  <2>1. T = [i \in 1..c + 1 |-> T[i]] BY <1>9
  <2>2. \A i \in 1..c + 1 : T[i] \in U BY <1>14
  <2> QED BY <1>6, <2>1, <2>2, SequenceOf
<1>16. S \in Seq(U)
  <2>1. S = Layers(all, contexts) BY <1>2, ScopesAre
  <2>2. S = [i \in 1..c |-> [kind |-> contexts[i].kind, vars |-> Layer(all, i),
                             params |-> contexts[i].params]]
    BY <1>1, <1>6, <2>1, LayersAre
  <2>3. S = [i \in 1..c |-> S[i]] BY <2>2
  <2>4. \A i \in 1..c : S[i] \in U BY <1>13, <1>14
  <2> QED BY <1>6, <2>3, <2>4, SequenceOf
<1>17. g \in U
  <2>1. c + 1 \in 1..c + 1 BY <1>6
  <2> QED BY <1>12, <1>14, <2>1
<1>18. PICK A : A = Append(S, g) OBVIOUS
<1>19. A \in Seq(U) /\ Len(A) = c + 1 /\ (\A i \in 1..c : A[i] = S[i]) /\ A[c + 1] = g
  BY <1>6, <1>16, <1>17, <1>18, AppendProperties
<1>20. \A i \in 1..c + 1 : A[i] = T[i]
  <2>1. \A i \in 1..c + 1 : i \in 1..c \/ i = c + 1 BY <1>6
  <2> QED BY <1>12, <1>13, <1>19, <2>1
<1>21. A = T BY <1>9, <1>15, <1>19, <1>20, SeqEqual
<1> QED BY <1>2, <1>3, <1>11, <1>18, <1>21 DEF Abstract!Push

\* The context on top goes, and with it its scope.
LEMMA PopsScope ==
    ASSUME Stored, PopContext
    PROVE  Abstract!Pop
<1>1. PICK c : c = Len(contexts) OBVIOUS
<1>2. PICK S : S = ScopeStack OBVIOUS
<1>3. PICK T : T = ScopeStack' OBVIOUS
<1>4. PICK cs : cs = contexts' OBVIOUS
<1>5. PICK a : a = all' OBVIOUS
<1>6. /\ c \in Nat /\ Len(S) = c /\ c > 1 /\ c - 1 \in Nat
      /\ \A i \in 1..c : S[i] = [kind |-> contexts[i].kind, vars |-> Layer(all, i),
                                 params |-> contexts[i].params]
  <2>1. /\ c \in Nat /\ Len(S) = c
        /\ \A i \in 1..c : S[i] = [kind |-> contexts[i].kind, vars |-> Layer(all, i),
                                   params |-> contexts[i].params]
    BY <1>1, <1>2, AbstractIs
  <2>2. c > 1 BY <1>1 DEF PopContext
  <2> QED BY <2>1, <2>2
<1>7. Len(cs) = c - 1 /\ \A i \in 1..c - 1 : cs[i] = contexts[i]
  <2>1. PICK K : K = [kind : {"Regular", "Volatile"}, params : ParamLists] OBVIOUS
  <2>2. contexts \in Seq(K) /\ cs = Front(contexts) BY <1>4, <2>1 DEF Stored, PopContext
  <2>3. contexts # <<>> BY <1>1, <1>6, EmptySeq
  <2> QED BY <1>1, <2>2, <2>3, FrontIs
<1>8. T = Layers(a, cs) BY <1>3, <1>4, <1>5, ScopesAre
<1>9. /\ Len(T) = c - 1
      /\ T = [i \in 1..c - 1 |-> [kind |-> cs[i].kind, vars |-> Layer(a, i), params |-> cs[i].params]]
      /\ \A i \in 1..c - 1 : T[i] = [kind |-> cs[i].kind, vars |-> Layer(a, i), params |-> cs[i].params]
  BY <1>6, <1>7, <1>8, LayersAre
<1>10. ASSUME NEW i \in 1..c - 1 PROVE Layer(a, i) = Layer(all, i)
  <2>1. i \in Nat /\ i < c BY <1>6
  <2>2. ASSUME NEW x \in Names
        PROVE  /\ Holds(a[x], i) <=> Holds(all[x], i)
               /\ Holds(all[x], i) => Held(a[x], i) = Held(all[x], i)
    <3>1. PICK s, m : s = all[x] /\ m = Len(s) OBVIOUS
    <3>2. PICK r : r = StackPopped(s) OBVIOUS
    <3>3. a[x] = r BY <1>5, <3>1, <3>2 DEF PopContext
    <3>4. Ordered(s, m) /\ m \in Nat BY <3>1, StackOf, InStack
    <3>5. PICK q \in 0..m : Shortened(r, s, m, c, q) BY <1>1, <3>1, <3>2, PopShortens
    <3>6. q \in Nat /\ \A k \in 1..q : k \in 1..m /\ k <= q BY <3>4
    <3>7. Ordered(r, q)
      <4>1. \A j, k \in 1..q : j < k => r[j].ctx < r[k].ctx BY <3>4, <3>5, <3>6 DEF Shortened, Ordered
      <4> QED BY <3>5, <4>1 DEF Shortened, Ordered
    <3>8. ASSUME NEW k \in 1..m, s[k].ctx = i
          PROVE  k \in 1..q /\ r[k] = s[k]
      <4>1. k <= q BY <2>1, <3>5, <3>8 DEF Shortened
      <4>2. k \in 1..q BY <3>4, <3>6, <4>1
      <4> QED BY <3>5, <4>2 DEF Shortened
    <3>9. ASSUME NEW k \in 1..q, r[k].ctx = i
          PROVE  k \in 1..m /\ s[k].ctx = i
      BY <3>5, <3>6, <3>9 DEF Shortened
    <3>10. Holds(r, i) <=> Holds(s, i) BY <3>4, <3>7, <3>8, <3>9, HeldIs
    <3>11. ASSUME Holds(s, i) PROVE Held(r, i) = Held(s, i)
      <4>1. PICK k \in 1..m : s[k].ctx = i BY <3>4, <3>11, HeldIs
      <4>2. k \in 1..q /\ r[k] = s[k] BY <3>8, <4>1
      <4>3. Held(s, i) = s[k].var BY <3>4, <4>1, HeldIs
      <4>4. Held(r, i) = r[k].var BY <3>7, <4>1, <4>2, HeldIs
      <4> QED BY <4>2, <4>3, <4>4
    <3> QED BY <3>1, <3>3, <3>10, <3>11
  <2> QED BY <2>2, SameLayers
<1>11. \A i \in 1..c - 1 : i \in 1..c /\ T[i] = S[i] BY <1>6, <1>7, <1>9, <1>10
<1>12. PICK U : U = {S[i] : i \in 1..c - 1} OBVIOUS
<1>13. T \in Seq(U)
  <2>1. T = [i \in 1..c - 1 |-> T[i]] BY <1>9
  <2>2. \A i \in 1..c - 1 : T[i] \in U BY <1>11, <1>12
  <2> QED BY <1>6, <2>1, <2>2, SequenceOf
<1>14. PICK A : A = SubSeq(S, 1, c - 1) OBVIOUS
<1>15. A \in Seq(U) /\ Len(A) = c - 1 /\ \A i \in 1..c - 1 : A[i] = S[i]
  <2>1. \A i \in 1..c - 1 : S[i] \in U BY <1>12
  <2>2. /\ A \in Seq(U)
        /\ Len(A) = (IF 1 <= c - 1 THEN c - 1 - 1 + 1 ELSE 0)
        /\ \A i \in 1..c - 1 - 1 + 1 : A[i] = S[1 + i - 1]
    BY <1>6, <1>14, <2>1, SubSeqProperties
  <2>3. c - 1 - 1 + 1 = c - 1 /\ 1 <= c - 1 /\ \A i \in 1..c - 1 : 1 + i - 1 = i BY <1>6
  <2> QED BY <2>2, <2>3
<1>16. A = T BY <1>9, <1>11, <1>13, <1>15, SeqEqual
<1> QED BY <1>2, <1>3, <1>6, <1>14, <1>16 DEF Abstract!Pop

\* An assignment is one to the scope it should go to.
LEMMA SetsScope ==
    ASSUME Stored, SetsOne
    PROVE  \E n \in Names, v \in Variable :
              Abstract!SetGlobal(n, v) \/ Abstract!SetLocal(n, v) \/ Abstract!SetTemporary(n, v)
<1>1. PICK n \in Names, scope \in Scopings : \E r, t, v, p :
        /\ Changes(n, scope, r, t, v, p) /\ Modify(n, scope, r)
        /\ scope = "Volatile" => contexts[Len(contexts)].kind = "Volatile"
  BY DEF SetsOne
<1>2. PICK r, t, v, p :
        /\ Changes(n, scope, r, t, v, p) /\ Modify(n, scope, r)
        /\ scope = "Volatile" => contexts[Len(contexts)].kind = "Volatile"
  BY <1>1
<1>3. v \in Variable BY <1>2 DEF Changes
<1>4. CASE scope = "Volatile"
  <2>1. Abstract!SetTemporary(n, v) BY <1>2, <1>4, SetsForCommand
  <2> QED BY <1>3, <2>1
<1>5. CASE scope \in {"Global", "Local"}
  <2>1. Abstract!SetIn(n, t, v) BY <1>2, <1>5, SetsForGood
  <2>2. PICK X : X = Abstract!Has(n) \cap Abstract!Regulars OBVIOUS
  <2>3. t = IF scope = "Local" THEN Abstract!Highest(Abstract!Regulars)
            ELSE IF X = {} THEN 1 ELSE Abstract!Highest(X)
    BY <1>2, <1>5, <2>2, GoalIsRight
  <2>4. CASE scope = "Local"
    <3>1. Abstract!SetLocal(n, v) BY <2>1, <2>3, <2>4 DEF Abstract!SetLocal
    <3> QED BY <1>3, <3>1
  <2>5. CASE scope = "Global"
    <3>1. Abstract!SetGlobal(n, v) BY <2>1, <2>2, <2>3, <2>5 DEF Abstract!SetGlobal
    <3> QED BY <1>3, <3>1
  <2> QED BY <1>5, <2>4, <2>5
<1> QED BY <1>4, <1>5 DEF Scopings

\* Every step is a step of the abstract specification or stutters.
LEMMA StepIsAbstract == VIInv /\ [VNext]_vvars => [Abstract!Next]_ScopeStack
<1>1. SUFFICES ASSUME VIInv, [VNext]_vvars PROVE Abstract!Next \/ ScopeStack' = ScopeStack
  OBVIOUS
<1>2. Stored /\ Effect BY <1>1, StepHasEffect, TwoParts
<1>3. CASE Quietly
  <2>1. all' = all /\ contexts' = contexts BY <1>3 DEF Quietly
  <2>2. ScopeStack' = Layers(all, contexts) BY <2>1, ScopesAre
  <2> QED BY <2>2, ScopesAre
<1>4. CASE SetsOne BY <1>2, <1>4, SetsScope DEF Abstract!Next
<1>5. CASE RemovesOne BY <1>2, <1>5, RemovesFromAll DEF Abstract!Next
<1>6. CASE SetsParams BY <1>2, <1>6, ParamsSet DEF Abstract!Next
<1>7. CASE Opens
  <2>1. PushContext("Volatile", <<>>) /\ all' = all /\ <<>> \in ParamLists
    BY <1>7, VariablesAssumption DEF Opens
  <2>2. Abstract!Push("Volatile", <<>>) BY <1>2, <2>1, PushesScope
  <2> QED BY <2>2 DEF Abstract!Next
<1>8. CASE Calls
  <2>1. PICK p \in ParamLists : PushContext("Regular", p) /\ all' = all BY <1>8 DEF Calls
  <2>2. Abstract!Push("Regular", p) BY <1>2, <2>1, PushesScope
  <2> QED BY <2>2 DEF Abstract!Next
<1>9. CASE PopContext
  <2>1. Abstract!Pop BY <1>2, <1>9, PopsScope
  <2> QED BY <2>1 DEF Abstract!Next
<1> QED BY <1>2, <1>3, <1>4, <1>5, <1>6, <1>7, <1>8, <1>9 DEF Effect

\* There is the base scope to begin with.
LEMMA InitIsAbstract == VInit => Abstract!Init
<1>1. SUFFICES ASSUME VInit PROVE Abstract!Init OBVIOUS
<1>2. PICK e : e = [kind |-> "Regular", params |-> <<>>] OBVIOUS
<1>3. contexts = <<e>> BY <1>1, <1>2 DEF VInit
<1>4. Len(contexts) = 1 /\ contexts[1] = e BY <1>3
<1>5. PICK S : S = ScopeStack OBVIOUS
<1>6. S = Layers(all, contexts) BY <1>5, ScopesAre
<1>7. Layer(all, 1) = <<>>
  <2>1. ASSUME NEW x \in Names PROVE ~Holds(all[x], 1)
    <3>1. Len(all[x]) = 0 BY <1>1, EmptySeq DEF VInit
    <3>2. 1..0 = {} OBVIOUS
    <3> QED BY <3>1, <3>2 DEF Holds
  <2>2. PICK f : f = Layer(all, 1) OBVIOUS
  <2>3. DOMAIN f = {x \in Names : Holds(all[x], 1)} BY <2>2, LayerIs
  <2>4. DOMAIN f = {} BY <2>1, <2>3
  <2>5. f = [x \in DOMAIN f |-> f[x]] BY <2>2 DEF Layer
  <2> QED BY <2>2, <2>4, <2>5, EmptyIs
<1>8. S = [i \in 1..1 |-> [kind |-> "Regular", vars |-> <<>>, params |-> <<>>]]
  <2>1. e.kind = "Regular" /\ e.params = <<>> BY <1>2
  <2>2. S = [i \in 1..1 |-> [kind |-> contexts[i].kind, vars |-> Layer(all, i),
                             params |-> contexts[i].params]]
    BY <1>4, <1>6 DEF Layers
  <2>3. \A i \in 1..1 : contexts[i].kind = "Regular" /\ Layer(all, i) = <<>>
                        /\ contexts[i].params = <<>>
    BY <1>4, <1>7, <2>1
  <2> QED BY <2>2, <2>3
<1>9. PICK g : g = [kind |-> "Regular", vars |-> <<>>, params |-> <<>>] OBVIOUS
<1>10. S = [i \in 1..1 |-> g] BY <1>8, <1>9
<1>11. S = <<g>>
  <2>1. 1 \in Nat /\ S = [i \in 1..1 |-> S[i]] /\ \A i \in 1..1 : S[i] \in {g} BY <1>10
  <2>2. S \in Seq({g}) /\ Len(S) = 1 BY <2>1, SequenceOf
  <2>3. <<g>> \in Seq({g}) /\ Len(<<g>>) = 1 /\ <<g>>[1] = g OBVIOUS
  <2>4. \A i \in 1..1 : S[i] = <<g>>[i] BY <1>10, <2>3
  <2> QED BY <2>2, <2>3, <2>4, SeqEqual
<1> QED BY <1>5, <1>9, <1>11 DEF Abstract!Init

\* The variable set implements the stack of scopes.  Stacks of variables per
\* name, with volatile copies made and moved as in VariableSet::get_or_new,
\* are no more than scopes with variables of their own: in which a name means
\* what the topmost scope that has it says, and a read-only variable keeps
\* its value for as long as its scope is there.
THEOREM VariablesAreScopes == VSpec => ImplementsScopes
<1>1. VInit => Abstract!Init BY InitIsAbstract
<1>2. VIInv /\ [VNext]_vvars => [Abstract!Next]_ScopeStack BY StepIsAbstract
<1> QED BY <1>1, <1>2, VInvariance, PTL DEF VSpec, ImplementsScopes, Abstract!Spec

=============================================================================
