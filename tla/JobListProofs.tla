--------------------------- MODULE JobListProofs ----------------------------
(***************************************************************************)
(* Proofs about JobList.tla for any set of process IDs: the map of process *)
(* IDs stays the inverse of the slab, there is a current job, and with two *)
(* jobs a previous job, and, outside a subshell, both are chosen among the *)
(* suspended jobs while there are any.                                     *)
(***************************************************************************)
EXTENDS JobList, FiniteSetTheorems, WellFoundedInduction, TLAPS

-----------------------------------------------------------------------------
(* The iterators that choose the first candidate do return a candidate.    *)
LEMMA FirstIn ==
    ASSUME NEW S, S \subseteq Nat, S # {}
    PROVE  First(S) \in S
<1> DEFINE Less == OpToRel(<, Nat)
<1>1. IsWellFoundedOn(Less, Nat) BY NatLessThanWellFounded
<1>2. \A x, y \in Nat : y < x => <<y, x>> \in Less BY DEF OpToRel
<1> HIDE DEF Less
<1>3. PICK x \in S : \A y \in S : ~ (<<y, x>> \in Less) BY <1>1, WFMin
<1>4. ASSUME NEW y \in S PROVE x <= y
  <2>1. x \in Nat /\ y \in Nat OBVIOUS
  <2>2. ~ (y < x) BY <1>2, <1>3, <2>1
  <2> QED BY <2>1, <2>2
<1> QED BY <1>4 DEF First

(* What any_suspended_job_but_current and any_job_but_current return.      *)
LEMMA AnyButCurrentIn ==
    ASSUME NEW L, NEW c, Index(L) \subseteq Nat
    PROVE  /\ AnyButCurrent(L, c) \in Nat
           /\ SuspendedSet(L) \ {c} # {}
                => AnyButCurrent(L, c) \in SuspendedSet(L) \ {c}
           /\ Index(L) \ {c} # {} => AnyButCurrent(L, c) \in Index(L) \ {c}
<1> DEFINE S == SuspendedSet(L) \ {c}
           O == Index(L) \ {c}
<1>1. S \subseteq O /\ O \subseteq Nat BY DEF SuspendedSet
<1>2. AnyButCurrent(L, c) = IF S # {} THEN First(S)
                            ELSE IF O # {} THEN First(O) ELSE 0
  BY DEF AnyButCurrent
<1> HIDE DEF S, O
<1>3. S # {} => First(S) \in S BY <1>1, FirstIn
<1>4. O # {} => First(O) \in O BY <1>1, FirstIn
<1> QED BY <1>1, <1>2, <1>3, <1>4 DEF S, O

-----------------------------------------------------------------------------
(* JobList::remove, field by field: U is L without job i, c the index the  *)
(* current job has then.                                                   *)
Removed(L, U, i, c) ==
    /\ U.jobs = [k \in Index(L) \ {i} |-> L.jobs[k]]
    /\ U.pids_to_indices =
         [p \in DOMAIN L.pids_to_indices \ {L.jobs[i].pid} |-> L.pids_to_indices[p]]
    /\ U.free = IF Index(L) \ {i} = {} THEN <<>> ELSE <<i>> \o L.free
    /\ U.size = IF Index(L) \ {i} = {} THEN 0 ELSE L.size
    /\ U.current_job_index = c
    /\ U.previous_job_index =
         IF i = L.current_job_index \/ i = L.previous_job_index
         THEN AnyButCurrent(U, c) ELSE L.previous_job_index

(* remove sets each field of the list as Removed says.                     *)
LEMMA RemoveFields ==
    ASSUME NEW L, NEW i \in Index(L), NEW U, U = remove(L, i),
           NEW c, c = IF i = L.current_job_index THEN L.previous_job_index
                                                 ELSE L.current_job_index
    PROVE  Removed(L, U, i, c)
<1> DEFINE T == Taken(L, i)
<1>1. /\ T.jobs = [k \in Index(L) \ {i} |-> L.jobs[k]]
      /\ T.pids_to_indices =
                [p \in DOMAIN L.pids_to_indices \ {L.jobs[i].pid}
                    |-> L.pids_to_indices[p]]
      /\ T.free = IF Index(L) \ {i} = {} THEN <<>> ELSE <<i>> \o L.free
      /\ T.size = IF Index(L) \ {i} = {} THEN 0 ELSE L.size
  BY DEF Taken, List
<1>2. U = WithChosen(T, c,
                IF i = L.current_job_index \/ i = L.previous_job_index
                THEN AnyButCurrent(T, c) ELSE L.previous_job_index)
  BY DEF remove
<1> HIDE DEF T
<1>3. /\ U.jobs = T.jobs /\ U.pids_to_indices = T.pids_to_indices
      /\ U.free = T.free /\ U.size = T.size
      /\ U.current_job_index = c
      /\ U.previous_job_index =
            IF i = L.current_job_index \/ i = L.previous_job_index
            THEN AnyButCurrent(T, c) ELSE L.previous_job_index
  BY <1>2 DEF WithChosen, List
<1>4. AnyButCurrent(T, c) = AnyButCurrent(U, c)
  BY <1>3 DEF AnyButCurrent, Index, SuspendedSet
<1> QED BY <1>1, <1>3, <1>4 DEF Removed

(* Pushing a vacated index on the free stack.                              *)
LEMMA PushElems ==
    ASSUME NEW q \in Seq(Nat), NEW i \in Nat
    PROVE  /\ <<i>> \o q \in Seq(Nat)
           /\ Elems(<<i>> \o q) = Elems(q) \cup {i}
           /\ (/\ i \notin Elems(q)
               /\ \A k, m \in DOMAIN q : q[k] = q[m] => k = m)
                => \A k, m \in DOMAIN (<<i>> \o q) :
                        (<<i>> \o q)[k] = (<<i>> \o q)[m] => k = m
<1> DEFINE r == <<i>> \o q
           n == Len(q)
<1>1. n \in Nat /\ DOMAIN q = 1 .. n OBVIOUS
<1>2. r \in Seq(Nat) /\ Len(r) = n + 1 /\ DOMAIN r = 1 .. (n + 1) OBVIOUS
<1>3. r[1] = i /\ \A k \in 2 .. (n + 1) : r[k] = q[k - 1] OBVIOUS
<1> HIDE DEF r, n
<1>4. Elems(r) = Elems(q) \cup {i}
  <2>1. ASSUME NEW x \in Elems(r) PROVE x \in Elems(q) \cup {i}
    <3>1. PICK k \in 1 .. (n + 1) : x = r[k] BY <1>2, <2>1 DEF Elems
    <3>2. CASE k = 1 BY <3>1, <3>2, <1>3
    <3>3. CASE k # 1
      <4>1. k \in 2 .. (n + 1) /\ k - 1 \in 1 .. n BY <3>3, <1>1
      <4> QED BY <4>1, <3>1, <1>1, <1>3 DEF Elems
    <3> QED BY <3>2, <3>3
  <2>2. ASSUME NEW x \in Elems(q) PROVE x \in Elems(r)
    <3>1. PICK k \in 1 .. n : x = q[k] BY <1>1, <2>2 DEF Elems
    <3>2. k + 1 \in 2 .. (n + 1) /\ (k + 1) - 1 = k BY <1>1
    <3>3. r[k + 1] = x /\ k + 1 \in DOMAIN r BY <3>1, <3>2, <1>1, <1>2, <1>3
    <3> QED BY <3>3 DEF Elems
  <2>3. i \in Elems(r)
    <3>1. 1 \in DOMAIN r BY <1>1, <1>2
    <3> QED BY <3>1, <1>3 DEF Elems
  <2> QED BY <2>1, <2>2, <2>3
<1>5. ASSUME i \notin Elems(q), \A k, m \in DOMAIN q : q[k] = q[m] => k = m,
             NEW k \in DOMAIN r, NEW m \in DOMAIN r, r[k] = r[m]
      PROVE  k = m
  <2>1. \A j \in 2 .. (n + 1) : j - 1 \in DOMAIN q /\ r[j] = q[j - 1] /\ r[j] # i
    <3> SUFFICES ASSUME NEW j \in 2 .. (n + 1)
                 PROVE  j - 1 \in DOMAIN q /\ r[j] = q[j - 1] /\ r[j] # i
      OBVIOUS
    <3>1. j - 1 \in DOMAIN q /\ r[j] = q[j - 1] BY <1>1, <1>3
    <3> QED BY <3>1, <1>5 DEF Elems
  <2>2. k \in 1 .. (n + 1) /\ m \in 1 .. (n + 1) BY <1>2
  <2>3. CASE k = 1 \/ m = 1 BY <2>1, <2>2, <2>3, <1>1, <1>3, <1>5
  <2>4. CASE k # 1 /\ m # 1
    <3>1. k \in 2 .. (n + 1) /\ m \in 2 .. (n + 1) BY <2>2, <2>4, <1>1
    <3>2. k - 1 = m - 1 BY <2>1, <3>1, <1>5
    <3> QED BY <3>1, <3>2, <1>1
  <2> QED BY <2>3, <2>4
<1> QED BY <1>2, <1>4, <1>5 DEF r

(* JobList::remove keeps the map and the slab.                             *)
LEMMA RemoveSlabbed ==
    ASSUME NEW L, Slabbed(L), NEW i \in Index(L)
    PROVE  /\ Slabbed(remove(L, i))
           /\ Owned(L) => Owned(remove(L, i))
<1> DEFINE U == remove(L, i)
           cur == L.current_job_index
           prev == L.previous_job_index
           c == IF i = cur THEN prev ELSE cur
           D == Index(L)
           w == AnyButCurrent(U, c)
<1>t. ListType(L) BY DEF Slabbed
<1>u. U = remove(L, i) /\ c = IF i = cur THEN prev ELSE cur OBVIOUS
<1> HIDE DEF U, c
<1>g. Removed(L, U, i, c) BY <1>u, RemoveFields
<1>f. /\ U.jobs = [k \in D \ {i} |-> L.jobs[k]]
      /\ U.pids_to_indices =
            [p \in DOMAIN L.pids_to_indices \ {L.jobs[i].pid}
                |-> L.pids_to_indices[p]]
      /\ U.free = IF D \ {i} = {} THEN <<>> ELSE <<i>> \o L.free
      /\ U.size = IF D \ {i} = {} THEN 0 ELSE L.size
      /\ U.current_job_index = c
      /\ U.previous_job_index = IF i = cur \/ i = prev THEN w ELSE prev
  BY <1>g DEF Removed
<1>d. Index(U) = D \ {i} BY <1>f DEF Index
<1>j. \A k \in Index(U) : U.jobs[k] = L.jobs[k] BY <1>d, <1>f
<1>n. D \subseteq Nat /\ i \in Nat /\ cur \in Nat /\ prev \in Nat
  BY <1>t DEF ListType
<1>w. w \in Nat
  <2>1. Index(U) \subseteq Nat BY <1>d, <1>n
  <2> QED BY <2>1, AnyButCurrentIn
<1> HIDE DEF w
<1>1. ListType(U)
  <2>1. U.free \in Seq(Nat)
    BY <1>f, <1>n, <1>t, PushElems DEF ListType
  <2>2. IsFcn(U.jobs) /\ IsFcn(U.pids_to_indices) BY <1>f DEF IsFcn
  <2>3. U.current_job_index \in Nat /\ U.previous_job_index \in Nat
    BY <1>f, <1>n, <1>w, <1>u
  <2>4. U.size \in Nat BY <1>f, <1>t DEF ListType
  <2>5. DOMAIN U.pids_to_indices \subseteq Pid BY <1>f, <1>t DEF ListType
  <2>6. Index(U) \subseteq Nat /\ \A k \in Index(U) : U.jobs[k] \in Job
    BY <1>d, <1>j, <1>t DEF ListType
  <2> QED BY <2>1, <2>2, <2>3, <2>4, <2>5, <2>6 DEF ListType
<1>2. InSync(U)
  <2> DEFINE P == L.pids_to_indices
             Q == U.pids_to_indices
  <2>1. InSync(L) BY DEF Slabbed
  <2>2. DOMAIN Q = DOMAIN P \ {L.jobs[i].pid} /\ \A p \in DOMAIN Q : Q[p] = P[p]
    BY <1>f
  <2>3. ASSUME NEW k \in Index(U)
        PROVE  U.jobs[k].pid \in DOMAIN Q /\ Q[U.jobs[k].pid] = k
    <3>1. k \in D /\ k # i /\ U.jobs[k] = L.jobs[k] BY <1>d, <1>j
    <3>2. L.jobs[k].pid \in DOMAIN P /\ P[L.jobs[k].pid] = k /\ P[L.jobs[i].pid] = i
      BY <2>1, <3>1 DEF InSync
    <3> QED BY <3>1, <3>2, <2>2
  <2>4. ASSUME NEW p \in DOMAIN Q
        PROVE  Q[p] \in Index(U) /\ U.jobs[Q[p]].pid = p
    <3>1. p \in DOMAIN P /\ p # L.jobs[i].pid /\ Q[p] = P[p] BY <2>2
    <3>2. P[p] \in D /\ L.jobs[P[p]].pid = p BY <2>1, <3>1 DEF InSync
    <3>3. P[p] # i BY <3>1, <3>2
    <3> QED BY <3>1, <3>2, <3>3, <1>d, <1>j
  <2> QED BY <2>3, <2>4 DEF InSync
<1>3. SlabOK(U)
  <2>1. SlabOK(L) BY DEF Slabbed
  <2>2. CASE D \ {i} = {}
    <3>1. U.free = <<>> /\ U.size = 0 /\ Index(U) = {} BY <2>2, <1>f, <1>d
    <3> QED BY <3>1 DEF SlabOK, Elems
  <2>3. CASE D \ {i} # {}
    <3> DEFINE r == <<i>> \o L.free
    <3>1. U.free = r /\ U.size = L.size BY <2>3, <1>f
    <3>2. i \notin Elems(L.free) /\ i < L.size
      BY <2>1, <1>n, <1>t DEF SlabOK, ListType
    <3>3. /\ Elems(r) = Elems(L.free) \cup {i}
          /\ \A k, m \in DOMAIN r : r[k] = r[m] => k = m
      BY <3>2, <2>1, <1>n, <1>t, PushElems DEF SlabOK, ListType
    <3> HIDE DEF r
    <3>4. \A x \in Elems(r) : x < L.size
      BY <3>2, <3>3, <2>1 DEF SlabOK, Elems
    <3>5. \A k \in DOMAIN r : r[k] < L.size BY <3>4 DEF Elems
    <3>6. Index(U) = (0 .. L.size - 1) \ Elems(r) BY <1>d, <2>1, <3>3 DEF SlabOK
    <3> QED BY <3>1, <3>3, <3>5, <3>6, <1>d, <2>3 DEF SlabOK
  <2> QED BY <2>2, <2>3
<1>7. Owned(L) => Owned(U) BY <1>d, <1>j DEF Owned
<1> QED BY <1>1, <1>2, <1>3, <1>7, <1>u DEF Slabbed

(* JobList::remove keeps the choice of jobs too.                           *)
LEMMA RemoveKeeps ==
    ASSUME NEW L, WellFormed(L), NEW i \in Index(L)
    PROVE  /\ WellFormed(remove(L, i))
           /\ Ranked(L) => Ranked(remove(L, i))
           /\ Owned(L) => Owned(remove(L, i))
<1> DEFINE U == remove(L, i)
           cur == L.current_job_index
           prev == L.previous_job_index
           c == IF i = cur THEN prev ELSE cur
           D == Index(L)
           S == SuspendedSet(L)
           w == AnyButCurrent(U, c)
<1>t. ListType(L) /\ Slabbed(L) BY DEF WellFormed, Slabbed
<1>u. U = remove(L, i) /\ c = IF i = cur THEN prev ELSE cur OBVIOUS
<1> HIDE DEF U, c
<1>g. Removed(L, U, i, c) BY <1>u, RemoveFields
<1>f. /\ U.jobs = [k \in D \ {i} |-> L.jobs[k]]
      /\ U.pids_to_indices =
            [p \in DOMAIN L.pids_to_indices \ {L.jobs[i].pid}
                |-> L.pids_to_indices[p]]
      /\ U.free = IF D \ {i} = {} THEN <<>> ELSE <<i>> \o L.free
      /\ U.size = IF D \ {i} = {} THEN 0 ELSE L.size
      /\ U.current_job_index = c
      /\ U.previous_job_index = IF i = cur \/ i = prev THEN w ELSE prev
  BY <1>g DEF Removed
<1>d. Index(U) = D \ {i} BY <1>f DEF Index
<1>j. \A k \in Index(U) : U.jobs[k] = L.jobs[k] BY <1>d, <1>f
<1>s. SuspendedSet(U) = S \ {i} BY <1>d, <1>j DEF SuspendedSet
<1>n. D \subseteq Nat /\ S \subseteq D /\ i \in Nat /\ cur \in Nat /\ prev \in Nat
  BY <1>t DEF ListType, SuspendedSet
<1>w. /\ w \in Nat
      /\ SuspendedSet(U) \ {c} # {} => w \in SuspendedSet(U) \ {c}
      /\ Index(U) \ {c} # {} => w \in Index(U) \ {c}
  <2>1. Index(U) \subseteq Nat BY <1>d, <1>n
  <2> QED BY <2>1, AnyButCurrentIn
<1> HIDE DEF w
<1>p. HasCurrent(L) /\ HasPrevious(L) BY DEF WellFormed, Slabbed
<1>q. (\E a, b \in D : a # b) => prev # cur /\ prev \in D
  BY <1>p, JobListAssumption DEF HasPrevious, previous_job
<1>4. HasCurrent(U)
  BY <1>p, <1>q, <1>d, <1>f, <1>u DEF HasCurrent
<1>5. HasPrevious(U)
  <2> SUFFICES ASSUME NEW a \in Index(U), NEW b \in Index(U), a # b
               PROVE  previous_job(U) # None
    BY DEF HasPrevious
  <2>1. prev # cur /\ prev \in D BY <1>q, <1>d
  <2>2. U.previous_job_index \in Index(U) /\ U.previous_job_index # c
    BY <2>1, <1>d, <1>f, <1>u, <1>w
  <2> QED BY <2>2, <1>f, <1>d, <1>n, JobListAssumption DEF previous_job
<1>6. ASSUME Ranked(L) PROVE Ranked(U)
  <2>1. /\ S # {} => cur \in S
        /\ (\E a, b \in S : a # b) => prev \in S
    BY <1>6 DEF Ranked
  <2>2. ASSUME SuspendedSet(U) # {} PROVE c \in SuspendedSet(U)
    BY <2>1, <2>2, <1>s, <1>q, <1>n, <1>u
  <2>3. ASSUME NEW a \in SuspendedSet(U), NEW b \in SuspendedSet(U), a # b
        PROVE  U.previous_job_index \in SuspendedSet(U)
    BY <2>1, <2>3, <1>s, <1>w, <1>f, <1>n, <1>u
  <2> QED BY <2>2, <2>3, <1>f DEF Ranked
<1>7. Slabbed(U) /\ (Owned(L) => Owned(U)) BY <1>t, <1>u, RemoveSlabbed
<1> QED BY <1>4, <1>5, <1>6, <1>7, <1>u DEF WellFormed

-----------------------------------------------------------------------------
(* A step that keeps the slots, the process IDs and the slab keeps what    *)
(* the list is made of.                                                    *)
LEMMA SameSlab ==
    ASSUME NEW L, Slabbed(L), NEW U,
           Index(U) = Index(L), IsFcn(U.jobs),
           \A k \in Index(L) : U.jobs[k] \in Job /\ U.jobs[k].pid = L.jobs[k].pid,
           U.pids_to_indices = L.pids_to_indices,
           U.free = L.free, U.size = L.size,
           U.current_job_index \in Nat, U.previous_job_index \in Nat
    PROVE  ListType(U) /\ InSync(U) /\ SlabOK(U)
<1>1. ListType(L) /\ InSync(L) /\ SlabOK(L) BY DEF Slabbed
<1>2. ListType(U) BY <1>1 DEF ListType
<1>3. InSync(U) BY <1>1 DEF InSync
<1>4. SlabOK(U) BY <1>1 DEF SlabOK
<1> QED BY <1>2, <1>3, <1>4

(* The index the slab assigns next is vacant; taking it pops the free      *)
(* stack, or grows the slab.                                               *)
LEMMA SlabInsert ==
    ASSUME NEW L, ListType(L), SlabOK(L),
           NEW i, i = SlabNext(L)
    PROVE  /\ i \in Nat /\ i \notin Index(L)
           /\ SlabFree(L) \in Seq(Nat) /\ SlabSize(L) \in Nat
           /\ Index(L) \cup {i} = (0 .. SlabSize(L) - 1) \ Elems(SlabFree(L))
           /\ \A k \in DOMAIN SlabFree(L) : SlabFree(L)[k] < SlabSize(L)
           /\ \A k, m \in DOMAIN SlabFree(L) :
                    SlabFree(L)[k] = SlabFree(L)[m] => k = m
<1> DEFINE f == L.free
           n == Len(f)
<1>1. /\ f \in Seq(Nat) /\ n \in Nat /\ DOMAIN f = 1 .. n /\ L.size \in Nat
      /\ Index(L) = (0 .. L.size - 1) \ Elems(f)
      /\ \A k \in DOMAIN f : f[k] < L.size
      /\ \A k, m \in DOMAIN f : f[k] = f[m] => k = m
  BY DEF ListType, SlabOK
<1>n. n \in Nat /\ DOMAIN f = 1 .. n BY <1>1
<1>u. \A k, m \in DOMAIN f : f[k] = f[m] => k = m BY <1>1
<1>2. CASE f = <<>>
  <2>1. i = L.size /\ SlabFree(L) = <<>> /\ SlabSize(L) = L.size + 1
    BY <1>2 DEF SlabNext, SlabFree, SlabSize
  <2>2. Elems(f) = {} /\ Elems(<<>>) = {} /\ DOMAIN <<>> = {}
    BY <1>2 DEF Elems
  <2> QED BY <1>1, <1>2, <2>1, <2>2
<1>3. CASE f # <<>>
  <2> DEFINE g == Tail(f)
  <2>1. i = Head(f) /\ SlabFree(L) = g /\ SlabSize(L) = L.size
    BY <1>3 DEF SlabNext, SlabFree, SlabSize
  <2>2. /\ g \in Seq(Nat) /\ i = f[1] /\ n > 0 /\ DOMAIN g = 1 .. (n - 1)
        /\ \A k \in 1 .. (n - 1) : g[k] = f[k + 1]
    BY <1>1, <1>3, <2>1
  <2> HIDE DEF g, f, n
  <2>s. \A k \in DOMAIN g : k + 1 \in DOMAIN f /\ g[k] = f[k + 1]
    <3>1. DOMAIN g = 1 .. (n - 1) /\ \A k \in 1 .. (n - 1) : g[k] = f[k + 1] BY <2>2
    <3>2. \A k \in 1 .. (n - 1) : k + 1 \in 1 .. n BY <1>n
    <3> QED BY <3>1, <3>2, <1>n
  <2>3. 1 \in DOMAIN f /\ i \in Nat /\ i < L.size /\ i \in Elems(f)
    <3>1. 1 \in DOMAIN f BY <1>1, <2>2
    <3> QED BY <3>1, <1>1, <2>2 DEF Elems
  <2>4. Elems(g) = Elems(f) \ {i}
    <3>1. ASSUME NEW x \in Elems(g) PROVE x \in Elems(f) /\ x # i
      <4>1. PICK k \in 1 .. (n - 1) : x = g[k] BY <2>2, <3>1 DEF Elems
      <4>2. k + 1 \in DOMAIN f /\ x = f[k + 1] /\ k + 1 # 1 BY <4>1, <1>1, <2>2
      <4> QED BY <4>2, <1>1, <2>2, <2>3 DEF Elems
    <3>2. ASSUME NEW x \in Elems(f), x # i PROVE x \in Elems(g)
      <4>1. PICK k \in 1 .. n : x = f[k] BY <1>1, <3>2 DEF Elems
      <4>2. k # 1 BY <4>1, <3>2, <2>2
      <4>3. k - 1 \in 1 .. (n - 1) /\ g[k - 1] = f[(k - 1) + 1] /\ (k - 1) + 1 = k
        BY <4>1, <4>2, <1>1, <2>2
      <4> QED BY <4>1, <4>3, <2>2 DEF Elems
    <3> QED BY <3>1, <3>2
  <2>5. \A k \in DOMAIN g : g[k] < L.size
    <3> SUFFICES ASSUME NEW k \in DOMAIN g PROVE g[k] < L.size OBVIOUS
    <3>1. k + 1 \in DOMAIN f /\ g[k] = f[k + 1] BY <2>s
    <3> QED BY <3>1, <1>1
  <2>6. \A k, m \in DOMAIN g : g[k] = g[m] => k = m
    <3> SUFFICES ASSUME NEW k \in DOMAIN g, NEW m \in DOMAIN g, g[k] = g[m]
                 PROVE  k = m
      OBVIOUS
    <3>0. k \in 1 .. (n - 1) /\ m \in 1 .. (n - 1) BY <2>2
    <3>3. k + 1 = m + 1 BY <2>s, <1>u
    <3> QED BY <3>0, <3>3, <1>n
  <2>7. i \notin Index(L) BY <1>1, <2>3
  <2>8. Index(L) \cup {i} = (0 .. L.size - 1) \ Elems(g)
    BY <1>1, <2>3, <2>4
  <2> QED BY <1>1, <2>1, <2>2, <2>3, <2>5, <2>6, <2>7, <2>8
<1> QED BY <1>2, <1>3

(* The first half of JobList::insert: where the job goes.                  *)
LEMMA StoredKeeps ==
    ASSUME NEW L, Slabbed(L), NEW job \in Job, NEW S, S = Stored(L, job),
           NEW i, i = S.pids_to_indices[job.pid]
    PROVE  /\ ListType(S) /\ InSync(S) /\ SlabOK(S)
           /\ i \in Nat /\ Index(S) = Index(L) \cup {i}
           /\ S.jobs[i] = job
           /\ \A k \in Index(L) \ {i} : S.jobs[k] = L.jobs[k]
           /\ S.current_job_index = L.current_job_index
           /\ S.previous_job_index = L.previous_job_index
           /\ i \in Index(L) => L.jobs[i].pid = job.pid
<1> DEFINE P == L.pids_to_indices
<1>t. ListType(L) /\ InSync(L) /\ SlabOK(L) BY DEF Slabbed
<1>p. job.pid \in Pid BY DEF Job
<1>1. CASE job.pid \in DOMAIN P
  <2> DEFINE x == P[job.pid]
  <2>1. x \in Index(L) /\ L.jobs[x].pid = job.pid BY <1>1, <1>t DEF InSync
  <2>2. /\ S.jobs = [L.jobs EXCEPT ![x] = job]
        /\ S.pids_to_indices = P
        /\ S.current_job_index = L.current_job_index
        /\ S.previous_job_index = L.previous_job_index
        /\ S.free = L.free /\ S.size = L.size
    BY <1>1 DEF Stored, WithJobs, List
  <2>3. i = x BY <2>2
  <2>4. Index(S) = Index(L) BY <2>2 DEF Index
  <2>5. \A k \in Index(L) : S.jobs[k] = IF k = x THEN job ELSE L.jobs[k]
    BY <2>2, <1>t DEF ListType, IsFcn, Index
  <2>6. IsFcn(S.jobs) BY <2>2 DEF IsFcn
  <2>7. \A k \in Index(L) : S.jobs[k] \in Job /\ S.jobs[k].pid = L.jobs[k].pid
    BY <2>1, <2>5, <1>t DEF ListType
  <2>8. ListType(S) /\ InSync(S) /\ SlabOK(S)
    <3>1. S.current_job_index \in Nat /\ S.previous_job_index \in Nat
      BY <2>2, <1>t DEF ListType
    <3> QED BY <3>1, <2>2, <2>4, <2>6, <2>7, SameSlab
  <2>9. i \in Nat BY <2>1, <2>3, <1>t DEF ListType
  <2> QED BY <2>1, <2>2, <2>3, <2>4, <2>5, <2>8, <2>9
<1>2. CASE job.pid \notin DOMAIN P
  <2> DEFINE x == SlabNext(L)
  <2>1. /\ S.jobs = [k \in Index(L) \cup {x} |-> IF k = x THEN job ELSE L.jobs[k]]
        /\ S.pids_to_indices = [p \in DOMAIN P \cup {job.pid} |->
                                    IF p = job.pid THEN x ELSE P[p]]
        /\ S.current_job_index = L.current_job_index
        /\ S.previous_job_index = L.previous_job_index
        /\ S.free = SlabFree(L) /\ S.size = SlabSize(L)
    BY <1>2 DEF Stored, List
  <2>2. i = x BY <2>1
  <2>s. /\ x \in Nat /\ x \notin Index(L)
        /\ SlabFree(L) \in Seq(Nat) /\ SlabSize(L) \in Nat
        /\ Index(L) \cup {x} = (0 .. SlabSize(L) - 1) \ Elems(SlabFree(L))
        /\ \A k \in DOMAIN SlabFree(L) : SlabFree(L)[k] < SlabSize(L)
        /\ \A k, m \in DOMAIN SlabFree(L) :
                SlabFree(L)[k] = SlabFree(L)[m] => k = m
    BY <1>t, SlabInsert
  <2> HIDE DEF x
  <2>3. Index(S) = Index(L) \cup {x} BY <2>1 DEF Index
  <2>4. \A k \in Index(S) : S.jobs[k] = IF k = x THEN job ELSE L.jobs[k]
    BY <2>1, <2>3
  <2>5. ListType(S)
    <3>1. IsFcn(S.jobs) /\ IsFcn(S.pids_to_indices) BY <2>1 DEF IsFcn
    <3>2. Index(S) \subseteq Nat /\ \A k \in Index(S) : S.jobs[k] \in Job
      BY <2>3, <2>4, <2>s, <1>t DEF ListType
    <3>3. DOMAIN S.pids_to_indices \subseteq Pid BY <2>1, <1>p, <1>t DEF ListType
    <3> QED BY <3>1, <3>2, <3>3, <2>1, <2>s, <1>t DEF ListType
  <2>6. InSync(S)
    <3>1. DOMAIN S.pids_to_indices = DOMAIN P \cup {job.pid} BY <2>1
    <3>2. \A p \in DOMAIN S.pids_to_indices :
            S.pids_to_indices[p] = IF p = job.pid THEN x ELSE P[p]
      BY <2>1
    <3>3. ASSUME NEW k \in Index(S)
          PROVE  /\ S.jobs[k].pid \in DOMAIN S.pids_to_indices
                 /\ S.pids_to_indices[S.jobs[k].pid] = k
      <4>1. CASE k = x BY <4>1, <3>1, <3>2, <2>3, <2>4
      <4>2. CASE k # x
        <5>1. k \in Index(L) /\ S.jobs[k] = L.jobs[k] BY <4>2, <2>3, <2>4
        <5>2. L.jobs[k].pid \in DOMAIN P /\ P[L.jobs[k].pid] = k
          BY <5>1, <1>t DEF InSync
        <5> QED BY <5>1, <5>2, <3>1, <3>2, <1>2
      <4> QED BY <4>1, <4>2
    <3>4. ASSUME NEW p \in DOMAIN S.pids_to_indices
          PROVE  /\ S.pids_to_indices[p] \in Index(S)
                 /\ S.jobs[S.pids_to_indices[p]].pid = p
      <4>1. CASE p = job.pid BY <4>1, <3>2, <2>3, <2>4
      <4>2. CASE p # job.pid
        <5>1. p \in DOMAIN P /\ S.pids_to_indices[p] = P[p] BY <4>2, <3>1, <3>2
        <5>2. P[p] \in Index(L) /\ L.jobs[P[p]].pid = p BY <5>1, <1>t DEF InSync
        <5> QED BY <5>1, <5>2, <2>3, <2>4, <2>s
      <4> QED BY <4>1, <4>2
    <3> QED BY <3>3, <3>4 DEF InSync
  <2>7. SlabOK(S) BY <2>1, <2>3, <2>s DEF SlabOK
  <2> QED BY <2>1, <2>2, <2>3, <2>4, <2>5, <2>6, <2>7, <2>s
<1> QED BY <1>1, <1>2

(* WithChosen only changes the choice.                                     *)
LEMMA ChosenKeeps ==
    ASSUME NEW L, ListType(L), InSync(L), SlabOK(L), NEW c \in Nat, NEW v \in Nat,
           NEW U, U = WithChosen(L, c, v)
    PROVE  /\ ListType(U) /\ InSync(U) /\ SlabOK(U)
           /\ Index(U) = Index(L) /\ U.jobs = L.jobs
           /\ SuspendedSet(U) = SuspendedSet(L)
           /\ U.current_job_index = c /\ U.previous_job_index = v
           /\ U.pids_to_indices = L.pids_to_indices
<1>1. /\ U.jobs = L.jobs /\ U.pids_to_indices = L.pids_to_indices
      /\ U.free = L.free /\ U.size = L.size
      /\ U.current_job_index = c /\ U.previous_job_index = v
  BY DEF WithChosen, List
<1>2. Index(U) = Index(L) /\ SuspendedSet(U) = SuspendedSet(L)
  BY <1>1 DEF Index, SuspendedSet
<1>3. ListType(U) BY <1>1, <1>2 DEF ListType
<1>4. InSync(U) BY <1>1, <1>2 DEF InSync
<1>5. SlabOK(U) BY <1>1, <1>2 DEF SlabOK
<1> QED BY <1>1, <1>2, <1>3, <1>4, <1>5

(* JobList::insert, as the cases of its match on what was suspended: U is  *)
(* L after the job was stored at index i.                                  *)
Inserted(L, job, U, i) ==
    LET cur == L.current_job_index
        prev == L.previous_job_index
        uc == U.current_job_index
        up == U.previous_job_index
        B == cur \notin SuspendedSet(L) /\ job.state = "Stopped"
        C == \/ previous_job(L) = None
             \/ prev \notin SuspendedSet(L) /\ job.state = "Stopped"
    IN /\ ListType(U) /\ InSync(U) /\ SlabOK(U)
       /\ Index(U) = Index(L) \cup {i}
       /\ U.jobs[i] = job
       /\ \A k \in Index(L) \ {i} : U.jobs[k] = L.jobs[k]
       /\ i \in Index(L) => L.jobs[i].pid = job.pid
       /\ \/ Index(L) = {} /\ uc = i
          \/ Index(L) # {} /\ B /\ i = cur /\ uc = cur /\ up = prev
          \/ Index(L) # {} /\ B /\ i # cur /\ uc = i /\ up = cur
          \/ Index(L) # {} /\ ~B /\ C /\ uc = cur /\ up = i
          \/ Index(L) # {} /\ ~B /\ ~C /\ uc = cur /\ up = prev

(* Every insertion is of that shape.                                       *)
LEMMA InsertFields ==
    ASSUME NEW L, WellFormed(L), NEW job \in Job, NEW U, U = insert(L, job)
    PROVE  \E i \in Nat : Inserted(L, job, U, i)
<1> DEFINE cur == L.current_job_index
           prev == L.previous_job_index
           S == Stored(L, job)
           i == S.pids_to_indices[job.pid]
           B == cur \notin SuspendedSet(L) /\ job.state = "Stopped"
           C == \/ previous_job(L) = None
                \/ prev \notin SuspendedSet(L) /\ job.state = "Stopped"
<1>0. /\ cur \in Nat /\ prev \in Nat
      /\ (Index(L) # {} => cur \in Index(L))
      /\ SuspendedSet(L) \subseteq Index(L) /\ None \notin Nat
  BY JobListAssumption DEF WellFormed, Slabbed, ListType, HasCurrent, SuspendedSet
<1>1. /\ ListType(S) /\ InSync(S) /\ SlabOK(S)
      /\ i \in Nat /\ Index(S) = Index(L) \cup {i}
      /\ S.jobs[i] = job
      /\ \A k \in Index(L) \ {i} : S.jobs[k] = L.jobs[k]
      /\ S.current_job_index = cur
      /\ S.previous_job_index = prev
      /\ i \in Index(L) => L.jobs[i].pid = job.pid
  BY StoredKeeps DEF WellFormed
<1>2. /\ (current_job(L) = None) <=> (Index(L) = {})
      /\ Index(L) # {} => current_job(L) = cur
      /\ previous_job(L) # None => previous_job(L) = prev
  BY <1>0 DEF current_job, previous_job
<1>3. U = IF current_job(L) = None
       THEN WithChosen(S, i, S.previous_job_index)
       ELSE IF ~IsSuspended(L, current_job(L)) /\ job.state = "Stopped"
       THEN set_current_job(S, i)
       ELSE IF \/ previous_job(L) = None
               \/ ~IsSuspended(L, previous_job(L)) /\ job.state = "Stopped"
       THEN WithPrevious(S, i)
       ELSE S
  BY DEF insert
<1>4. /\ Index(L) # {} => (IsSuspended(L, current_job(L)) <=> cur \in SuspendedSet(L))
      /\ previous_job(L) # None
            => (IsSuspended(L, previous_job(L)) <=> prev \in SuspendedSet(L))
  BY <1>0, <1>2 DEF IsSuspended
<1>5. job.state = "Stopped" => MaySelect(S, i)
  BY <1>1 DEF MaySelect, SuspendedSet
<1> HIDE DEF S, i
<1>6. \/ Index(L) = {} /\ U = WithChosen(S, i, prev)
      \/ Index(L) # {} /\ B /\ i = cur /\ U = S
      \/ Index(L) # {} /\ B /\ i # cur /\ U = WithChosen(S, i, cur)
      \/ Index(L) # {} /\ ~B /\ C /\ U = WithChosen(S, cur, i)
      \/ Index(L) # {} /\ ~B /\ ~C /\ U = S
  BY <1>1, <1>2, <1>3, <1>4, <1>5 DEF set_current_job, Select, WithPrevious
<1> HIDE DEF cur, prev, B, C
<1>7. ASSUME NEW c \in Nat, NEW v \in Nat, U = WithChosen(S, c, v)
      PROVE  /\ ListType(U) /\ InSync(U) /\ SlabOK(U)
             /\ Index(U) = Index(S) /\ U.jobs = S.jobs
             /\ U.current_job_index = c /\ U.previous_job_index = v
  <2>1. ListType(S) /\ InSync(S) /\ SlabOK(S) BY <1>1
  <2> QED BY ONLY <2>1, <1>7, c \in Nat, v \in Nat, ChosenKeeps
<1>8. /\ ListType(U) /\ InSync(U) /\ SlabOK(U)
      /\ Index(U) = Index(S) /\ U.jobs = S.jobs
      /\ \/ Index(L) = {} /\ U.current_job_index = i
         \/ /\ Index(L) # {} /\ B /\ i = cur
            /\ U.current_job_index = cur /\ U.previous_job_index = prev
         \/ /\ Index(L) # {} /\ B /\ i # cur
            /\ U.current_job_index = i /\ U.previous_job_index = cur
         \/ /\ Index(L) # {} /\ ~B /\ C
            /\ U.current_job_index = cur /\ U.previous_job_index = i
         \/ /\ Index(L) # {} /\ ~B /\ ~C
            /\ U.current_job_index = cur /\ U.previous_job_index = prev
  BY <1>0, <1>1, <1>6, <1>7
<1>9. i \in Nat /\ Inserted(L, job, U, i)
  BY <1>1, <1>8 DEF Inserted, cur, prev, B, C
<1> QED BY <1>9

(* JobList::insert keeps the list well formed when a suspended job never   *)
(* replaces a suspended one, and keeps the ranks when no job at all does.  *)
LEMMA InsertKeeps ==
    ASSUME NEW L, WellFormed(L), NEW job \in Job,
           \A k \in SuspendedSet(L) :
                L.jobs[k].pid = job.pid => job.state # "Stopped",
           NEW U, U = insert(L, job)
    PROVE  /\ WellFormed(U)
           /\ (/\ Ranked(L)
               /\ \A k \in SuspendedSet(L) : L.jobs[k].pid # job.pid)
                 => Ranked(U)
           /\ Owned(L) /\ job.is_owned => Owned(U)
<1> DEFINE cur == L.current_job_index
           prev == L.previous_job_index
           D == Index(L)
           Z == SuspendedSet(L)
           new == job.state = "Stopped"
           B == cur \notin Z /\ new
           C == previous_job(L) = None \/ (prev \notin Z /\ new)
           uc == U.current_job_index
           up == U.previous_job_index
<1>i. PICK i \in Nat : Inserted(L, job, U, i) BY InsertFields
<1>0. /\ ListType(U) /\ InSync(U) /\ SlabOK(U)
      /\ Index(U) = D \cup {i}
      /\ U.jobs[i] = job
      /\ \A k \in D \ {i} : U.jobs[k] = L.jobs[k]
      /\ i \in D => L.jobs[i].pid = job.pid
      /\ \/ D = {} /\ uc = i
         \/ D # {} /\ B /\ i = cur /\ uc = cur /\ up = prev
         \/ D # {} /\ B /\ i # cur /\ uc = i /\ up = cur
         \/ D # {} /\ ~B /\ C /\ uc = cur /\ up = i
         \/ D # {} /\ ~B /\ ~C /\ uc = cur /\ up = prev
  BY <1>i DEF Inserted
<1>1. /\ cur \in Nat /\ prev \in Nat /\ None \notin Nat
      /\ D # {} => cur \in D
      /\ (\E a, b \in D : a # b) => prev # cur /\ prev \in D
      /\ (previous_job(L) = None) <=> (prev = cur \/ prev \notin D)
      /\ Z \subseteq D
  BY JobListAssumption
  DEF WellFormed, Slabbed, ListType, HasCurrent, HasPrevious, previous_job, SuspendedSet
<1>2. SuspendedSet(U) = IF new THEN Z \cup {i} ELSE Z \ {i}
  BY <1>0 DEF SuspendedSet
<1>3. HasCurrent(U) BY <1>0, <1>1 DEF HasCurrent
<1>z. i \in Z => ~new BY <1>0, <1>1
<1>o. Owned(L) /\ job.is_owned => Owned(U) BY <1>0 DEF Owned
<1>y. (\A k \in Z : L.jobs[k].pid # job.pid) => i \notin Z BY <1>0, <1>1
<1> DEFINE Du == Index(U)
<1>d. Du = D \cup {i} BY <1>0
<1>c. \/ D = {} /\ uc = i
      \/ D # {} /\ B /\ i = cur /\ uc = cur /\ up = prev
      \/ D # {} /\ B /\ i # cur /\ uc = i /\ up = cur
      \/ D # {} /\ ~B /\ C /\ uc = cur /\ up = i
      \/ D # {} /\ ~B /\ ~C /\ uc = cur /\ up = prev
  BY <1>0
<1>g. B <=> cur \notin Z /\ new OBVIOUS
<1>h. C <=> (prev = cur \/ prev \notin D \/ (prev \notin Z /\ new))
  <2>1. (previous_job(L) = None) <=> (prev = cur \/ prev \notin D) BY <1>1
  <2> QED BY ONLY <2>1
<1>e. uc \in Nat /\ up \in Nat BY <1>0 DEF ListType
<1> HIDE DEF cur, prev, D, Z, new, B, C, uc, up, Du
<1>4. ASSUME NEW a \in Du, NEW b \in Du, a # b PROVE up # uc /\ up \in Du
  <2>2. D # {} BY <1>d, <1>4
  <2>3. CASE i \in D
    <3>1. prev # cur /\ prev \in D /\ cur \in D BY <2>2, <2>3, <1>1, <1>d, <1>4
    <3>2. C => prev \notin Z /\ new BY <3>1, <1>g, <1>h
    <3>3. ~B /\ C => i # cur BY <3>2, <1>g, <1>h, <1>z
    <3> QED BY <2>2, <3>1, <3>3, <1>c, <1>d
  <2>4. CASE i \notin D
    <3>1. cur \in D /\ i # cur BY <2>2, <2>4, <1>1
    <3>2. ~C => prev # cur /\ prev \in D BY <1>g, <1>h
    <3> QED BY <2>2, <3>1, <3>2, <1>c, <1>d
  <2> QED BY <2>3, <2>4
<1>5. HasPrevious(U)
  BY <1>4, <1>e, <1>1 DEF HasPrevious, previous_job, Du, uc, up
<1>6. ASSUME Ranked(L), i \notin Z PROVE Ranked(U)
  <2> DEFINE Zu == SuspendedSet(U)
  <2>1. /\ Z # {} => cur \in Z
        /\ (\E a, b \in Z : a # b) => prev \in Z
    BY <1>6 DEF Ranked, Z, cur, prev
  <2>2. Zu = IF new THEN Z \cup {i} ELSE Z BY <1>2, <1>6
  <2> HIDE DEF Zu
  <2>3. ASSUME Zu # {} PROVE uc \in Zu
    <3>1. CASE ~new
      <4>1. Z # {} /\ Zu = Z /\ cur \in Z /\ ~B BY <2>1, <2>2, <2>3, <3>1, <1>g, <1>h
      <4> QED BY <4>1, <1>c, <1>1
    <3>2. CASE new /\ B BY <3>2, <2>2, <1>c
    <3>3. CASE new /\ ~B BY <3>3, <2>2, <1>c, <1>g, <1>h
    <3> QED BY <3>1, <3>2, <3>3
  <2>4. ASSUME NEW a \in Zu, NEW b \in Zu, a # b PROVE up \in Zu
    <3>1. CASE ~new
      <4>1. Zu = Z /\ cur \in Z /\ prev \in Z /\ ~B BY <2>1, <2>2, <2>4, <3>1, <1>g, <1>h
      <4>2. prev # cur /\ prev \in D /\ D # {} BY <4>1, <2>4, <1>1
      <4>3. ~C BY <4>2, <3>1, <1>g, <1>h
      <4> QED BY <4>1, <4>2, <4>3, <1>c
    <3>2. CASE new
      <4>1. Z # {} BY <2>2, <2>4, <3>2
      <4>2. cur \in Z /\ D # {} /\ ~B BY <4>1, <2>1, <1>1, <1>g, <1>h
      <4>3. ~C => prev \in Z BY <1>g, <1>h, <3>2
      <4> QED BY <4>2, <4>3, <3>2, <2>2, <1>c
    <3> QED BY <3>1, <3>2
  <2> QED BY <2>3, <2>4 DEF Ranked, Zu, uc, up
<1> QED BY <1>0, <1>3, <1>5, <1>6, <1>o, <1>y DEF WellFormed, Slabbed, Z

-----------------------------------------------------------------------------
(* Assignments through JobRefMut and update_status: the jobs change, but   *)
(* neither their slots nor their process IDs.                              *)
LEMMA Relabelled ==
    ASSUME NEW L, Slabbed(L), NEW f, IsFcn(f), DOMAIN f = Index(L),
           \A k \in Index(L) : f[k] \in Job /\ f[k].pid = L.jobs[k].pid,
           NEW U, U = WithJobs(L, f)
    PROVE  /\ Slabbed(U)
           /\ WellFormed(L) => WellFormed(U)
           /\ Index(U) = Index(L) /\ U.jobs = f
           /\ U.current_job_index = L.current_job_index
           /\ U.previous_job_index = L.previous_job_index
           /\ U.pids_to_indices = L.pids_to_indices
           /\ (\A k \in Index(L) : f[k].state = L.jobs[k].state)
                => (Ranked(L) => Ranked(U))
<1>1. /\ U.jobs = f /\ U.pids_to_indices = L.pids_to_indices
      /\ U.current_job_index = L.current_job_index
      /\ U.previous_job_index = L.previous_job_index
      /\ U.free = L.free /\ U.size = L.size
  BY DEF WithJobs, List
<1>2. Index(U) = Index(L) BY <1>1 DEF Index
<1>3. ListType(U) /\ InSync(U) /\ SlabOK(U)
  <2>1. U.current_job_index \in Nat /\ U.previous_job_index \in Nat
    BY <1>1 DEF Slabbed, ListType
  <2> QED BY <1>1, <1>2, <2>1, SameSlab
<1>4. WellFormed(L) => HasCurrent(U) /\ HasPrevious(U)
  BY <1>1, <1>2 DEF WellFormed, HasCurrent, HasPrevious, previous_job
<1>5. ASSUME \A k \in Index(L) : f[k].state = L.jobs[k].state, Ranked(L)
      PROVE  Ranked(U)
  <2>1. SuspendedSet(U) = SuspendedSet(L) BY <1>1, <1>2, <1>5 DEF SuspendedSet
  <2> QED BY <1>1, <2>1, <1>5 DEF Ranked
<1> QED BY <1>1, <1>2, <1>3, <1>4, <1>5 DEF WellFormed, Slabbed

(* Making an existing job current.                                         *)
LEMMA SelectKeeps ==
    ASSUME NEW L, WellFormed(L), NEW i \in Index(L), NEW U, U = Select(L, i)
    PROVE  /\ WellFormed(U) /\ U.jobs = L.jobs
           /\ (/\ SuspendedSet(L) # {} => i \in SuspendedSet(L)
               /\ (\E a, b \in SuspendedSet(L) : a # b) =>
                    IF i = L.current_job_index
                    THEN L.previous_job_index \in SuspendedSet(L)
                    ELSE L.current_job_index \in SuspendedSet(L))
                => Ranked(U)
<1>n. i \in Nat /\ L.current_job_index \in Nat /\ None \notin Nat
  BY JobListAssumption DEF WellFormed, Slabbed, ListType
<1>h. Index(L) # {} => L.current_job_index \in Index(L)
  BY DEF WellFormed, Slabbed, HasCurrent
<1>1. CASE i = L.current_job_index
  <2>1. U = L BY <1>1 DEF Select
  <2> QED BY <1>1, <2>1 DEF Ranked
<1>2. CASE i # L.current_job_index
  <2> DEFINE c == L.current_job_index
  <2>1. U = WithChosen(L, i, c) BY <1>2 DEF Select
  <2>2. ListType(L) /\ InSync(L) /\ SlabOK(L) /\ c \in Nat BY <1>n DEF WellFormed, Slabbed
  <2> HIDE DEF c
  <2>3. /\ ListType(U) /\ InSync(U) /\ SlabOK(U)
        /\ Index(U) = Index(L) /\ U.jobs = L.jobs
        /\ SuspendedSet(U) = SuspendedSet(L)
        /\ U.current_job_index = i /\ U.previous_job_index = c
    <3>1. ListType(L) /\ InSync(L) /\ SlabOK(L) BY <2>2
    <3>2. i \in Nat BY <1>n
    <3>3. c \in Nat BY <2>2
    <3> QED BY ONLY <3>1, <3>2, <3>3, <2>1, ChosenKeeps
  <2>4. HasCurrent(U) BY <2>3 DEF HasCurrent
  <2>5. HasPrevious(U)
    BY <2>2, <2>3, <1>2, <1>n, <1>h DEF HasPrevious, previous_job, c
  <2> QED BY <2>3, <2>4, <2>5, <1>2 DEF WellFormed, Slabbed, Ranked, c
<1> QED BY <1>1, <1>2

(* JobList::set_current_job, refused or not.                               *)
LEMMA SetCurrentKeeps ==
    ASSUME NEW L, WellFormed(L), NEW i, NEW U, U = set_current_job(L, i)
    PROVE  WellFormed(U) /\ (Ranked(L) => Ranked(U)) /\ U.jobs = L.jobs
<1>1. CASE ~MaySelect(L, i) BY <1>1 DEF set_current_job
<1>2. CASE MaySelect(L, i)
  <2>1. U = Select(L, i) BY <1>2 DEF set_current_job
  <2>2. i \in Index(L) /\ (SuspendedSet(L) # {} => i \in SuspendedSet(L))
    BY <1>2 DEF MaySelect
  <2>3. WellFormed(U) /\ U.jobs = L.jobs BY <2>1, <2>2, SelectKeeps
  <2>4. ASSUME Ranked(L) PROVE Ranked(U)
    <3>1. (\E a, b \in SuspendedSet(L) : a # b) =>
            /\ L.previous_job_index \in SuspendedSet(L)
            /\ L.current_job_index \in SuspendedSet(L)
      BY <2>4 DEF Ranked
    <3> QED BY <2>1, <2>2, <3>1, SelectKeeps
  <2> QED BY <2>3, <2>4
<1> QED BY <1>1, <1>2

(* The second half of update_status when job i was resumed or has ended:   *)
(* Z is what was suspended before.                                         *)
LEMMA ResumedKeeps ==
    ASSUME NEW L, WellFormed(L), NEW Z, NEW i \in Z, Z \subseteq Index(L),
           SuspendedSet(L) = Z \ {i}, NEW U, U = Resumed(L, i)
    PROVE  /\ WellFormed(U) /\ U.jobs = L.jobs
           /\ (/\ L.current_job_index \in Z
               /\ (\E a, b \in Z : a # b) => L.previous_job_index \in Z)
                => Ranked(U)
<1> DEFINE cur == L.current_job_index
           prev == L.previous_job_index
           D == Index(L)
           S == SuspendedSet(L)
           p == previous_job(L)
           promotes == i = cur /\ IsSuspended(L, p)
           c == IF promotes THEN p ELSE cur
           R == S \ {c}
           v == IF R # {} THEN First(R) ELSE i
<1>1. /\ cur \in Nat /\ prev \in Nat /\ None \notin Nat /\ D \subseteq Nat
      /\ cur \in D
      /\ ListType(L) /\ InSync(L) /\ SlabOK(L)
  BY JobListAssumption DEF WellFormed, Slabbed, ListType, HasCurrent
<1>2. /\ p # None => p = prev /\ prev # cur /\ prev \in D
      /\ p = None => ~ \E a, b \in D : a # b
      /\ prev # cur /\ prev \in D => p = prev
  BY <1>1 DEF WellFormed, Slabbed, HasPrevious, previous_job
<1>3. U = IF p # None /\ (promotes \/ i = p) THEN WithChosen(L, c, v) ELSE L
  BY DEF Resumed
<1>4. promotes <=> (i = cur /\ p # None /\ p \in S) BY DEF IsSuspended
<1>5. i \notin S /\ S \subseteq D /\ i \in D BY DEF SuspendedSet
<1>6. c = IF promotes THEN p ELSE cur OBVIOUS
<1>7. R = S \ {c} OBVIOUS
<1>8. v \in D /\ (R # {} => v \in R) /\ (R = {} => v = i)
  <2> HIDE DEF R
  <2>1. R \subseteq Nat BY <1>1, <1>5, <1>7
  <2>2. R # {} => First(R) \in R BY <2>1, FirstIn
  <2> QED BY <2>2, <1>5, <1>7
<1> HIDE DEF v, R, c, promotes, p
<1>9. CASE p # None /\ (promotes \/ i = p)
  <2>1. U = WithChosen(L, c, v) BY <1>3, <1>9
  <2>2. c \in D /\ c # i BY <1>1, <1>2, <1>4, <1>6, <1>9
  <2>3. c \in Nat /\ v \in Nat BY <1>1, <1>8, <2>2
  <2>4. /\ ListType(U) /\ InSync(U) /\ SlabOK(U)
        /\ Index(U) = Index(L) /\ U.jobs = L.jobs
        /\ SuspendedSet(U) = SuspendedSet(L)
        /\ U.current_job_index = c /\ U.previous_job_index = v
    <3>1. ListType(L) /\ InSync(L) /\ SlabOK(L) BY <1>1
    <3>2. c \in Nat BY <2>3
    <3>3. v \in Nat BY <2>3
    <3> QED BY ONLY <3>1, <3>2, <3>3, <2>1, ChosenKeeps
  <2>5. v # c BY <1>7, <1>8, <2>2
  <2>6. HasCurrent(U) /\ HasPrevious(U)
    BY <2>2, <2>3, <2>4, <2>5, <1>1, <1>8 DEF HasCurrent, HasPrevious, previous_job
  <2>7. ASSUME cur \in Z, (\E a, b \in Z : a # b) => prev \in Z PROVE Ranked(U)
    <3>1. S # {} => c \in S
      <4>1. CASE promotes BY <4>1, <1>4, <1>6
      <4>2. CASE ~promotes
        <5>1. c = cur /\ i # cur BY <4>2, <2>2, <1>6
        <5> QED BY <5>1, <2>7
      <4> QED BY <4>1, <4>2
    <3>2. (\E a, b \in S : a # b) => v \in S BY <1>7, <1>8
    <3> QED BY <3>1, <3>2, <2>4 DEF Ranked
  <2> QED BY <2>4, <2>6, <2>7 DEF WellFormed, Slabbed
<1>10. CASE ~ (p # None /\ (promotes \/ i = p))
  <2>1. U = L BY <1>3, <1>10
  <2>2. ASSUME cur \in Z, (\E a, b \in Z : a # b) => prev \in Z PROVE Ranked(L)
    <3>1. ASSUME NEW a \in S PROVE i # cur
      <4>1. a \in Z /\ a # i /\ a \in D BY <3>1, <1>5
      <4>2. prev \in Z /\ p # None BY <4>1, <2>2, <1>2, <1>5
      <4>3. p = prev /\ prev # cur BY <4>2, <1>2
      <4>4. i = cur => promotes BY <4>2, <4>3, <1>4
      <4> QED BY <4>2, <4>4, <1>10
    <3>2. S # {} => cur \in S BY <3>1, <2>2
    <3>3. ASSUME NEW a \in S, NEW b \in S, a # b PROVE prev \in S
      <4>1. a \in Z /\ b \in Z /\ p # None BY <3>3, <1>2, <1>5
      <4>2. prev \in Z /\ p = prev BY <4>1, <2>2, <1>2, <3>3
      <4> QED BY <4>1, <4>2, <1>10
    <3> QED BY <3>2, <3>3 DEF Ranked
  <2> QED BY <2>1, <2>2
<1> QED BY <1>9, <1>10

(* U has the jobs of L, but for the state of the job of p, which is s.     *)
HasStates(L, U, p, s) ==
    /\ Index(U) = Index(L)
    /\ \A k \in Index(L) : /\ U.jobs[k].pid = L.jobs[k].pid
                           /\ L.jobs[k].pid = p => U.jobs[k].state = s
                           /\ L.jobs[k].pid # p => U.jobs[k].state = L.jobs[k].state

(* JobList::update_status, whatever the process ID and the state.          *)
LEMMA UpdateKeeps ==
    ASSUME NEW L, WellFormed(L), NEW p \in Pid, NEW s \in State,
           NEW U, U = update_status(L, p, s)
    PROVE  /\ WellFormed(U)
           /\ Ranked(L) => Ranked(U)
           /\ Owned(L) => Owned(U)
           /\ HasStates(L, U, p, s)
<1>1. CASE p \notin DOMAIN L.pids_to_indices
  <2>1. U = L BY <1>1 DEF update_status, find_by_pid
  <2>2. \A k \in Index(L) : L.jobs[k].pid # p BY <1>1 DEF WellFormed, Slabbed, InSync
  <2> QED BY <2>1, <2>2 DEF HasStates
<1>2. CASE p \in DOMAIN L.pids_to_indices
  <2> DEFINE i == L.pids_to_indices[p]
             job == L.jobs[i]
             g == [job EXCEPT !.state = s,
                       !.state_changed = @ \/ job.expected_state # s,
                       !.expected_state = None]
             f == [L.jobs EXCEPT ![i] = g]
             W == WithState(L, i, s)
             Z == SuspendedSet(L)
             cur == L.current_job_index
             prev == L.previous_job_index
  <2>1. i \in Index(L) BY <1>2 DEF WellFormed, Slabbed, InSync
  <2>n. None \notin Nat /\ i \in Nat
    BY <2>1, JobListAssumption DEF WellFormed, Slabbed, ListType
  <2>2. L.jobs[i] \in Job /\ \A k \in Index(L) : L.jobs[k] \in Job
    BY <2>1 DEF WellFormed, Slabbed, ListType
  <2>3. g \in Job /\ g.pid = L.jobs[i].pid /\ g.state = s
        /\ g.is_owned = L.jobs[i].is_owned
    <3>1. g.state_changed \in BOOLEAN BY <2>2 DEF Job
    <3> QED BY <2>2 DEF Job
  <2> HIDE DEF g
  <2>4. /\ IsFcn(f) /\ DOMAIN f = Index(L)
        /\ \A k \in Index(L) : f[k] = IF k = i THEN g ELSE L.jobs[k]
    BY <2>1 DEF IsFcn, Index, WellFormed, Slabbed, ListType
  <2>5. W = WithJobs(L, f) BY DEF WithState, g
  <2>6. \A k \in Index(L) : f[k] \in Job /\ f[k].pid = L.jobs[k].pid
    BY <2>2, <2>3, <2>4
  <2> HIDE DEF f, W
  <2>7. /\ WellFormed(W) /\ Index(W) = Index(L) /\ W.jobs = f
        /\ W.current_job_index = cur /\ W.previous_job_index = prev
    BY <2>4, <2>5, <2>6, Relabelled DEF WellFormed
  <2>8. SuspendedSet(W) = IF s = "Stopped" THEN Z \cup {i} ELSE Z \ {i}
    BY <2>1, <2>3, <2>4, <2>7 DEF SuspendedSet
  <2>9. U = IF i \notin Z /\ s = "Stopped" THEN Select(W, i)
            ELSE IF i \in Z /\ s # "Stopped" THEN Resumed(W, i)
            ELSE W
    BY <1>2, <2>n DEF update_status, find_by_pid, IsSuspended, W
  <2>o. ASSUME Owned(L), U.jobs = W.jobs PROVE Owned(U)
    <3>1. \A k \in Index(L) : f[k].is_owned BY <2>o, <2>1, <2>3, <2>4 DEF Owned
    <3> QED BY <3>1, <2>o, <2>7 DEF Owned, Index
  <2>u. ASSUME U.jobs = W.jobs PROVE HasStates(L, U, p, s)
    <3>1. \A k \in Index(L) : L.jobs[k].pid = p <=> k = i
      BY <1>2 DEF WellFormed, Slabbed, InSync
    <3>2. Index(U) = Index(L) /\ U.jobs = f BY <2>u, <2>7 DEF Index
    <3> QED BY <3>1, <3>2, <2>3, <2>4 DEF HasStates
  <2>r. /\ Ranked(L) /\ Z # {} => cur \in Z
        /\ Ranked(L) /\ (\E a, b \in Z : a # b) => prev \in Z
        /\ Z \subseteq Index(L)
    BY DEF Ranked, SuspendedSet
  <2> HIDE DEF i, Z, cur, prev
  <2>a. CASE i \notin Z /\ s = "Stopped"
    <3>1. U = Select(W, i) /\ i \in Index(W) BY <2>a, <2>9, <2>1, <2>7
    <3>2. WellFormed(U) /\ U.jobs = W.jobs BY <3>1, <2>7, SelectKeeps
    <3>3. ASSUME Ranked(L) PROVE Ranked(U)
      <4>1. SuspendedSet(W) = Z \cup {i} BY <2>a, <2>8
      <4>2. (\E a, b \in SuspendedSet(W) : a # b) =>
                IF i = W.current_job_index
                THEN W.previous_job_index \in SuspendedSet(W)
                ELSE W.current_job_index \in SuspendedSet(W)
        BY <3>3, <4>1, <2>a, <2>r, <2>7
      <4> QED BY <3>1, <4>1, <4>2, <2>7, SelectKeeps
    <3> QED BY <3>2, <3>3, <2>o, <2>u
  <2>b. CASE i \in Z /\ s # "Stopped"
    <3>1. U = Resumed(W, i) /\ SuspendedSet(W) = Z \ {i} /\ Z \subseteq Index(W)
      BY <2>b, <2>8, <2>9, <2>r, <2>7
    <3>2. /\ WellFormed(U) /\ U.jobs = W.jobs
          /\ (/\ W.current_job_index \in Z
              /\ (\E a, b \in Z : a # b) => W.previous_job_index \in Z)
               => Ranked(U)
      BY <3>1, <2>b, <2>7, ResumedKeeps
    <3>3. ASSUME Ranked(L) PROVE Ranked(U) BY <3>2, <3>3, <2>b, <2>r, <2>7
    <3> QED BY <3>2, <3>3, <2>o, <2>u
  <2>c. CASE ~ (i \notin Z /\ s = "Stopped") /\ ~ (i \in Z /\ s # "Stopped")
    <3>1. U = W BY <2>c, <2>9
    <3>2. SuspendedSet(W) = Z BY <2>c, <2>8
    <3>3. ASSUME Ranked(L) PROVE Ranked(W) BY <3>3, <3>2, <2>7 DEF Ranked, Z, cur, prev
    <3> QED BY <3>1, <3>3, <2>7, <2>o, <2>u
  <2> QED BY <2>a, <2>b, <2>c
<1> QED BY <1>1, <1>2

(* JobList::disown_all.                                                    *)
LEMMA DisownKeeps ==
    ASSUME NEW L, WellFormed(L), NEW U, U = disown_all(L)
    PROVE  WellFormed(U)
<1> DEFINE f == [k \in Index(L) |-> [L.jobs[k] EXCEPT !.is_owned = FALSE]]
<1>1. U = WithJobs(L, f) BY DEF disown_all
<1>2. IsFcn(f) /\ DOMAIN f = Index(L) BY DEF IsFcn
<1>3. \A k \in Index(L) : f[k] \in Job /\ f[k].pid = L.jobs[k].pid
  BY DEF Job, WellFormed, Slabbed, ListType
<1> HIDE DEF f
<1> QED BY <1>1, <1>2, <1>3, Relabelled DEF WellFormed

(* JobRefMut::expect and JobRefMut::state_reported.                        *)
LEMMA TouchKeeps ==
    ASSUME NEW L, Slabbed(L), NEW i \in Index(L), NEW U,
           U = expect(L, i, "Running") \/ U = state_reported(L, i)
    PROVE  /\ Slabbed(U)
           /\ WellFormed(L) => WellFormed(U)
           /\ Ranked(L) => Ranked(U)
           /\ Owned(L) => Owned(U)
           /\ Index(U) = Index(L)
           /\ \A k \in Index(L) : /\ U.jobs[k].pid = L.jobs[k].pid
                                  /\ U.jobs[k].state = L.jobs[k].state
<1>1. /\ \A k \in Index(L) : L.jobs[k] \in Job
      /\ L.jobs = [k \in Index(L) |-> L.jobs[k]]
  BY DEF Slabbed, ListType, IsFcn, Index
<1> DEFINE g == L.jobs[i]
<1>t1. PICK e \in State \cup {None}, b \in BOOLEAN :
          U = WithJobs(L, [L.jobs EXCEPT ![i] =
                  [g EXCEPT !.expected_state = e, !.state_changed = b]])
  <2>1. g \in Job BY <1>1
  <2>2. [g EXCEPT !.expected_state = "Running"] =
          [g EXCEPT !.expected_state = "Running", !.state_changed = g.state_changed]
    BY <2>1 DEF Job
  <2>3. [g EXCEPT !.state_changed = FALSE] =
          [g EXCEPT !.expected_state = g.expected_state, !.state_changed = FALSE]
    BY <2>1 DEF Job
  <2>4. /\ "Running" \in State /\ g.expected_state \in State \cup {None}
        /\ g.state_changed \in BOOLEAN
    BY <2>1 DEF Job, State
  <2>5. CASE U = expect(L, i, "Running")
    <3>1. U = WithJobs(L, [L.jobs EXCEPT ![i] =
            [g EXCEPT !.expected_state = "Running", !.state_changed = g.state_changed]])
      BY <2>5, <2>2 DEF expect
    <3> QED BY <3>1, <2>4
  <2>6. CASE U = state_reported(L, i)
    <3>1. U = WithJobs(L, [L.jobs EXCEPT ![i] =
            [g EXCEPT !.expected_state = g.expected_state, !.state_changed = FALSE]])
      BY <2>6, <2>3 DEF state_reported
    <3> QED BY <3>1, <2>4
  <2> QED BY <2>5, <2>6
<1> DEFINE h == [g EXCEPT !.expected_state = e, !.state_changed = b]
           f == [L.jobs EXCEPT ![i] = h]
<1>t2. h \in Job /\ h.pid = g.pid /\ h.state = g.state /\ h.is_owned = g.is_owned
  BY <1>1 DEF Job
<1> HIDE DEF h
<1>t3. /\ IsFcn(f) /\ DOMAIN f = Index(L)
      /\ \A k \in Index(L) : f[k] = IF k = i THEN h ELSE L.jobs[k]
  BY <1>1 DEF IsFcn
<1>t4. U = WithJobs(L, f) BY <1>t1 DEF h
<1> HIDE DEF f
<1>t5. \A k \in Index(L) : /\ f[k] \in Job /\ f[k].pid = L.jobs[k].pid
                          /\ f[k].state = L.jobs[k].state
                          /\ f[k].is_owned = L.jobs[k].is_owned
  BY <1>1, <1>t2, <1>t3
<1>t6. /\ Slabbed(U) /\ (WellFormed(L) => WellFormed(U)) /\ (Ranked(L) => Ranked(U))
      /\ Index(U) = Index(L) /\ U.jobs = f
  BY <1>t3, <1>t4, <1>t5, Relabelled
<1> QED BY <1>t5, <1>t6 DEF Owned

-----------------------------------------------------------------------------
(* What holds of a list that has lost its current or its previous job: the *)
(* methods keep the map and the slab all the same. The choice of jobs ...  *)
LEMMA ChoiceSlabbed ==
    ASSUME NEW L, Slabbed(L), NEW i \in Nat, NEW U,
           \/ U = Select(L, i)
           \/ U = set_current_job(L, i)
           \/ U = Resumed(L, i)
    PROVE  Slabbed(U) /\ U.jobs = L.jobs
<1>1. /\ ListType(L) /\ InSync(L) /\ SlabOK(L)
      /\ L.current_job_index \in Nat /\ L.previous_job_index \in Nat
      /\ Index(L) \subseteq Nat
  BY DEF Slabbed, ListType
<1>2. ASSUME NEW c \in Nat, NEW v \in Nat, U = WithChosen(L, c, v)
      PROVE  Slabbed(U) /\ U.jobs = L.jobs
  <2>1. ListType(L) /\ InSync(L) /\ SlabOK(L) BY <1>1
  <2>2. ListType(U) /\ InSync(U) /\ SlabOK(U) /\ U.jobs = L.jobs
    BY ONLY <2>1, <1>2, c \in Nat, v \in Nat, ChosenKeeps
  <2> QED BY <2>2 DEF Slabbed
<1>3. CASE U = Select(L, i) \/ U = set_current_job(L, i)
  <2>1. U = L \/ U = WithChosen(L, i, L.current_job_index)
    BY <1>3 DEF Select, set_current_job
  <2> QED BY <2>1, <1>1, <1>2
<1>4. CASE U = Resumed(L, i)
  <2> DEFINE p == previous_job(L)
             promotes == i = L.current_job_index /\ IsSuspended(L, p)
             c == IF promotes THEN p ELSE L.current_job_index
             S == SuspendedSet(L) \ {c}
             v == IF S # {} THEN First(S) ELSE i
  <2>1. U = L \/ (p # None /\ U = WithChosen(L, c, v)) BY <1>4 DEF Resumed
  <2>2. p # None => p \in Nat BY <1>1 DEF previous_job
  <2>3. S \subseteq Nat BY <1>1 DEF SuspendedSet
  <2> HIDE DEF S
  <2>4. S # {} => First(S) \in Nat BY <2>3, FirstIn
  <2>5. v \in Nat BY <2>4
  <2>6. p # None => c \in Nat BY <2>2, <1>1
  <2> HIDE DEF p, c, v
  <2> QED BY <2>1, <2>5, <2>6, <1>2
<1> QED BY <1>3, <1>4

(* ... update_status ...                                                   *)
LEMMA UpdateSlabbed ==
    ASSUME NEW L, Slabbed(L), NEW p \in Pid, NEW s \in State,
           NEW U, U = update_status(L, p, s)
    PROVE  Slabbed(U) /\ (Owned(L) => Owned(U)) /\ HasStates(L, U, p, s)
<1>1. CASE p \notin DOMAIN L.pids_to_indices
  <2>1. U = L BY <1>1 DEF update_status, find_by_pid
  <2>2. \A k \in Index(L) : L.jobs[k].pid # p BY <1>1 DEF Slabbed, InSync
  <2> QED BY <2>1, <2>2 DEF HasStates
<1>2. CASE p \in DOMAIN L.pids_to_indices
  <2> DEFINE i == L.pids_to_indices[p]
             job == L.jobs[i]
             g == [job EXCEPT !.state = s,
                       !.state_changed = @ \/ job.expected_state # s,
                       !.expected_state = None]
             f == [L.jobs EXCEPT ![i] = g]
             W == WithState(L, i, s)
  <2>1. i \in Index(L) /\ i \in Nat BY <1>2 DEF Slabbed, InSync, ListType
  <2>2. \A k \in Index(L) : L.jobs[k] \in Job BY DEF Slabbed, ListType
  <2>3. g \in Job /\ g.pid = L.jobs[i].pid /\ g.state = s
        /\ g.is_owned = L.jobs[i].is_owned
    <3>0. L.jobs[i] \in Job BY <2>1, <2>2
    <3>1. g.state_changed \in BOOLEAN BY <3>0 DEF Job
    <3> QED BY <3>0 DEF Job
  <2> HIDE DEF g
  <2>4. /\ IsFcn(f) /\ DOMAIN f = Index(L)
        /\ \A k \in Index(L) : f[k] = IF k = i THEN g ELSE L.jobs[k]
    BY <2>1 DEF IsFcn, Index, Slabbed, ListType
  <2>5. W = WithJobs(L, f) BY DEF WithState, g
  <2>6. \A k \in Index(L) : f[k] \in Job /\ f[k].pid = L.jobs[k].pid
    BY <2>2, <2>3, <2>4
  <2>7. \A k \in Index(L) : L.jobs[k].pid = p <=> k = i
    BY <1>2 DEF Slabbed, InSync
  <2>8. U = W \/ U = Select(W, i) \/ U = Resumed(W, i)
    BY <1>2, <2>1, JobListAssumption DEF update_status, find_by_pid
  <2> HIDE DEF f, W, i
  <2>9. Slabbed(W) /\ W.jobs = f BY <2>4, <2>5, <2>6, Relabelled
  <2>10. Slabbed(U) /\ U.jobs = f BY <2>1, <2>8, <2>9, ChoiceSlabbed
  <2>11. Index(U) = Index(L) BY <2>4, <2>10 DEF Index
  <2>12. HasStates(L, U, p, s) BY <2>3, <2>4, <2>7, <2>10, <2>11 DEF HasStates
  <2>13. Owned(L) => Owned(U) BY <2>1, <2>3, <2>4, <2>10, <2>11 DEF Owned
  <2> QED BY <2>10, <2>12, <2>13
<1> QED BY <1>1, <1>2

(* U is L with the job at index i, in place of the one with its process    *)
(* ID.                                                                     *)
Placed(L, job, U, i) ==
    /\ Index(U) = Index(L) \cup {i}
    /\ U.jobs[i] = job
    /\ \A k \in Index(L) \ {i} : U.jobs[k] = L.jobs[k]
    /\ i \in Index(L) => L.jobs[i].pid = job.pid

(* ... and insert.                                                         *)
LEMMA InsertSlabbed ==
    ASSUME NEW L, Slabbed(L), NEW job \in Job, NEW U, U = insert(L, job)
    PROVE  /\ Slabbed(U)
           /\ Owned(L) /\ job.is_owned => Owned(U)
           /\ \E i \in Nat : Placed(L, job, U, i)
<1> DEFINE S == Stored(L, job)
           i == S.pids_to_indices[job.pid]
<1>1. /\ Slabbed(S)
      /\ i \in Nat /\ Index(S) = Index(L) \cup {i}
      /\ S.jobs[i] = job
      /\ \A k \in Index(L) \ {i} : S.jobs[k] = L.jobs[k]
      /\ i \in Index(L) => L.jobs[i].pid = job.pid
  BY StoredKeeps DEF Slabbed
<1>2. \/ U = S
      \/ U = set_current_job(S, i)
      \/ U = WithChosen(S, i, S.previous_job_index)
      \/ U = WithChosen(S, S.current_job_index, i)
  BY DEF insert, WithPrevious
<1> HIDE DEF S, i
<1>3. /\ ListType(S) /\ InSync(S) /\ SlabOK(S)
      /\ S.current_job_index \in Nat /\ S.previous_job_index \in Nat
  BY <1>1 DEF Slabbed, ListType
<1>4. ASSUME NEW c \in Nat, NEW v \in Nat, U = WithChosen(S, c, v)
      PROVE  Slabbed(U) /\ U.jobs = S.jobs
  <2>1. ListType(S) /\ InSync(S) /\ SlabOK(S) BY <1>3
  <2>2. ListType(U) /\ InSync(U) /\ SlabOK(U) /\ U.jobs = S.jobs
    BY ONLY <2>1, <1>4, c \in Nat, v \in Nat, ChosenKeeps
  <2> QED BY <2>2 DEF Slabbed
<1>5. Slabbed(U) /\ U.jobs = S.jobs BY <1>1, <1>2, <1>3, <1>4, ChoiceSlabbed
<1>6. Index(U) = Index(S) BY <1>5 DEF Index
<1>7. Placed(L, job, U, i) BY <1>1, <1>5, <1>6 DEF Placed
<1>8. Owned(L) /\ job.is_owned => Owned(U) BY <1>7 DEF Owned, Placed
<1> QED BY <1>1, <1>5, <1>7, <1>8

(* ExtractIf starts from the number of jobs.                               *)
LEMMA FiniteIndex ==
    ASSUME NEW L, WellFormed(L)
    PROVE  Cardinality(Index(L)) \in Nat
<1>1. Index(L) \subseteq 0 .. (L.size - 1) /\ L.size \in Nat
  BY DEF WellFormed, Slabbed, SlabOK, ListType
<1>2. IsFiniteSet(0 .. (L.size - 1)) BY <1>1, FS_Interval
<1>3. IsFiniteSet(Index(L)) BY <1>1, <1>2, FS_Subset
<1> QED BY <1>3, FS_CardinalityType

-----------------------------------------------------------------------------
(* What a call may do to the list: it stays well formed, and outside a     *)
(* subshell the ranks and the ownership stay too.                          *)
Keeps(L, U, sub) ==
    /\ WellFormed(U)
    /\ ~sub => (Ranked(L) /\ Owned(L) => Ranked(U) /\ Owned(U))

(* The job the kernel's process ID reuse lets execute_async and            *)
(* handle_job_status insert.                                               *)
LEMMA InsertStep ==
    ASSUME NEW L, WellFormed(L), NEW sub \in BOOLEAN, ~sub => Ranked(L) /\ Owned(L),
           NEW p \in Pid,
           \A i \in Index(L) : L.jobs[i].pid = p
                => ~L.jobs[i].is_owned \/ L.jobs[i].state \notin Alive,
           NEW job, \/ job = NewJob(p, ~sub, "Running", FALSE)
                    \/ ~sub /\ job = NewJob(p, TRUE, "Stopped", TRUE),
           NEW U, U = insert(L, job)
    PROVE  Keeps(L, U, sub)
<1>a. ASSUME NEW c \in BOOLEAN, NEW st \in State, NEW ch \in BOOLEAN
      PROVE  LET j == NewJob(p, c, st, ch)
             IN j \in Job /\ j.pid = p /\ j.is_owned /\ j.state = st
  BY DEF NewJob, Job
<1>b. (~sub) \in BOOLEAN /\ TRUE \in BOOLEAN /\ FALSE \in BOOLEAN
      /\ "Running" \in State /\ "Stopped" \in State
  BY DEF State
<1>1. job \in Job /\ job.pid = p /\ job.is_owned /\ (sub => job.state # "Stopped")
  <2>1. CASE job = NewJob(p, ~sub, "Running", FALSE) BY <1>a, <1>b, <2>1
  <2>2. CASE ~sub /\ job = NewJob(p, TRUE, "Stopped", TRUE) BY <1>a, <1>b, <2>2
  <2> QED BY <2>1, <2>2
<1>2. ASSUME NEW k \in SuspendedSet(L), L.jobs[k].pid = job.pid
      PROVE  sub
  BY <1>1, <1>2 DEF SuspendedSet, Owned, Alive
<1>3. \A k \in SuspendedSet(L) : L.jobs[k].pid = job.pid => job.state # "Stopped"
  BY <1>1, <1>2
<1>4. ~sub => \A k \in SuspendedSet(L) : L.jobs[k].pid # job.pid BY <1>2
<1>5. /\ WellFormed(U)
      /\ (Ranked(L) /\ \A k \in SuspendedSet(L) : L.jobs[k].pid # job.pid)
            => Ranked(U)
      /\ Owned(L) /\ job.is_owned => Owned(U)
  BY <1>1, <1>3, InsertKeeps
<1> QED BY <1>1, <1>4, <1>5 DEF Keeps

(* One pass of ExtractIf::next over a vacant slot removes nothing.         *)
LEMMA RemoveStep ==
    ASSUME NEW L, WellFormed(L), NEW sub, NEW i, NEW U, U = remove(L, i)
    PROVE  Keeps(L, U, sub)
<1>1. CASE i \notin Index(L) BY <1>1 DEF remove, Keeps
<1>2. CASE i \in Index(L) BY <1>2, RemoveKeeps DEF Keeps
<1> QED BY <1>1, <1>2

(* The first state: an empty list.                                         *)
LEMMA Initially == Init => IInv
<1> SUFFICES ASSUME Init PROVE IInv OBVIOUS
<1>1. /\ list.jobs = <<>> /\ list.pids_to_indices = <<>>
      /\ list.current_job_index = 0 /\ list.previous_job_index = 0
      /\ list.free = <<>> /\ list.size = 0
      /\ iter = NoIter /\ subshell = FALSE
  BY DEF Init, EmptyList, List
<1>2. DOMAIN list.jobs = {} /\ DOMAIN list.pids_to_indices = {} /\ DOMAIN list.free = {}
  BY <1>1
<1>3. Index(list) = {} /\ SuspendedSet(list) = {} /\ Elems(list.free) = {}
  BY <1>2 DEF Index, SuspendedSet, Elems
<1>4. IsFcn(list.jobs) /\ IsFcn(list.pids_to_indices) BY <1>1 DEF IsFcn
<1>5. ListType(list) BY <1>1, <1>2, <1>3, <1>4 DEF ListType
<1>6. SlabOK(list) BY <1>1, <1>2, <1>3 DEF SlabOK
<1>7. InSync(list) /\ HasCurrent(list) /\ HasPrevious(list) /\ Owned(list)
  BY <1>2, <1>3 DEF InSync, HasCurrent, HasPrevious, Owned
<1>8. Ranked(list) BY <1>3 DEF Ranked
<1>9. TypeOK BY <1>1, <1>5 DEF TypeOK, NoIter
<1> QED BY <1>1, <1>5, <1>6, <1>7, <1>8, <1>9 DEF IInv, WellFormed, Slabbed

(* Every step keeps the inductive invariant.                               *)
LEMMA Inductive == IInv /\ [Next]_vars => IInv'
<1> SUFFICES ASSUME IInv, [Next]_vars PROVE IInv' OBVIOUS
<1>0. /\ WellFormed(list) /\ subshell \in BOOLEAN
      /\ iter \in [on : BOOLEAN, next_index : Nat, len : Nat]
      /\ ~subshell => Ranked(list) /\ Owned(list)
      /\ ~Forks => ~subshell
  BY DEF IInv, TypeOK
<1>q. ASSUME Keeps(list, list', subshell), subshell' = subshell,
             iter' \in [on : BOOLEAN, next_index : Nat, len : Nat]
      PROVE  IInv'
  BY <1>0, <1>q DEF IInv, TypeOK, Keeps, WellFormed, Slabbed
<1>k. ASSUME list' = list PROVE Keeps(list, list', subshell)
  BY <1>0, <1>k DEF Keeps
<1>1. ASSUME NEW p \in Pid, Insert(p) PROVE IInv'
  <2>1. Keeps(list, list', subshell)
    <3>1. PICK job : /\ \/ job = NewJob(p, ~subshell, "Running", FALSE)
                        \/ ~subshell /\ job = NewJob(p, TRUE, "Stopped", TRUE)
                     /\ list' = insert(list, job)
      BY <1>1 DEF Insert
    <3>2. \A i \in Index(list) : list.jobs[i].pid = p
                => ~list.jobs[i].is_owned \/ list.jobs[i].state \notin Alive
      BY <1>1 DEF Insert, Reusable
    <3> QED BY <1>0, <3>1, <3>2, InsertStep
  <2> QED BY <1>0, <1>1, <1>q, <2>1 DEF Insert
<1>2. ASSUME NEW p \in Pid, NEW s \in State, UpdateStatus(p, s) PROVE IInv'
  <2>1. list' = update_status(list, p, s) BY <1>2 DEF UpdateStatus
  <2>2. Keeps(list, list', subshell) BY <1>0, <2>1, UpdateKeeps DEF Keeps
  <2> QED BY <1>0, <1>2, <1>q, <2>2 DEF UpdateStatus
<1>3. ASSUME NEW i \in Index(list), Remove(i) PROVE IInv'
  <2>1. Keeps(list, list', subshell) BY <1>0, <1>3, RemoveStep DEF Remove
  <2> QED BY <1>0, <1>3, <1>q, <2>1 DEF Remove
<1>4. ASSUME NEW i \in Index(list), SetCurrentJob(i) PROVE IInv'
  <2>1. list' = set_current_job(list, i) BY <1>4 DEF SetCurrentJob
  <2>2. WellFormed(list') /\ (Ranked(list) => Ranked(list')) /\ list'.jobs = list.jobs
    BY <1>0, <2>1, SetCurrentKeeps
  <2>3. Keeps(list, list', subshell) BY <2>2 DEF Keeps, Owned, Index
  <2> QED BY <1>0, <1>4, <1>q, <2>3 DEF SetCurrentJob
<1>5. ASSUME NEW i \in Index(list), Expect(i) \/ StateReported(i) PROVE IInv'
  <2>1. list' = expect(list, i, "Running") \/ list' = state_reported(list, i)
    BY <1>5 DEF Expect, StateReported
  <2>2. WellFormed(list') /\ (Ranked(list) => Ranked(list')) /\ (Owned(list) => Owned(list'))
    BY <1>0, <2>1, TouchKeeps DEF WellFormed
  <2>3. Keeps(list, list', subshell) BY <2>2 DEF Keeps
  <2> QED BY <1>0, <1>5, <1>q, <2>3 DEF Expect, StateReported
<1>6. ASSUME DisownAll PROVE IInv'
  <2>1. Forks /\ subshell' = TRUE /\ list' = disown_all(list) /\ iter' = iter
    BY <1>6 DEF DisownAll
  <2>2. WellFormed(list') BY <1>0, <2>1, DisownKeeps
  <2> QED BY <1>0, <2>1, <2>2 DEF IInv, TypeOK, WellFormed, Slabbed
<1>7. ASSUME ExtractIf PROVE IInv'
  <2>1. iter' \in [on : BOOLEAN, next_index : Nat, len : Nat]
    <3>1. Cardinality(Index(list)) \in Nat BY <1>0, FiniteIndex
    <3> QED BY <1>7, <3>1 DEF ExtractIf, Iter
  <2> QED BY <2>1, <1>7, <1>k, <1>q DEF ExtractIf
<1>8. ASSUME ExtractDrop PROVE IInv'
  BY <1>8, <1>k, <1>q DEF ExtractDrop, NoIter
<1>9. ASSUME NEW b \in BOOLEAN, ExtractNext(b) PROVE IInv'
  <2>1. iter' \in [on : BOOLEAN, next_index : Nat, len : Nat]
    <3>1. iter.len > 0 /\ iter.len \in Nat /\ iter.next_index \in Nat
      BY <1>0, <1>9 DEF ExtractNext
    <3> QED BY <1>9, <3>1 DEF ExtractNext, Iter
  <2>2. Keeps(list, list', subshell)
    <3>1. CASE b BY <1>0, <1>9, <3>1, RemoveStep DEF ExtractNext
    <3>2. CASE ~b BY <1>9, <3>2, <1>k DEF ExtractNext
    <3> QED BY <3>1, <3>2
  <2> QED BY <2>1, <2>2, <1>9, <1>q DEF ExtractNext
<1>10. CASE UNCHANGED vars
  BY <1>0, <1>10, <1>k, <1>q DEF vars
<1> QED BY <1>1, <1>2, <1>3, <1>4, <1>5, <1>6, <1>7, <1>8, <1>9, <1>10 DEF Next

-----------------------------------------------------------------------------
(* Everything the job list keeps, for every set of process IDs.            *)
THEOREM Invariance == Spec => []IInv
BY Initially, Inductive, PTL DEF Spec

(* The hand-kept map from process IDs to slab indices is the inverse of    *)
(* the jobs' process IDs in every reachable state.                         *)
THEOREM MapMatchesJobs == Spec => []PidsInSync
<1>1. IInv => PidsInSync BY DEF IInv, WellFormed, Slabbed, PidsInSync
<1> QED BY <1>1, Invariance, PTL

(* A list with a job has a current job, and one with two a previous job    *)
(* that is not the current one, subshell or not.                           *)
THEOREM JobsAreChosen == Spec => [](CurrentExists /\ PreviousExists)
<1>1. IInv => CurrentExists /\ PreviousExists
  BY DEF IInv, WellFormed, Slabbed, CurrentExists, PreviousExists
<1> QED BY <1>1, Invariance, PTL

(* In a shell that is no subshell the current and the previous job are     *)
(* suspended jobs while there are any: insert, remove, update_status and   *)
(* set_current_job together never let a running job take precedence.       *)
THEOREM SuspendedTakePrecedence == Spec => []SuspendedFirst
<1>1. IInv => SuspendedFirst BY DEF IInv, SuspendedFirst
<1> QED BY <1>1, Invariance, PTL

(* Job numbers start from one again once the list is empty.                *)
THEOREM NumbersRestart == Spec => []RestartsFromZero
<1>1. IInv => RestartsFromZero
  <2> SUFFICES ASSUME IInv, Index(list) = {} PROVE SlabNext(list) = 0
    BY DEF RestartsFromZero
  <2>1. /\ list.size = 0 /\ list.free \in Seq(Nat)
        /\ \A k \in DOMAIN list.free : list.free[k] < list.size
    BY DEF IInv, WellFormed, Slabbed, SlabOK, ListType
  <2>2. \A k \in DOMAIN list.free : FALSE
    <3> SUFFICES ASSUME NEW k \in DOMAIN list.free PROVE FALSE OBVIOUS
    <3>1. list.free[k] \in Nat /\ list.free[k] < 0 BY <2>1
    <3> QED BY <3>1
  <2>3. list.free = <<>> BY <2>1, <2>2
  <2> QED BY <2>1, <2>3 DEF SlabNext
<1> QED BY <1>1, Invariance, PTL
(* ExtractIf counts what is left to visit.                                 *)
LEMMA CountInitially == Init => ExtractCount
BY DEF Init, NoIter, ExtractCount

\* The list after one pass of ExtractIf has lost the job of that pass at most.
LEMMA PassIndex ==
    ASSUME NEW L, NEW i, NEW U, U = L \/ U = remove(L, i)
    PROVE  {j \in Index(U) : j # i} = {j \in Index(L) : j # i}
<1>1. CASE U = L BY <1>1
<1>2. CASE U = remove(L, i) /\ i \notin Index(L) BY <1>2 DEF remove
<1>3. CASE U = remove(L, i) /\ i \in Index(L)
  <2>1. PICK c : c = IF i = L.current_job_index THEN L.previous_job_index ELSE L.current_job_index
    OBVIOUS
  <2>2. Removed(L, U, i, c) BY <1>3, <2>1, RemoveFields
  <2>3. Index(U) = Index(L) \ {i} BY <2>2 DEF Removed, Index
  <2> QED BY <2>3
<1> QED BY <1>1, <1>2, <1>3

(* Each step keeps the count: a pass moves on by one index, and only a job *)
(* that was there is counted down.                                         *)
LEMMA CountKept == IInv /\ ExtractCount /\ [Next]_vars => ExtractCount'
<1> SUFFICES ASSUME IInv, ExtractCount, [Next]_vars, iter'.on
             PROVE  iter'.len = Cardinality({i \in Index(list') : i >= iter'.next_index})
  BY DEF ExtractCount
<1>0. /\ WellFormed(list) /\ Index(list) \subseteq Nat
      /\ iter \in [on : BOOLEAN, next_index : Nat, len : Nat]
  BY DEF IInv, TypeOK, ListType
<1>1. CASE ExtractIf
  <2>1. iter'.len = Cardinality(Index(list)) /\ iter'.next_index = 0 /\ list' = list
    BY <1>1 DEF ExtractIf, Iter
  <2>2. {i \in Index(list) : i >= 0} = Index(list) BY <1>0
  <2> QED BY <2>1, <2>2
<1>2. ASSUME NEW b \in BOOLEAN, ExtractNext(b)
      PROVE  iter'.len = Cardinality({i \in Index(list') : i >= iter'.next_index})
  <2>1. PICK n : n = iter.next_index OBVIOUS
  <2>2. n \in Nat /\ iter.len \in Nat /\ iter.on BY <1>0, <1>2, <2>1 DEF ExtractNext
  <2>3. /\ iter'.next_index = n + 1
        /\ iter'.len = IF n \in Index(list) THEN iter.len - 1 ELSE iter.len
    BY <1>2, <2>1 DEF ExtractNext, Iter
  <2>4. list' = list \/ list' = remove(list, n) BY <1>2, <2>1 DEF ExtractNext
  <2>5. {j \in Index(list') : j # n} = {j \in Index(list) : j # n} BY <2>4, PassIndex
  <2>6. PICK A : A = {i \in Index(list) : i >= n} OBVIOUS
  <2>7. Index(list') \subseteq Nat
    <3>1. Index(list') \subseteq {j \in Index(list) : j # n} \cup {n} BY <2>5
    <3> QED BY <1>0, <2>2, <3>1
  <2>8. {i \in Index(list') : i >= n + 1} = A \ {n}
    <3>1. ASSUME NEW i PROVE i \in Index(list') /\ i >= n + 1 <=> i \in A /\ i # n
      <4>1. i \in Index(list') \/ i \in Index(list) => i \in Nat BY <1>0, <2>7
      <4>2. i # n => (i \in Index(list') <=> i \in Index(list)) BY <2>5
      <4>3. i \in Nat => (i >= n + 1 <=> i >= n /\ i # n) BY <2>2
      <4> QED BY <2>6, <4>1, <4>2, <4>3
    <3> QED BY <3>1
  <2>9. IsFiniteSet(A)
    <3>1. list.size \in Nat /\ Index(list) \subseteq 0 .. list.size - 1
      BY <1>0 DEF WellFormed, Slabbed, SlabOK, ListType
    <3>2. IsFiniteSet(0 .. list.size - 1) BY <3>1, FS_Interval
    <3>3. A \subseteq 0 .. list.size - 1 BY <2>6, <3>1
    <3> QED BY <3>2, <3>3, FS_Subset
  <2>10. Cardinality(A \ {n}) = IF n \in A THEN Cardinality(A) - 1 ELSE Cardinality(A)
    BY <2>9, FS_RemoveElement
  <2>11. iter.len = Cardinality(A) BY <2>1, <2>2, <2>6 DEF ExtractCount
  <2>12. n \in A <=> n \in Index(list) BY <2>2, <2>6
  <2> QED BY <2>3, <2>8, <2>10, <2>11, <2>12
<1>3. ~ ExtractDrop BY DEF ExtractDrop, NoIter
<1>4. ASSUME iter' = iter, ~ iter.on PROVE FALSE BY <1>4
<1>5. CASE UNCHANGED vars BY <1>5 DEF vars, ExtractCount
<1>6. ASSUME NEW p \in Pid, Insert(p) \/ \E s \in State : UpdateStatus(p, s) PROVE FALSE
  BY <1>4, <1>6 DEF Insert, UpdateStatus
<1>7. ASSUME NEW i \in Index(list), Remove(i) \/ SetCurrentJob(i) \/ Expect(i) \/ StateReported(i)
      PROVE  FALSE
  BY <1>4, <1>7 DEF Remove, SetCurrentJob, Expect, StateReported
<1>8. ~ DisownAll BY <1>4 DEF DisownAll
<1> QED BY <1>1, <1>2, <1>3, <1>5, <1>6, <1>7, <1>8 DEF Next

(* The loop of ExtractIf ends exactly when the last job has been visited,  *)
(* whichever jobs it removes on its way (job.rs: ExtractIf::next).         *)
THEOREM ExtractVisitsAll == Spec => []ExtractCount
BY CountInitially, CountKept, Invariance, PTL DEF Spec

=============================================================================
