------------------------- MODULE RedirectionProofs -------------------------
(***************************************************************************)
(* Proofs about redirections: however commands with redirections, scripts  *)
(* and the exec built-in nest, and however redirections fail, the shell    *)
(* keeps its own descriptors, the end of a command gives back the          *)
(* descriptors the command redirected, and only failures leave one open.   *)
(***************************************************************************)
EXTENDS Redirection, SequenceTheorems, FiniteSetTheorems, WellFoundedInduction, TLAPS

-----------------------------------------------------------------------------
(***************************************************************************)
(* Smallest elements.                                                      *)
(***************************************************************************)

\* A set of natural numbers that is not empty has a smallest element.
LEMMA MinIsIn ==
    ASSUME NEW S, S \subseteq Nat, S # {}
    PROVE  Min(S) \in S /\ \A y \in S : Min(S) <= y
<1> DEFINE Less == OpToRel(<, Nat)
<1>1. IsWellFoundedOn(Less, Nat) BY NatLessThanWellFounded
<1>2. \A x, y \in Nat : y < x => <<y, x>> \in Less BY DEF OpToRel
<1> HIDE DEF Less
<1>3. PICK x \in S : \A y \in S : ~ (<<y, x>> \in Less) BY <1>1, WFMin
<1>4. ASSUME NEW y \in S PROVE x <= y
  <2>1. x \in Nat /\ y \in Nat OBVIOUS
  <2>2. ~ (y < x) BY <1>2, <1>3, <2>1
  <2> QED BY <2>1, <2>2
<1> QED BY <1>4 DEF Min

Below == 0 .. OpenMax - 1

\* min_unused_fd gives a descriptor that is not open, whatever is open.
LEMMA UnusedIsFree ==
    ASSUME NEW t, DOMAIN t \subseteq Below, NEW min \in Nat,
           NEW u, u = MinUnusedFd(t, min)
    PROVE  u \in Nat /\ u >= min /\ u \notin DOMAIN t
<1> DEFINE S == (min .. min + OpenMax) \ DOMAIN t
<1>1. min + OpenMax \in S BY OpenMaxAssumption DEF Below
<1>2. S \subseteq Nat /\ S # {} BY <1>1, OpenMaxAssumption
<1>3. Min(S) \in S BY <1>2, MinIsIn
<1> QED BY <1>2, <1>3 DEF MinUnusedFd

\* The identity of a description that is opened is one nobody uses.
LEMMA NewIsOfd ==
    ASSUME Fresh # {}, NEW access \in Access, NEW o, o = NewOfd(access)
    PROVE  o \in Ofd /\ o.access = access /\ ~o.foreign
<1>1. Fresh \subseteq Nat /\ Fresh \subseteq Ofds
  BY RedirectionAssumption DEF Fresh
<1>2. Min(Fresh) \in Fresh BY <1>1, MinIsIn
<1> QED BY <1>1, <1>2 DEF NewOfd, Ofd

-----------------------------------------------------------------------------
(***************************************************************************)
(* Descriptor tables.                                                      *)
(***************************************************************************)

Bodies == [ofd : Ofd, cloexec : BOOLEAN]

\* u is t with b at descriptor f, and t without descriptor f.
Replaced(t, f, b, u) ==
    /\ DOMAIN u = DOMAIN t \union {f}
    /\ u[f] = b
    /\ \A g \in DOMAIN t : g # f => u[g] = t[g]

Without(t, f, u) ==
    /\ DOMAIN u = DOMAIN t \ {f}
    /\ \A g \in DOMAIN u : u[g] = t[g]

LEMMA SetReplaces ==
    ASSUME NEW t, IsTable(t, Ofd), NEW f \in Below, NEW b \in Bodies,
           NEW u, u = SetFd(t, f, b)
    PROVE  IsTable(u, Ofd) /\ Replaced(t, f, b, u)
BY OpenMaxAssumption DEF IsTable, SetFd, Below, Replaced, Bodies

LEMMA CloseRemoves ==
    ASSUME NEW t, IsTable(t, Ofd), NEW f, NEW u, u = CloseFd(t, f)
    PROVE  IsTable(u, Ofd) /\ Without(t, f, u)
BY DEF IsTable, CloseFd, Without

\* Tables with the same bodies are the same.
LEMMA SameTable ==
    ASSUME NEW t, IsTable(t, Ofd), NEW u, IsTable(u, Ofd), DOMAIN u = DOMAIN t,
           \A f \in DOMAIN t : u[f] = t[f]
    PROVE  u = t
BY DEF IsTable

\* The smallest descriptor that is free, when there is one.
LEMMA OpensFree ==
    ASSUME NEW t, IsTable(t, Ofd), NEW min \in Nat, CanOpen(t, min),
           NEW f, f = MinUnusedFd(t, min)
    PROVE  f \in Below \ DOMAIN t /\ f >= min
<1>1. DOMAIN t \subseteq Below BY DEF IsTable, Below
<1>2. f \in Nat /\ f >= min /\ f \notin DOMAIN t BY <1>1, UnusedIsFree
<1> QED BY <1>2, OpenMaxAssumption DEF CanOpen, Below

LEMMA BodyIsBody ==
    ASSUME NEW o \in Ofd, NEW cloexec \in BOOLEAN, NEW b, b = Body(o, cloexec)
    PROVE  b \in Bodies /\ b.ofd = o /\ b.cloexec = cloexec
BY DEF Body, Bodies

LEMMA OpenReplaces ==
    ASSUME NEW t, IsTable(t, Ofd), NEW min \in Nat, CanOpen(t, min),
           NEW f, f = MinUnusedFd(t, min), NEW b \in Bodies,
           NEW u, u = OpenFd(t, min, b)
    PROVE  IsTable(u, Ofd) /\ Replaced(t, f, b, u)
<1>1. f \in Below BY OpensFree
<1>2. u = SetFd(t, f, b) BY DEF OpenFd
<1> QED BY <1>1, <1>2, SetReplaces

\* What a table has in it.
LEMMA InTable ==
    ASSUME NEW t, IsTable(t, Ofd), NEW f \in DOMAIN t
    PROVE  f \in Below /\ t[f] \in Bodies /\ t[f].ofd \in Ofd /\ t[f].cloexec \in BOOLEAN
           /\ t[f] = Body(t[f].ofd, t[f].cloexec)
BY DEF IsTable, Below, Bodies, Body

\* dup2, which makes a descriptor that commands inherit.
LEMMA DupReplaces ==
    ASSUME NEW t, IsTable(t, Ofd), NEW from, NEW to, CanDup2(t, from, to),
           NEW u, u = Dup2(t, from, to)
    PROVE  IsTable(u, Ofd) /\ Replaced(t, to, Body(t[from].ofd, FALSE), u)
<1>1. t[from].ofd \in Ofd BY InTable DEF CanDup2
<1>2. PICK b : b = Body(t[from].ofd, FALSE) OBVIOUS
<1>3. b \in Bodies BY <1>1, <1>2, BodyIsBody
<1>4. to \in Below BY DEF CanDup2, Below
<1>5. u = SetFd(t, to, b) BY <1>2 DEF Dup2
<1> QED BY <1>2, <1>3, <1>4, <1>5, SetReplaces

-----------------------------------------------------------------------------
(***************************************************************************)
(* undo_redirs.                                                            *)
(***************************************************************************)

\* g holds the tables undo_redirs goes through for the last m of n entries.
Undoing(t, list, n, m, g) ==
    g = [k \in 0 .. m |-> IF k = 0 THEN t ELSE UndoOne(g[k - 1], list[n - k + 1])]

LEMMA UndoingGoesOn ==
    ASSUME NEW t, NEW list, NEW n \in Nat, NEW m \in 1 .. n,
           NEW g, Undoing(t, list, n, m - 1, g)
    PROVE  \E h : Undoing(t, list, n, m, h)
<1>1. PICK h : h = [k \in 0 .. m |-> IF k = m THEN UndoOne(g[m - 1], list[n - m + 1])
                                     ELSE g[k]]
  OBVIOUS
<1>2. ASSUME NEW k \in 0 .. m
      PROVE  h[k] = IF k = 0 THEN t ELSE UndoOne(h[k - 1], list[n - k + 1])
  <2>1. CASE k = m
    <3>1. h[k - 1] = g[m - 1] BY <1>1, <2>1
    <3> QED BY <1>1, <2>1, <3>1
  <2>2. CASE k # m
    <3>1. h[k] = g[k] /\ k \in 0 .. m - 1 BY <1>1, <2>2
    <3>2. k # 0 => h[k - 1] = g[k - 1] BY <1>1, <2>2
    <3>3. g[k] = IF k = 0 THEN t ELSE UndoOne(g[k - 1], list[n - k + 1])
      BY <3>1 DEF Undoing
    <3> QED BY <3>1, <3>2, <3>3
  <2> QED BY <2>1, <2>2
<1>3. h = [k \in 0 .. m |-> h[k]] BY <1>1
<1>4. Undoing(t, list, n, m, h) BY <1>2, <1>3 DEF Undoing
<1> QED BY <1>4

LEMMA UndoingExists ==
    ASSUME NEW t, NEW list, NEW n \in Nat
    PROVE  \E g : Undoing(t, list, n, n, g)
<1> DEFINE Bad == {m \in 0 .. n : ~ \E g : Undoing(t, list, n, m, g)}
<1>1. SUFFICES ASSUME Bad # {} PROVE FALSE OBVIOUS
<1>2. Bad \subseteq Nat OBVIOUS
<1>3. PICK m : m = Min(Bad) OBVIOUS
<1>4. m \in Bad /\ \A y \in Bad : m <= y BY <1>1, <1>2, <1>3, MinIsIn
<1>5. CASE m = 0
  <2>1. PICK g : g = [k \in 0 .. 0 |-> t] OBVIOUS
  <2>2. Undoing(t, list, n, 0, g) BY <2>1 DEF Undoing
  <2> QED BY <1>4, <1>5, <2>2
<1>6. CASE m # 0
  <2>1. m \in 1 .. n /\ m - 1 \in 0 .. n /\ m - 1 \notin Bad BY <1>4, <1>6
  <2>2. \E g : Undoing(t, list, n, m - 1, g) BY <2>1
  <2>3. \E h : Undoing(t, list, n, m, h) BY <2>1, <2>2, UndoingGoesOn
  <2> QED BY <1>4, <2>3
<1> QED BY <1>5, <1>6

\* g leads from t to u by undoing the entries of the list in reverse.
Leads(g, t, list, u) ==
    /\ u = g[Len(list)]
    /\ g[0] = t
    /\ \A k \in 1 .. Len(list) : g[k] = UndoOne(g[k - 1], list[Len(list) - k + 1])

LEMMA UndoAllGoesThrough ==
    ASSUME NEW t, NEW list, NEW n \in Nat, n = Len(list),
           NEW u, u = UndoAll(t, list)
    PROVE  \E g : Leads(g, t, list, u)
<1> DEFINE G == CHOOSE g : Undoing(t, list, n, n, g)
<1>1. Undoing(t, list, n, n, G) BY UndoingExists
<1>2. UndoAll(t, list) = G[n] BY Zenon DEF UndoAll, Undoing
<1> HIDE DEF G
<1>3. G[0] = t BY <1>1 DEF Undoing
<1>4. ASSUME NEW k \in 1 .. n PROVE G[k] = UndoOne(G[k - 1], list[n - k + 1])
  BY <1>1 DEF Undoing
<1> QED BY <1>2, <1>3, <1>4 DEF Leads

\* What undoing relies on, the rest of Undoable apart: what was saved is there.
CanUndo(list, t) ==
    /\ list \in Seq(SavedFd)
    /\ \A k \in 1 .. Len(list) : list[k].save # None =>
          list[k].original < OpenMax /\ list[k].save \in DOMAIN t
    /\ \A k, m \in 1 .. Len(list) :
          k < m /\ list[k].save # None => list[k].save # list[m].save
    /\ \A k, m \in 1 .. Len(list) : k <= m => list[k].save # list[m].original

\* In u the entries of t from the i-th on have been undone.
Undone(t, list, i, u) ==
    /\ IsTable(u, Ofd)
    /\ \A f : (\A m \in i .. Len(list) : f # list[m].original /\ f # list[m].save) =>
          /\ f \in DOMAIN u <=> f \in DOMAIN t
          /\ f \in DOMAIN t => u[f] = t[f]
    /\ \A m \in i .. Len(list) :
          (\A l \in i .. m - 1 : list[l].original # list[m].original) =>
              /\ list[m].save = None => list[m].original \notin DOMAIN u
              /\ list[m].save # None =>
                    /\ list[m].original \in DOMAIN u
                    /\ u[list[m].original] = Body(t[list[m].save].ofd, FALSE)
    /\ \A f \in DOMAIN u : \/ f \in DOMAIN t /\ u[f] = t[f]
                           \/ \E s \in DOMAIN t : u[f] = Body(t[s].ofd, FALSE)
    /\ \A m \in i .. Len(list) : list[m].save # None => ~IsCloexec(u, list[m].save)

\* Undoing one entry.
LEMMA UndoneNext ==
    ASSUME NEW t, IsTable(t, Ofd), NEW list, CanUndo(list, t), NEW n \in Nat, n = Len(list),
           NEW i \in 1 .. n, NEW u, Undone(t, list, i + 1, u),
           NEW v, v = UndoOne(u, list[i])
    PROVE  Undone(t, list, i, v)
<1> DEFINE o == list[i].original
           s == list[i].save
<1>1. o \in Named /\ o \in Nat /\ s \in FdOrNone
  <2>1. list \in Seq(SavedFd) BY DEF CanUndo
  <2>2. list[i] \in SavedFd BY <2>1
  <2> QED BY <2>2, RedirectionAssumption DEF SavedFd
<1>2. \A m \in 1 .. n : i <= m => s # list[m].original BY DEF CanUndo
<1>3. \A m \in i .. n : m = i \/ m \in i + 1 .. n OBVIOUS
<1>4. IsTable(u, Ofd) BY DEF Undone
<1>5. CASE s = None
  <2>1. v = CloseFd(u, o) BY <1>5 DEF UndoOne
  <2>2. IsTable(v, Ofd) /\ Without(u, o, v) BY <1>4, <2>1, CloseRemoves
  <2>3. ASSUME NEW f, \A m \in i .. n : f # list[m].original /\ f # list[m].save
        PROVE  (f \in DOMAIN v <=> f \in DOMAIN t) /\ (f \in DOMAIN t => v[f] = t[f])
    <3>1. f # o /\ \A m \in i + 1 .. n : f # list[m].original /\ f # list[m].save
      BY <2>3
    <3>2. (f \in DOMAIN u <=> f \in DOMAIN t) /\ (f \in DOMAIN t => u[f] = t[f])
      BY <3>1 DEF Undone
    <3> QED BY <2>2, <3>1, <3>2 DEF Without
  <2>4. ASSUME NEW m \in i .. n,
               \A l \in i .. m - 1 : list[l].original # list[m].original
        PROVE  /\ list[m].save = None => list[m].original \notin DOMAIN v
               /\ list[m].save # None =>
                     /\ list[m].original \in DOMAIN v
                     /\ v[list[m].original] = Body(t[list[m].save].ofd, FALSE)
    <3>1. CASE m = i BY <1>5, <2>2, <3>1 DEF Without
    <3>2. CASE m # i
      <4>1. m \in i + 1 .. n /\ list[m].original # o BY <2>4, <3>2
      <4>2. \A l \in i + 1 .. m - 1 : list[l].original # list[m].original BY <2>4
      <4>3. /\ list[m].save = None => list[m].original \notin DOMAIN u
            /\ list[m].save # None =>
                  /\ list[m].original \in DOMAIN u
                  /\ u[list[m].original] = Body(t[list[m].save].ofd, FALSE)
        BY <4>1, <4>2 DEF Undone
      <4> QED BY <2>2, <4>1, <4>3 DEF Without
    <3> QED BY <3>1, <3>2
  <2>5. ASSUME NEW f \in DOMAIN v
        PROVE  \/ f \in DOMAIN t /\ v[f] = t[f]
               \/ \E x \in DOMAIN t : v[f] = Body(t[x].ofd, FALSE)
    <3>1. f \in DOMAIN u /\ v[f] = u[f] BY <2>2 DEF Without
    <3> QED BY <3>1 DEF Undone
  <2>6. ASSUME NEW m \in i .. n, list[m].save # None
        PROVE  ~IsCloexec(v, list[m].save)
    <3>1. m \in i + 1 .. n BY <1>3, <1>5, <2>6
    <3>2. ~IsCloexec(u, list[m].save) BY <2>6, <3>1 DEF Undone
    <3> QED BY <2>2, <3>2 DEF IsCloexec, Without
  <2> QED BY <2>2, <2>3, <2>4, <2>5, <2>6 DEF Undone
<1>6. CASE s # None
  <2>1. o < OpenMax /\ s \in DOMAIN t BY <1>6 DEF CanUndo
  <2>2. \A m \in i + 1 .. n : s # list[m].original /\ s # list[m].save
    BY <1>2, <1>6 DEF CanUndo
  <2>3. s \in DOMAIN u /\ u[s] = t[s] BY <2>1, <2>2 DEF Undone
  <2>4. CanDup2(u, s, o) BY <1>1, <2>1, <2>3, OpenMaxAssumption DEF CanDup2
  <2>5. PICK w : w = Dup2(u, s, o) OBVIOUS
  <2>6. IsTable(w, Ofd) /\ Replaced(u, o, Body(u[s].ofd, FALSE), w)
    BY <1>4, <2>4, <2>5, DupReplaces
  <2>7. v = CloseFd(w, s) BY <1>6, <2>5 DEF UndoOne
  <2>8. IsTable(v, Ofd) /\ Without(w, s, v) BY <2>6, <2>7, CloseRemoves
  <2>9. s # o BY <1>2
  <2>10. /\ DOMAIN v = (DOMAIN u \union {o}) \ {s}
         /\ v[o] = Body(t[s].ofd, FALSE)
         /\ \A f \in DOMAIN u : f # o /\ f # s => v[f] = u[f]
    BY <2>3, <2>6, <2>8, <2>9 DEF Replaced, Without
  <2>11. ASSUME NEW f, \A m \in i .. n : f # list[m].original /\ f # list[m].save
         PROVE  (f \in DOMAIN v <=> f \in DOMAIN t) /\ (f \in DOMAIN t => v[f] = t[f])
    <3>1. f # o /\ f # s
          /\ \A m \in i + 1 .. n : f # list[m].original /\ f # list[m].save
      BY <2>11
    <3>2. (f \in DOMAIN u <=> f \in DOMAIN t) /\ (f \in DOMAIN t => u[f] = t[f])
      BY <3>1 DEF Undone
    <3> QED BY <2>10, <3>1, <3>2
  <2>12. ASSUME NEW m \in i .. n,
                \A l \in i .. m - 1 : list[l].original # list[m].original
         PROVE  /\ list[m].save = None => list[m].original \notin DOMAIN v
                /\ list[m].save # None =>
                      /\ list[m].original \in DOMAIN v
                      /\ v[list[m].original] = Body(t[list[m].save].ofd, FALSE)
    <3>1. CASE m = i BY <1>6, <2>9, <2>10, <3>1
    <3>2. CASE m # i
      <4>1. m \in i + 1 .. n /\ list[m].original # o BY <2>12, <3>2
      <4>2. \A l \in i + 1 .. m - 1 : list[l].original # list[m].original BY <2>12
      <4>3. /\ list[m].save = None => list[m].original \notin DOMAIN u
            /\ list[m].save # None =>
                  /\ list[m].original \in DOMAIN u
                  /\ u[list[m].original] = Body(t[list[m].save].ofd, FALSE)
        BY <4>1, <4>2 DEF Undone
      <4>4. list[m].original # s BY <1>2, <4>1
      <4> QED BY <2>10, <4>1, <4>3, <4>4
    <3> QED BY <3>1, <3>2
  <2>13. ASSUME NEW f \in DOMAIN v
         PROVE  \/ f \in DOMAIN t /\ v[f] = t[f]
                \/ \E x \in DOMAIN t : v[f] = Body(t[x].ofd, FALSE)
    <3>1. CASE f = o BY <2>1, <2>10, <3>1
    <3>2. CASE f # o
      <4>1. f \in DOMAIN u /\ v[f] = u[f] BY <2>10, <3>2
      <4> QED BY <4>1 DEF Undone
    <3> QED BY <3>1, <3>2
  <2>14. ASSUME NEW m \in i .. n, list[m].save # None
         PROVE  ~IsCloexec(v, list[m].save)
    <3>1. CASE list[m].save = s BY <2>10, <3>1 DEF IsCloexec
    <3>2. CASE list[m].save = o BY <2>10, <3>2 DEF IsCloexec, Body
    <3>3. CASE list[m].save # s /\ list[m].save # o
      <4>1. m \in i + 1 .. n BY <1>3, <3>3
      <4>2. ~IsCloexec(u, list[m].save) BY <2>14, <4>1 DEF Undone
      <4> QED BY <2>10, <3>3, <4>2 DEF IsCloexec
    <3> QED BY <3>1, <3>2, <3>3
  <2> QED BY <2>8, <2>11, <2>12, <2>13, <2>14 DEF Undone
<1> QED BY <1>5, <1>6

\* Undoing them all.
LEMMA AllUndone ==
    ASSUME NEW t, IsTable(t, Ofd), NEW list, CanUndo(list, t),
           NEW u, u = UndoAll(t, list)
    PROVE  Undone(t, list, 1, u)
<1>1. PICK n : n = Len(list) OBVIOUS
<1>2. n \in Nat BY <1>1 DEF CanUndo
<1>3. PICK g : Leads(g, t, list, u) BY <1>1, <1>2, UndoAllGoesThrough
<1>4. /\ u = g[n]
      /\ g[0] = t
      /\ \A k \in 1 .. n : g[k] = UndoOne(g[k - 1], list[n - k + 1])
  BY <1>1, <1>3 DEF Leads
<1> DEFINE Bad == {k \in 0 .. n : ~Undone(t, list, n - k + 1, g[k])}
<1>5. SUFFICES ASSUME Bad # {} PROVE FALSE
  <2>1. Bad = {} => Undone(t, list, n - n + 1, g[n]) BY <1>2
  <2>2. n - n + 1 = 1 BY <1>2
  <2> QED BY <1>4, <2>1, <2>2
<1>6. Bad \subseteq Nat OBVIOUS
<1>7. PICK k : k = Min(Bad) OBVIOUS
<1>8. k \in Bad /\ \A y \in Bad : k <= y BY <1>5, <1>6, <1>7, MinIsIn
<1>9. CASE k = 0
  <2>1. \A m : m \notin n + 1 .. n BY <1>2
  <2>2. Undone(t, list, n + 1, t) BY <1>1, <2>1 DEF Undone
  <2>3. n - 0 + 1 = n + 1 BY <1>2
  <2> QED BY <1>4, <1>8, <1>9, <2>2, <2>3
<1>10. CASE k # 0
  <2>1. k \in 1 .. n /\ k - 1 \in 0 .. n /\ k - 1 \notin Bad BY <1>2, <1>8, <1>10
  <2>2. Undone(t, list, n - (k - 1) + 1, g[k - 1]) BY <2>1
  <2>3. PICK i : i = n - k + 1 OBVIOUS
  <2>4. i \in 1 .. n /\ n - (k - 1) + 1 = i + 1 BY <1>2, <2>1, <2>3
  <2>5. g[k] = UndoOne(g[k - 1], list[i]) BY <1>4, <2>1, <2>3
  <2>6. PICK v : v = g[k] OBVIOUS
  <2>7. PICK w : w = g[k - 1] OBVIOUS
  <2>8. Undone(t, list, i, v)
    BY <1>1, <1>2, <2>2, <2>4, <2>5, <2>6, <2>7, UndoneNext
  <2> QED BY <1>8, <2>3, <2>6, <2>8
<1> QED BY <1>9, <1>10

-----------------------------------------------------------------------------
(***************************************************************************)
(* The stack of frames.                                                    *)
(***************************************************************************)

\* frames consists of n frames, the last of which is fr.
Frames(s, n, fr) ==
    /\ s \in Seq(Range(s)) /\ Len(s) = n /\ s # <<>> /\ Last(s) = fr /\ s[n] = fr
    /\ \A i \in 1 .. n : IsFrame(s[i])

LEMMA FramesAre ==
    ASSUME TypeOK
    PROVE  /\ Len(frames) \in Nat /\ DOMAIN frames = 1 .. Len(frames)
           /\ frames # <<>> <=> Len(frames) # 0
           /\ frames # <<>> => IsFrame(Top) /\ Top = frames[Len(frames)]
<1>1. frames \in Seq(Range(frames)) BY DEF TypeOK
<1>2. Len(frames) \in Nat /\ DOMAIN frames = 1 .. Len(frames) BY <1>1, LenProperties
<1>3. frames # <<>> <=> Len(frames) # 0
  BY <1>1, EmptySeq
<1>4. frames # <<>> => Len(frames) \in 1 .. Len(frames) BY <1>2, <1>3
<1> QED BY <1>2, <1>3, <1>4 DEF Top, Last, TypeOK

LEMMA TopSet ==
    ASSUME TypeOK, frames # <<>>, NEW fr, IsFrame(fr), SetTop(fr),
           NEW n, n = Len(frames)
    PROVE  /\ Frames(frames', n, fr)
           /\ \A i \in 1 .. n - 1 : frames'[i] = frames[i]
<1>1. n \in Nat /\ n # 0 /\ DOMAIN frames = 1 .. n BY FramesAre
<1>2. PICK S : S = Range(frames) \union {fr} OBVIOUS
<1>3. frames \in [1 .. n -> S] BY <1>1, <1>2, LenProperties DEF TypeOK, Range
<1>4. frames \in Seq(S) /\ fr \in S BY <1>1, <1>2, <1>3
<1>5. frames' = [frames EXCEPT ![n] = fr] BY DEF SetTop
<1>6. /\ frames' \in Seq(S)
      /\ Len(frames') = n
      /\ \A j \in 1 .. n : frames'[j] = IF j = n THEN fr ELSE frames[j]
  BY <1>1, <1>4, <1>5, ExceptSeq
<1>7. frames' \in Seq(Range(frames')) BY <1>6, SeqOfRange
<1>8. frames' # <<>> BY <1>1, <1>6, EmptySeq
<1>9. frames'[n] = fr /\ Last(frames') = fr BY <1>1, <1>6 DEF Last
<1>10. \A i \in 1 .. n - 1 : frames'[i] = frames[i] BY <1>1, <1>6
<1>11. \A i \in 1 .. n : IsFrame(frames'[i]) BY <1>6 DEF TypeOK
<1> QED BY <1>6, <1>7, <1>8, <1>9, <1>10, <1>11 DEF Frames

LEMMA Pushed ==
    ASSUME TypeOK, NEW fr, IsFrame(fr), Push(fr), NEW n, n = Len(frames)
    PROVE  /\ Frames(frames', n + 1, fr)
           /\ \A i \in 1 .. n : frames'[i] = frames[i]
<1>1. n \in Nat /\ DOMAIN frames = 1 .. n BY FramesAre
<1>2. PICK S : S = Range(frames) \union {fr} OBVIOUS
<1>3. frames \in [1 .. n -> S] BY <1>1, <1>2, LenProperties DEF TypeOK, Range
<1>4. frames \in Seq(S) /\ fr \in S BY <1>1, <1>2, <1>3
<1>5. /\ frames' \in Seq(S) /\ frames' # <<>>
      /\ Len(frames') = n + 1
      /\ \A j \in 1 .. n : frames'[j] = frames[j]
      /\ frames'[n + 1] = fr
  BY <1>4, AppendProperties DEF Push
<1>6. frames' \in Seq(Range(frames')) BY <1>5, SeqOfRange
<1>7. Last(frames') = fr BY <1>1, <1>5 DEF Last
<1>8. \A i \in 1 .. n + 1 : IsFrame(frames'[i])
  <2>1. \A i \in 1 .. n + 1 : i = n + 1 \/ i \in 1 .. n BY <1>1
  <2>2. \A i \in 1 .. n : IsFrame(frames[i]) BY DEF TypeOK
  <2> QED BY <1>5, <2>1, <2>2
<1> QED BY <1>5, <1>6, <1>7, <1>8 DEF Frames

LEMMA Popped ==
    ASSUME TypeOK, frames # <<>>, Pop, NEW n, n = Len(frames)
    PROVE  /\ n \in Nat \ {0} /\ frames' \in Seq(Range(frames')) /\ Len(frames') = n - 1
           /\ \A i \in 1 .. n - 1 : frames'[i] = frames[i] /\ IsFrame(frames[i])
           /\ frames' # <<>> => n - 1 \in 1 .. n - 1 /\ Top' = frames[n - 1]
<1>1. n \in Nat /\ n # 0 /\ DOMAIN frames = 1 .. n BY FramesAre
<1>2. PICK S : S = Range(frames) OBVIOUS
<1>3. \A i \in 1 .. n - 1 : frames[i] \in S BY <1>1, <1>2 DEF Range
<1>4. frames' = SubSeq(frames, 1, n - 1) BY DEF Pop, Front
<1>5. /\ frames' \in Seq(S)
      /\ Len(frames') = IF 1 <= n - 1 THEN n - 1 - 1 + 1 ELSE 0
      /\ \A i \in 1 .. n - 1 - 1 + 1 : frames'[i] = frames[1 + i - 1]
  BY <1>1, <1>3, <1>4, SubSeqProperties
<1>6. Len(frames') = n - 1 /\ \A i \in 1 .. n - 1 : frames'[i] = frames[i]
  BY <1>1, <1>5
<1>7. frames' \in Seq(Range(frames')) BY <1>5, SeqOfRange
<1>8. \A i \in 1 .. n - 1 : IsFrame(frames[i]) BY <1>1 DEF TypeOK
<1>9. frames' # <<>> => n - 1 \in 1 .. n - 1 BY <1>1, <1>5, <1>6, EmptySeq
<1> QED BY <1>1, <1>6, <1>7, <1>8, <1>9 DEF Top, Last

\* A frame does not mind changes to descriptors that are not its own.
LEMMA FrameKept ==
    ASSUME NEW fr, NEW t, NEW u, IsFrame(fr), FrameFine(fr, t),
           \A f \in InternalOf(fr) : f \in DOMAIN u /\ u[f] = t[f]
    PROVE  FrameFine(fr, u)
<1>1. Kept(InternalOf(fr), u) BY DEF FrameFine, Kept, IsCloexec
<1>2. CASE fr.phase = "script"
  <2>1. fr.save \in InternalOf(fr) BY <1>2 DEF InternalOf
  <2> QED BY <1>1, <1>2, <2>1 DEF FrameFine
<1>3. CASE fr.phase # "script"
  <2>1. PICK list : list = Entries(fr) OBVIOUS
  <2>2. Undoable(list, fr.entry, t) BY <1>3, <2>1 DEF FrameFine
  <2>3. InternalOf(fr) = SavesOf(list) BY <1>3, <2>1 DEF InternalOf
  <2>4. ASSUME NEW k \in 1 .. Len(list), Restores(list[k], fr.entry, t)
        PROVE  Restores(list[k], fr.entry, u)
    <3>1. list[k].save # None => list[k].save \in SavesOf(list) BY DEF SavesOf
    <3>2. list[k].save # None => u[list[k].save] = t[list[k].save] BY <2>3, <3>1
    <3> QED BY <2>4, <3>2 DEF Restores
  <2>5. Undoable(list, fr.entry, u) BY <2>2, <2>4 DEF Undoable
  <2> QED BY <1>1, <1>3, <2>1, <2>5 DEF FrameFine
<1> QED BY <1>2, <1>3

LEMMA TopAtRest ==
    ASSUME NEW fr, NEW t, fr.phase \in {"body", "script"}
    PROVE  TopFine(fr, t)
BY DEF TopFine

\* What a step that leaves frame j alone has to care about: the descriptors
\* that are closed on exec stay as they are.
CloexecKept(t, u) == \A f \in DOMAIN t : t[f].cloexec => f \in DOMAIN u /\ u[f] = t[f]

LEMMA FrameStays ==
    ASSUME IInv, NEW j \in 1 .. Len(frames), NEW u, CloexecKept(fds, u)
    PROVE  FrameFine(frames[j], u)
<1>1. IsFrame(frames[j]) /\ FrameFine(frames[j], fds) BY DEF IInv, TypeOK, Stack
<1>2. \A f \in InternalOf(frames[j]) : f \in DOMAIN u /\ u[f] = fds[f]
  BY <1>1 DEF FrameFine, Kept, IsCloexec, CloexecKept
<1> QED BY <1>1, <1>2, FrameKept

CountersFine ==
    tty' \in FdOrNone /\ redirs' \in 0 .. MaxRedirs /\ failures' \in 0 .. redirs'

\* A step of the innermost frame.
LEMMA TopStep ==
    ASSUME IInv, frames # <<>>, NEW fr, IsFrame(fr), SetTop(fr), CountersFine,
           IsTable(fds', Ofd), FrameFine(fr, fds'), TopFine(fr, fds'),
           CloexecKept(fds, fds'),
           \A f \in InternalOf(fr) : f \in InternalOf(Top) \/ f \notin DOMAIN fds,
           \A f \in OriginalsOf(Entries(fr)) :
               f \in OriginalsOf(Entries(Top)) \/ ~IsCloexec(fds, f),
           \A f \in DOMAIN fds' : fds'[f].cloexec => f >= MinInternalFd,
           \A f \in DOMAIN fds' :
               fds'[f].ofd.foreign => fr.phase = "checking" /\ f = fr.fd,
           fr.phase \in {"reopening", "checking"} => redirs' < MaxRedirs
    PROVE  IInv'
<1>1. PICK n : n = Len(frames) OBVIOUS
<1>2. /\ n \in Nat /\ n # 0 /\ Top = frames[n] /\ Len(frames) <= MaxFrames
  BY <1>1, FramesAre DEF IInv, TypeOK
<1>3. /\ Frames(frames', n, fr)
      /\ \A i \in 1 .. n - 1 : frames'[i] = frames[i]
  BY <1>1, TopSet DEF IInv
<1>4. TypeOK' BY <1>1, <1>2, <1>3 DEF TypeOK, Frames, CountersFine
<1>5. \A i \in 1 .. n - 1 : FrameFine(frames[i], fds')
  BY <1>1, <1>2, FrameStays
<1>6. \A i \in 1 .. n : i = n \/ i \in 1 .. n - 1 BY <1>2
<1>7. frames'[n] = fr /\ Len(frames') = n /\ Top' = fr /\ frames' # <<>>
  BY <1>3 DEF Frames, Top
<1>8. \A i \in 1 .. n : FrameFine(frames'[i], fds') BY <1>3, <1>5, <1>6, <1>7
<1>9. ASSUME NEW j \in 1 .. n - 1 PROVE Apart(fr, frames[j])
  <2>1. j \in 1 .. Len(frames) /\ n \in 1 .. Len(frames) /\ j < n BY <1>1, <1>2
  <2>2. Apart(Top, frames[j]) BY <1>2, <2>1 DEF IInv, Stack
  <2>3. \A f \in InternalOf(frames[j]) : IsCloexec(fds, f) /\ f \in DOMAIN fds
    BY <2>1 DEF IInv, Stack, FrameFine, Kept, IsCloexec
  <2> QED BY <2>2, <2>3 DEF Apart
<1>10. ASSUME NEW i \in 1 .. n, NEW j \in 1 .. n, j < i
       PROVE  Apart(frames'[i], frames'[j])
  <2>1. j \in 1 .. n - 1 /\ frames'[j] = frames[j] BY <1>2, <1>3, <1>10
  <2>2. CASE i = n BY <1>7, <1>9, <2>1, <2>2
  <2>3. CASE i # n
    <3>1. i \in 1 .. n - 1 /\ frames'[i] = frames[i] BY <1>3, <1>6, <2>3
    <3>2. Apart(frames[i], frames[j]) BY <1>1, <1>10 DEF IInv, Stack
    <3> QED BY <2>1, <3>1, <3>2
  <2> QED BY <2>2, <2>3
<1>11. \A i \in 1 .. n - 1 : frames'[i].phase \in {"body", "script"}
  BY <1>1, <1>3 DEF IInv, Stack
<1>12. Stack' BY <1>7, <1>8, <1>10, <1>11 DEF Stack
<1>13. Reserved' /\ Foreign' BY <1>7 DEF Reserved, Foreign
<1> QED BY <1>4, <1>12, <1>13 DEF IInv

\* A step that pushes a frame which has saved nothing yet.
LEMMA PushStep ==
    ASSUME IInv, InBody, Len(frames) < MaxFrames, NEW fr, IsFrame(fr), Push(fr),
           CountersFine, fr.saved = <<>>, fr.phase \in {"redirecting", "script"},
           IsTable(fds', Ofd), FrameFine(fr, fds'), TopFine(fr, fds'),
           CloexecKept(fds, fds'),
           \A f \in InternalOf(fr) : f \notin DOMAIN fds,
           \A f \in DOMAIN fds' : fds'[f].cloexec => f >= MinInternalFd,
           \A f \in DOMAIN fds' : ~fds'[f].ofd.foreign
    PROVE  IInv'
<1>1. PICK n : n = Len(frames) OBVIOUS
<1>2. n \in Nat /\ n + 1 <= MaxFrames
  BY <1>1, FramesAre, RedirectionAssumption DEF IInv
<1>3. /\ Frames(frames', n + 1, fr)
      /\ \A i \in 1 .. n : frames'[i] = frames[i]
  BY <1>1, Pushed DEF IInv
<1>4. TypeOK' BY <1>1, <1>2, <1>3 DEF TypeOK, Frames, CountersFine
<1>5. \A i \in 1 .. n : FrameFine(frames[i], fds') BY <1>1, FrameStays
<1>6. \A i \in 1 .. n + 1 : i = n + 1 \/ i \in 1 .. n BY <1>2
<1>7. frames'[n + 1] = fr /\ Len(frames') = n + 1 /\ Top' = fr /\ frames' # <<>>
  BY <1>3 DEF Frames, Top
<1>8. \A i \in 1 .. n + 1 : FrameFine(frames'[i], fds') BY <1>3, <1>5, <1>6, <1>7
<1>9. ASSUME NEW j \in 1 .. n PROVE Apart(fr, frames[j])
  <2>1. \A f \in InternalOf(frames[j]) : f \in DOMAIN fds
    BY <1>1 DEF IInv, Stack, FrameFine, Kept, IsCloexec
  <2>2. OriginalsOf(Entries(fr)) = {} BY DEF Entries, OriginalsOf
  <2> QED BY <2>1, <2>2 DEF Apart
<1>10. ASSUME NEW i \in 1 .. n + 1, NEW j \in 1 .. n + 1, j < i
       PROVE  Apart(frames'[i], frames'[j])
  <2>1. j \in 1 .. n /\ frames'[j] = frames[j] BY <1>2, <1>3, <1>10
  <2>2. CASE i = n + 1 BY <1>7, <1>9, <2>1, <2>2
  <2>3. CASE i # n + 1
    <3>1. i \in 1 .. n /\ frames'[i] = frames[i] BY <1>3, <1>6, <2>3
    <3>2. Apart(frames[i], frames[j]) BY <1>1, <1>10, <2>1, <3>1 DEF IInv, Stack
    <3> QED BY <2>1, <3>1, <3>2
  <2> QED BY <2>2, <2>3
<1>11. ASSUME NEW i \in 1 .. n PROVE frames'[i].phase \in {"body", "script"}
  <2>1. CASE i = n
    <3>1. frames # <<>> /\ Top = frames[n] BY <1>1, <2>1, FramesAre DEF IInv
    <3> QED BY <1>3, <2>1, <3>1 DEF InBody
  <2>2. CASE i # n
    <3>1. i \in 1 .. Len(frames) - 1 BY <1>1, <1>2, <2>2
    <3> QED BY <1>3, <3>1 DEF IInv, Stack
  <2> QED BY <2>1, <2>2
<1>12. Stack'
  <2>1. TopFine(Top', fds') BY <1>7
  <2>2. Top'.phase \notin {"reopening", "checking"} BY <1>7
  <2>3. \A i \in 1 .. Len(frames') - 1 : frames'[i].phase \in {"body", "script"}
    BY <1>2, <1>7, <1>11
  <2>4. \A i \in 1 .. Len(frames') : FrameFine(frames'[i], fds') BY <1>7, <1>8
  <2>5. \A i, j \in 1 .. Len(frames') : j < i => Apart(frames'[i], frames'[j])
    BY <1>7, <1>10
  <2> QED BY <2>1, <2>2, <2>3, <2>4, <2>5 DEF Stack
<1>13. Reserved' /\ Foreign' BY <1>7 DEF Reserved, Foreign
<1> QED BY <1>4, <1>12, <1>13 DEF IInv

\* A step that pops a frame.
LEMMA PopStep ==
    ASSUME IInv, frames # <<>>, Pop, UNCHANGED <<tty, redirs, failures>>,
           IsTable(fds', Ofd),
           \A j \in 1 .. Len(frames) - 1 : \A f \in InternalOf(frames[j]) :
               f \in DOMAIN fds' /\ fds'[f] = fds[f],
           \A f \in DOMAIN fds' : fds'[f].cloexec => f >= MinInternalFd,
           \A f \in DOMAIN fds' : ~fds'[f].ofd.foreign
    PROVE  IInv'
<1>1. PICK n : n = Len(frames) OBVIOUS
<1>2. /\ n \in Nat \ {0} /\ frames' \in Seq(Range(frames')) /\ Len(frames') = n - 1
      /\ \A i \in 1 .. n - 1 : frames'[i] = frames[i] /\ IsFrame(frames[i])
      /\ frames' # <<>> => n - 1 \in 1 .. n - 1 /\ Top' = frames[n - 1]
  BY <1>1, Popped DEF IInv
<1>3. TypeOK' BY <1>1, <1>2, RedirectionAssumption DEF IInv, TypeOK
<1>4. \A i \in 1 .. n - 1 : i \in 1 .. Len(frames) BY <1>1, <1>2
<1>5. ASSUME NEW i \in 1 .. n - 1 PROVE FrameFine(frames'[i], fds')
  <2>1. FrameFine(frames[i], fds) BY <1>4 DEF IInv, Stack
  <2>2. \A f \in InternalOf(frames[i]) : f \in DOMAIN fds' /\ fds'[f] = fds[f] BY <1>1
  <2> QED BY <1>2, <2>1, <2>2, FrameKept
<1>6. \A i, j \in 1 .. n - 1 : j < i => Apart(frames'[i], frames'[j])
  BY <1>2, <1>4 DEF IInv, Stack
<1>7. \A i \in 1 .. n - 1 : frames'[i].phase \in {"body", "script"}
  BY <1>1, <1>2 DEF IInv, Stack
<1>8. \A i \in 1 .. n - 1 - 1 : i \in 1 .. n - 1 BY <1>2
<1>9. frames' # <<>> => Top'.phase \in {"body", "script"} BY <1>2, <1>7
<1>10. frames' # <<>> => TopFine(Top', fds') BY <1>9, TopAtRest
<1>11. Stack'
  <2>1. frames' # <<>> => Top'.phase \notin {"reopening", "checking"} BY <1>9
  <2> QED BY <1>2, <1>5, <1>6, <1>7, <1>8, <1>10, <2>1 DEF Stack
<1>12. Reserved' /\ Foreign' BY DEF Reserved, Foreign
<1> QED BY <1>3, <1>11, <1>12 DEF IInv

\* A step of the command in the body, which has no frame of its own.
LEMMA BodyStep ==
    ASSUME IInv, InBody, UNCHANGED frames, CountersFine,
           IsTable(fds', Ofd), CloexecKept(fds, fds'),
           \A f \in DOMAIN fds' : fds'[f].cloexec => f >= MinInternalFd,
           \A f \in DOMAIN fds' : ~fds'[f].ofd.foreign
    PROVE  IInv'
<1>1. TypeOK' BY DEF IInv, TypeOK, CountersFine
<1>2. \A i \in 1 .. Len(frames) : FrameFine(frames'[i], fds') BY FrameStays
<1>3. frames # <<>> => Top'.phase \in {"body", "script"} BY DEF InBody, Top
<1>4. frames' # <<>> => TopFine(Top', fds') BY <1>3, TopAtRest
<1>5. Stack' BY <1>2, <1>3, <1>4 DEF IInv, Stack
<1>6. Reserved' /\ Foreign' BY DEF Reserved, Foreign
<1> QED BY <1>1, <1>5, <1>6 DEF IInv

-----------------------------------------------------------------------------
(***************************************************************************)
(* The shell's own descriptors that nothing uses any more.                 *)
(***************************************************************************)

Bounded == LeakBounded => LeakBounded'

\* What the frames use.
InUse(list) == UNION {InternalOf(list[i]) : i \in 1 .. Len(list)}

LEMMA StrayIs ==
    ASSUME NEW f
    PROVE  /\ f \in Stray <=> IsCloexec(fds, f) /\ f \notin InUse(frames) /\ f # tty
           /\ f \in Stray' <=> IsCloexec(fds', f) /\ f \notin InUse(frames') /\ f # tty'
<1>1. UNION {Internal(i) : i \in 1 .. Len(frames)} = InUse(frames) BY DEF Internal, InUse
<1>2. UNION {Internal(i)' : i \in 1 .. Len(frames')} = InUse(frames') BY DEF Internal, InUse
<1>3. f \in Stray <=> IsCloexec(fds, f) /\ f \notin InUse(frames) /\ f # tty
  BY <1>1 DEF Stray, IsCloexec
<1>4. f \in Stray' <=> IsCloexec(fds', f) /\ f \notin InUse(frames') /\ f # tty'
  BY <1>2 DEF Stray, IsCloexec
<1> QED BY <1>3, <1>4

\* One descriptor more may go astray if it is counted as a failure.
LEMMA LeakAtMost ==
    ASSUME IInv, NEW x, \A f \in Stray' : f \in Stray \/ (f = x /\ x # None),
           failures' = IF x = None THEN failures ELSE failures + 1
    PROVE  Bounded
<1>1. DOMAIN fds \subseteq 0 .. OpenMax - 1 BY DEF IInv, TypeOK, IsTable
<1>2. Stray \subseteq 0 .. OpenMax - 1 BY <1>1 DEF Stray
<1>3. IsFiniteSet(0 .. OpenMax - 1) BY OpenMaxAssumption, FS_Interval
<1>4. IsFiniteSet(Stray) /\ Cardinality(Stray) \in Nat
  BY <1>2, <1>3, FS_Subset, FS_CardinalityType
<1>5. failures \in Int BY DEF IInv, TypeOK
<1>6. PICK S : S = Stray' OBVIOUS
<1>7. CASE x = None
  <2>1. S \subseteq Stray BY <1>6, <1>7
  <2>2. Cardinality(S) <= Cardinality(Stray) BY <1>4, <2>1, FS_Subset
  <2>3. Cardinality(S) \in Nat BY <1>4, <2>1, FS_Subset, FS_CardinalityType
  <2> QED BY <1>4, <1>5, <1>6, <1>7, <2>2, <2>3 DEF Bounded, LeakBounded
<1>8. CASE x # None
  <2>1. PICK T : T = Stray \union {x} OBVIOUS
  <2>2. IsFiniteSet(T) /\ Cardinality(T) \in Nat /\ Cardinality(T) <= Cardinality(Stray) + 1
    <3>1. /\ IsFiniteSet(T)
          /\ Cardinality(T) = IF x \in Stray THEN Cardinality(Stray) ELSE Cardinality(Stray) + 1
      BY <1>4, <2>1, FS_AddElement
    <3> QED BY <1>4, <3>1
  <2>3. S \subseteq T BY <1>6, <2>1
  <2>4. Cardinality(S) <= Cardinality(T) BY <2>2, <2>3, FS_Subset
  <2>5. Cardinality(S) \in Nat BY <2>2, <2>3, FS_Subset, FS_CardinalityType
  <2> QED BY <1>4, <1>5, <1>6, <1>8, <2>2, <2>4, <2>5 DEF Bounded, LeakBounded
<1> QED BY <1>7, <1>8

LEMMA NoneLeaks ==
    ASSUME IInv, \A f \in Stray' : f \in Stray, UNCHANGED failures
    PROVE  Bounded
<1>1. PICK x : x = None OBVIOUS
<1> QED BY <1>1, LeakAtMost

\* A step of the innermost frame, in which at most x goes astray.
LEMMA TopLeaks ==
    ASSUME IInv, frames # <<>>, NEW fr, IsFrame(fr), SetTop(fr), UNCHANGED tty,
           IsTable(fds', Ofd), NEW x,
           \A f : IsCloexec(fds', f) => f = x \/ f \in InternalOf(fr) \/ IsCloexec(fds, f),
           \A f \in InternalOf(Top) : f \in InternalOf(fr) \/ (f = x /\ x # None)
    PROVE  \A f \in Stray' : f \in Stray \/ (f = x /\ x # None)
<1> SUFFICES ASSUME NEW f \in Stray', ~(f = x /\ x # None) PROVE f \in Stray
  OBVIOUS
<1>1. PICK n : n = Len(frames) OBVIOUS
<1>2. n \in Nat /\ n # 0 /\ Top = frames[n] BY <1>1, FramesAre DEF IInv
<1>3. /\ Frames(frames', n, fr)
      /\ \A i \in 1 .. n - 1 : frames'[i] = frames[i]
  BY <1>1, TopSet DEF IInv
<1>4. IsCloexec(fds', f) /\ f \notin InUse(frames') /\ f # tty BY StrayIs
<1>5. f # None BY <1>4 DEF IsCloexec, IsTable, None
<1>6. Len(frames') = n /\ frames'[n] = fr BY <1>3 DEF Frames
<1>7. \A i \in 1 .. n : f \notin InternalOf(frames'[i]) BY <1>4, <1>6 DEF InUse
<1>8. f \notin InternalOf(fr) BY <1>2, <1>6, <1>7
<1>9. f # x BY <1>5
<1>10. IsCloexec(fds, f) BY <1>4, <1>8, <1>9
<1>11. ASSUME NEW i \in 1 .. n PROVE f \notin InternalOf(frames[i])
  <2>1. CASE i = n BY <1>2, <1>8, <1>9, <2>1
  <2>2. CASE i # n
    <3>1. i \in 1 .. n - 1 BY <1>2, <2>2
    <3> QED BY <1>3, <1>7, <3>1
  <2> QED BY <2>1, <2>2
<1>12. f \notin InUse(frames) BY <1>1, <1>11 DEF InUse
<1> QED BY <1>4, <1>10, <1>12, StrayIs

\* Steps that push and pop a frame.
LEMMA PushLeaks ==
    ASSUME IInv, NEW fr, IsFrame(fr), Push(fr), UNCHANGED <<tty, failures>>,
           \A f : IsCloexec(fds', f) => f \in InternalOf(fr) \/ IsCloexec(fds, f)
    PROVE  Bounded
<1>1. PICK n : n = Len(frames) OBVIOUS
<1>2. n \in Nat BY <1>1, FramesAre DEF IInv
<1>3. /\ Frames(frames', n + 1, fr)
      /\ \A i \in 1 .. n : frames'[i] = frames[i]
  BY <1>1, Pushed DEF IInv
<1>4. Len(frames') = n + 1 /\ frames'[n + 1] = fr BY <1>3 DEF Frames
<1>5. ASSUME NEW f \in Stray' PROVE f \in Stray
  <2>1. IsCloexec(fds', f) /\ f \notin InUse(frames') /\ f # tty BY <1>5, StrayIs
  <2>2. \A i \in 1 .. n + 1 : f \notin InternalOf(frames'[i]) BY <1>4, <2>1 DEF InUse
  <2>3. f \notin InternalOf(fr)
    <3>1. n + 1 \in 1 .. n + 1 BY <1>2
    <3> QED BY <1>4, <2>2, <3>1
  <2>4. \A i \in 1 .. n : f \notin InternalOf(frames[i])
    <3>1. \A i \in 1 .. n : i \in 1 .. n + 1 BY <1>2
    <3> QED BY <1>3, <2>2, <3>1
  <2>5. f \notin InUse(frames) BY <1>1, <2>4 DEF InUse
  <2> QED BY <2>1, <2>3, <2>5, StrayIs
<1> QED BY <1>5, NoneLeaks

LEMMA PopLeaks ==
    ASSUME IInv, frames # <<>>, Pop, UNCHANGED <<tty, failures>>,
           \A f : IsCloexec(fds', f) => IsCloexec(fds, f) /\ f \notin InternalOf(Top)
    PROVE  Bounded
<1>1. PICK n : n = Len(frames) OBVIOUS
<1>2. n \in Nat /\ n # 0 /\ Top = frames[n] BY <1>1, FramesAre DEF IInv
<1>3. Len(frames') = n - 1 /\ \A i \in 1 .. n - 1 : frames'[i] = frames[i]
  BY <1>1, Popped DEF IInv
<1>4. ASSUME NEW f \in Stray' PROVE f \in Stray
  <2>1. IsCloexec(fds', f) /\ f \notin InUse(frames') /\ f # tty BY <1>4, StrayIs
  <2>2. \A i \in 1 .. n - 1 : f \notin InternalOf(frames'[i]) BY <1>3, <2>1 DEF InUse
  <2>3. ASSUME NEW i \in 1 .. n PROVE f \notin InternalOf(frames[i])
    <3>1. CASE i = n BY <1>2, <2>1, <3>1
    <3>2. CASE i # n
      <4>1. i \in 1 .. n - 1 BY <1>2, <3>2
      <4> QED BY <1>3, <2>2, <4>1
    <3> QED BY <3>1, <3>2
  <2>4. f \notin InUse(frames) BY <1>1, <2>3 DEF InUse
  <2> QED BY <2>1, <2>4, StrayIs
<1> QED BY <1>4, NoneLeaks

-----------------------------------------------------------------------------
(***************************************************************************)
(* The start, and the ends of commands.                                    *)
(***************************************************************************)

LEMMA MinOfTwo ==
    ASSUME NEW a \in Int, NEW b \in Int, NEW m, m = Min({a, b})
    PROVE  m <= a /\ m <= b /\ m \in Int
<1>1. \E x \in {a, b} : \A y \in {a, b} : x <= y
  <2>1. CASE a <= b BY <2>1
  <2>2. CASE b <= a BY <2>2
  <2> QED BY <2>1, <2>2
<1> QED BY <1>1 DEF Min

LEMMA InitIInv == Init => IInv
<1> SUFFICES ASSUME Init PROVE IInv OBVIOUS
<1>1. PICK m : m = Min({2, MinInternalFd - 1}) OBVIOUS
<1>2. m \in Int /\ m <= 2
  <2>1. 2 \in Int /\ MinInternalFd - 1 \in Int BY RedirectionAssumption
  <2> QED BY <1>1, <2>1, MinOfTwo
<1>3. PICK D \in SUBSET (0 .. m) :
          fds = [f \in D |-> Body([id |-> f, access |-> "ReadWrite", foreign |-> FALSE],
                                  FALSE)]
  BY <1>1 DEF Init
<1>4. D \subseteq 0 .. 2 BY <1>2
<1>5. ASSUME NEW f \in D
      PROVE  fds[f] \in Bodies /\ ~fds[f].cloexec /\ ~fds[f].ofd.foreign
  <2>1. f \in Ofds BY <1>4, RedirectionAssumption
  <2>2. PICK o : o = [id |-> f, access |-> "ReadWrite", foreign |-> FALSE] OBVIOUS
  <2>3. o \in Ofd /\ ~o.foreign BY <2>1, <2>2 DEF Ofd, Access
  <2>4. fds[f] = Body(o, FALSE) BY <1>3, <2>2
  <2> QED BY <2>3, <2>4, BodyIsBody
<1>6. IsTable(fds, Ofd)
  <2>1. DOMAIN fds = D BY <1>3
  <2>2. D \subseteq 0 .. OpenMax - 1 BY <1>4, OpenMaxAssumption, RedirectionAssumption
  <2>3. fds \in [D -> Bodies] BY <1>3, <1>5, <2>1
  <2> QED BY <2>1, <2>2, <2>3 DEF IsTable, Bodies
<1>7. frames = <<>> /\ Len(frames) = 0 /\ frames \in Seq(Range(frames))
  BY EmptySeq DEF Init
<1>8. TypeOK
  BY <1>6, <1>7, RedirectionAssumption DEF Init, TypeOK, FdOrNone
<1>9. Stack BY <1>7 DEF Stack
<1>10. Reserved /\ Foreign BY <1>3, <1>5 DEF Reserved, Foreign
<1> QED BY <1>8, <1>9, <1>10 DEF IInv

\* What the innermost frame is.
LEMMA TopFrame ==
    ASSUME IInv, frames # <<>>
    PROVE  /\ IsFrame(Top) /\ FrameFine(Top, fds) /\ TopFine(Top, fds)
           /\ Len(frames) \in 1 .. Len(frames) /\ Top = frames[Len(frames)]
           /\ \A j \in 1 .. Len(frames) - 1 : Apart(Top, frames[j])
<1>1. PICK n : n = Len(frames) OBVIOUS
<1>2. n \in Nat /\ n # 0 /\ Top = frames[n] /\ IsFrame(Top) BY <1>1, FramesAre DEF IInv
<1>3. \A j \in 1 .. n - 1 : n \in 1 .. n /\ j \in 1 .. n /\ j < n BY <1>2
<1>4. \A j \in 1 .. n - 1 : Apart(Top, frames[j]) BY <1>1, <1>2, <1>3 DEF IInv, Stack
<1> QED BY <1>1, <1>2, <1>4 DEF IInv, Stack

\* Outside the check of noclobber, no foreign file is open.
LEMMA NoneForeign ==
    ASSUME IInv, frames # <<>> => Top.phase # "checking", NEW f \in DOMAIN fds
    PROVE  ~fds[f].ofd.foreign
BY DEF IInv, Foreign

LEMMA UndoDoes ==
    ASSUME IInv, Undo
    PROVE  /\ CanUndo(Top.saved, fds)
           /\ Undone(fds, Top.saved, 1, fds')
           /\ Undoable(Top.saved, Top.entry, fds)
           /\ InternalOf(Top) = SavesOf(Top.saved) /\ Entries(Top) = Top.saved
<1>1. frames # <<>> /\ Top.phase \in {"body", "failed"} BY DEF Undo
<1>2. /\ Entries(Top) = Top.saved
      /\ InternalOf(Top) = SavesOf(Top.saved)
  BY <1>1 DEF InternalOf, Entries
<1>3. Undoable(Top.saved, Top.entry, fds) /\ Kept(SavesOf(Top.saved), fds)
  BY <1>1, <1>2, TopFrame DEF FrameFine
<1>4. \A k \in 1 .. Len(Top.saved) :
          Top.saved[k].save # None => Top.saved[k].save \in DOMAIN fds
  BY <1>3 DEF Kept, SavesOf, IsCloexec
<1>5. CanUndo(Top.saved, fds) BY <1>3, <1>4 DEF CanUndo, Undoable
<1>6. IsTable(fds, Ofd) BY DEF IInv, TypeOK
<1>7. fds' = UndoAll(fds, Top.saved) BY DEF Undo
<1>8. PICK u : u = fds' OBVIOUS
<1>9. Undone(fds, Top.saved, 1, u) BY <1>5, <1>6, <1>7, <1>8, AllUndone
<1> QED BY <1>2, <1>3, <1>5, <1>8, <1>9

\* What no entry speaks of is left alone.
LEMMA UndoSpares ==
    ASSUME NEW t, NEW list, NEW u, Undone(t, list, 1, u),
           NEW f, f # None, f \notin SavesOf(list), f \notin OriginalsOf(list)
    PROVE  (f \in DOMAIN u <=> f \in DOMAIN t) /\ (f \in DOMAIN t => u[f] = t[f])
<1>1. \A m \in 1 .. Len(list) : f # list[m].original /\ f # list[m].save
  BY DEF SavesOf, OriginalsOf
<1> QED BY <1>1 DEF Undone

LEMMA UndoKeeps ==
    ASSUME IInv, Undo
    PROVE  IInv' /\ Bounded
<1>1. frames # <<>> /\ Top.phase \in {"body", "failed"} /\ Pop
      /\ UNCHANGED <<tty, redirs, failures>>
  BY DEF Undo
<1>2. /\ Undone(fds, Top.saved, 1, fds')
      /\ InternalOf(Top) = SavesOf(Top.saved) /\ Entries(Top) = Top.saved
  BY UndoDoes
<1>3. IsTable(fds', Ofd) BY <1>2 DEF Undone
<1>4. ASSUME NEW j \in 1 .. Len(frames) - 1, NEW f \in InternalOf(frames[j])
      PROVE  f \in DOMAIN fds' /\ fds'[f] = fds[f]
  <2>1. Apart(Top, frames[j]) BY <1>1, TopFrame
  <2>2. f \notin SavesOf(Top.saved) /\ f \notin OriginalsOf(Top.saved)
    BY <1>2, <2>1 DEF Apart
  <2>3. j \in 1 .. Len(frames) BY FramesAre DEF IInv
  <2>4. f >= MinInternalFd /\ f \in DOMAIN fds
    BY <2>3 DEF IInv, Stack, FrameFine, Kept, IsCloexec
  <2>5. f # None BY <2>4, InTable DEF IInv, TypeOK, Below, None
  <2> QED BY <1>2, <2>2, <2>4, <2>5, UndoSpares
<1>5. ASSUME NEW f \in DOMAIN fds'
      PROVE  /\ fds'[f].cloexec => f >= MinInternalFd
             /\ ~fds'[f].ofd.foreign
  <2>1. CASE f \in DOMAIN fds /\ fds'[f] = fds[f]
    BY <1>1, <2>1, NoneForeign DEF IInv, Reserved
  <2>2. CASE \E s \in DOMAIN fds : fds'[f] = Body(fds[s].ofd, FALSE)
    <3>1. PICK s \in DOMAIN fds : fds'[f] = Body(fds[s].ofd, FALSE) BY <2>2
    <3>2. ~fds[s].ofd.foreign BY <1>1, NoneForeign
    <3> QED BY <3>1, <3>2 DEF Body
  <2> QED BY <1>2, <2>1, <2>2 DEF Undone
<1>6. ASSUME NEW f, IsCloexec(fds', f)
      PROVE  IsCloexec(fds, f) /\ f \notin InternalOf(Top)
  <2>1. f \in DOMAIN fds' /\ fds'[f].cloexec BY <1>6 DEF IsCloexec
  <2>2. f \in DOMAIN fds /\ fds'[f] = fds[f] BY <1>2, <2>1 DEF Undone, Body
  <2>3. f \notin SavesOf(Top.saved) BY <1>2, <1>6 DEF Undone, SavesOf
  <2> QED BY <1>2, <2>1, <2>2, <2>3 DEF IsCloexec
<1>7. IInv' BY <1>1, <1>3, <1>4, <1>5, PopStep
<1>8. Bounded BY <1>1, <1>6, PopLeaks
<1> QED BY <1>7, <1>8

\* exec: the saved descriptors go, the redirections stay.
LEMMA PreserveKeeps ==
    ASSUME IInv, Preserve
    PROVE  IInv' /\ Bounded
<1>1. frames # <<>> /\ Top.phase = "body" /\ Pop
      /\ UNCHANGED <<tty, redirs, failures>>
      /\ fds' = [f \in DOMAIN fds \ SavesOf(Top.saved) |-> fds[f]]
  BY DEF Preserve
<1>2. InternalOf(Top) = SavesOf(Top.saved) BY <1>1 DEF InternalOf, Entries
<1>3. IsTable(fds', Ofd) BY <1>1 DEF IInv, TypeOK, IsTable
<1>4. ASSUME NEW j \in 1 .. Len(frames) - 1, NEW f \in InternalOf(frames[j])
      PROVE  f \in DOMAIN fds' /\ fds'[f] = fds[f]
  <2>1. Apart(Top, frames[j]) BY <1>1, TopFrame
  <2>2. f \notin SavesOf(Top.saved) BY <1>2, <2>1 DEF Apart
  <2>3. j \in 1 .. Len(frames) BY FramesAre DEF IInv
  <2>4. f \in DOMAIN fds BY <2>3 DEF IInv, Stack, FrameFine, Kept, IsCloexec
  <2> QED BY <1>1, <2>2, <2>4
<1>5. ASSUME NEW f \in DOMAIN fds'
      PROVE  /\ fds'[f].cloexec => f >= MinInternalFd
             /\ ~fds'[f].ofd.foreign
  <2>1. f \in DOMAIN fds /\ fds'[f] = fds[f] BY <1>1
  <2> QED BY <1>1, <2>1, NoneForeign DEF IInv, Reserved
<1>6. \A f : IsCloexec(fds', f) => IsCloexec(fds, f) /\ f \notin InternalOf(Top)
  BY <1>1, <1>2 DEF IsCloexec
<1>7. IInv' BY <1>1, <1>3, <1>4, <1>5, PopStep
<1>8. Bounded BY <1>1, <1>6, PopLeaks
<1> QED BY <1>7, <1>8

\* The end of a script.
LEMMA DotEndKeeps ==
    ASSUME IInv, DotEnd
    PROVE  IInv' /\ Bounded
<1>1. frames # <<>> /\ Top.phase = "script" /\ Pop
      /\ UNCHANGED <<tty, redirs, failures>>
      /\ fds' = CloseFd(fds, Top.save)
  BY DEF DotEnd
<1>2. Top.save \in InternalOf(Top) /\ InternalOf(Top) = {Top.save} BY <1>1 DEF InternalOf
<1>3. IsTable(fds', Ofd) /\ Without(fds, Top.save, fds')
  BY <1>1, CloseRemoves DEF IInv, TypeOK
<1>4. ASSUME NEW j \in 1 .. Len(frames) - 1, NEW f \in InternalOf(frames[j])
      PROVE  f \in DOMAIN fds' /\ fds'[f] = fds[f]
  <2>1. Apart(Top, frames[j]) BY <1>1, TopFrame
  <2>2. f # Top.save BY <1>2, <2>1 DEF Apart
  <2>3. j \in 1 .. Len(frames) BY FramesAre DEF IInv
  <2>4. f \in DOMAIN fds BY <2>3 DEF IInv, Stack, FrameFine, Kept, IsCloexec
  <2> QED BY <1>3, <2>2, <2>4 DEF Without
<1>5. ASSUME NEW f \in DOMAIN fds'
      PROVE  /\ fds'[f].cloexec => f >= MinInternalFd
             /\ ~fds'[f].ofd.foreign
  <2>1. f \in DOMAIN fds /\ fds'[f] = fds[f] BY <1>3 DEF Without
  <2> QED BY <1>1, <2>1, NoneForeign DEF IInv, Reserved
<1>6. \A f : IsCloexec(fds', f) => IsCloexec(fds, f) /\ f \notin InternalOf(Top)
  BY <1>2, <1>3 DEF IsCloexec, Without
<1>7. IInv' BY <1>1, <1>3, <1>4, <1>5, PopStep
<1>8. Bounded BY <1>1, <1>6, PopLeaks
<1> QED BY <1>7, <1>8

-----------------------------------------------------------------------------
(***************************************************************************)
(* What the shell opens for itself, and the starts of commands.            *)
(***************************************************************************)

LEMMA InternalOpened ==
    ASSUME NEW t, IsTable(t, Ofd), CanOpenInternal(t), NEW o \in Ofd,
           NEW u, u = OpenInternal(t, o), NEW g, g = InternalFd(t)
    PROVE  /\ IsTable(u, Ofd)
           /\ g \in Below \ DOMAIN t /\ g >= MinInternalFd
           /\ Replaced(t, g, Body(o, TRUE), u)
<1>1. PICK b : b = Body(o, TRUE) OBVIOUS
<1>2. b \in Bodies /\ b.ofd = o BY <1>1, BodyIsBody
<1>3. PICK first : first = MinUnusedFd(t, 0) OBVIOUS
<1>4. CanOpen(t, 0) /\ g < OpenMax BY DEF CanOpenInternal
<1>5. first \in Below \ DOMAIN t BY <1>3, <1>4, OpensFree
<1>6. PICK w : w = OpenFd(t, 0, b) OBVIOUS
<1>7. IsTable(w, Ofd) /\ Replaced(t, first, b, w)
  BY <1>2, <1>3, <1>4, <1>6, OpenReplaces
<1>8. u = MoveFdInternal(w, first) BY <1>1, <1>3, <1>6 DEF OpenInternal
<1>9. CASE first >= MinInternalFd
  <2>1. u = w BY <1>8, <1>9 DEF MoveFdInternal
  <2>2. g = first BY <1>3, <1>9 DEF InternalFd
  <2> QED BY <1>1, <1>5, <1>7, <1>9, <2>1, <2>2
<1>10. CASE ~(first >= MinInternalFd)
  <2>1. u = CloseFd(Dup(w, first, MinInternalFd, TRUE), first)
    BY <1>8, <1>10 DEF MoveFdInternal
  <2>2. PICK z : z = SetFd(t, first, Body(0, TRUE)) OBVIOUS
  <2>3. g = MinUnusedFd(z, MinInternalFd) BY <1>3, <1>10, <2>2 DEF InternalFd
  <2>4. DOMAIN z = DOMAIN w BY <1>7, <2>2 DEF SetFd, Replaced
  <2>5. g = MinUnusedFd(w, MinInternalFd) BY <2>3, <2>4 DEF MinUnusedFd
  <2>6. CanOpen(w, MinInternalFd) BY <1>4, <2>5 DEF CanOpen
  <2>7. MinInternalFd \in Nat BY RedirectionAssumption
  <2>8. g \in Below \ DOMAIN w /\ g >= MinInternalFd
    BY <1>7, <2>5, <2>6, <2>7, OpensFree
  <2>9. w[first].ofd = o BY <1>2, <1>7 DEF Replaced
  <2>10. PICK x : x = OpenFd(w, MinInternalFd, b) OBVIOUS
  <2>11. IsTable(x, Ofd) /\ Replaced(w, g, b, x)
    BY <1>2, <1>7, <2>5, <2>6, <2>7, <2>10, OpenReplaces
  <2>12. u = CloseFd(x, first) BY <1>1, <2>1, <2>9, <2>10 DEF Dup
  <2>13. IsTable(u, Ofd) /\ Without(x, first, u) BY <2>11, <2>12, CloseRemoves
  <2>14. first # g BY <1>7, <2>8 DEF Replaced
  <2>15. Replaced(t, g, b, u)
    BY <1>5, <1>7, <2>11, <2>13, <2>14 DEF Replaced, Without
  <2> QED BY <1>1, <1>7, <2>8, <2>13, <2>15 DEF Replaced
<1> QED BY <1>9, <1>10

\* A table with a new descriptor of the shell in it.
LEMMA InternalAdded ==
    ASSUME IInv, InBody, Fresh # {}, CanOpenInternal(fds), NEW access \in Access,
           fds' = OpenInternal(fds, NewOfd(access)), NEW g, g = InternalFd(fds)
    PROVE  /\ IsTable(fds', Ofd) /\ CloexecKept(fds, fds')
           /\ g \in Below \ DOMAIN fds /\ g >= MinInternalFd /\ IsCloexec(fds', g)
           /\ \A f \in DOMAIN fds' : fds'[f].cloexec => f >= MinInternalFd
           /\ \A f \in DOMAIN fds' : ~fds'[f].ofd.foreign
           /\ \A f : IsCloexec(fds', f) => f = g \/ IsCloexec(fds, f)
<1>1. PICK o : o = NewOfd(access) OBVIOUS
<1>2. o \in Ofd /\ ~o.foreign BY <1>1, NewIsOfd
<1>3. IsTable(fds, Ofd) BY DEF IInv, TypeOK
<1>4. PICK u : u = OpenInternal(fds, o) OBVIOUS
<1>5. /\ IsTable(u, Ofd)
      /\ g \in Below \ DOMAIN fds /\ g >= MinInternalFd
      /\ Replaced(fds, g, Body(o, TRUE), u)
  BY <1>2, <1>3, <1>4, InternalOpened
<1>6. u = fds' BY <1>1, <1>4
<1>7. CloexecKept(fds, u) BY <1>5 DEF CloexecKept, Replaced
<1>8. g \in DOMAIN u /\ u[g] = Body(o, TRUE) BY <1>5 DEF Replaced
<1>9. u[g].cloexec /\ ~u[g].ofd.foreign BY <1>2, <1>8, BodyIsBody
<1>10. ASSUME NEW f \in DOMAIN u
       PROVE  (u[f].cloexec => f >= MinInternalFd) /\ ~u[f].ofd.foreign
  <2>1. CASE f = g BY <1>5, <1>9, <2>1
  <2>2. CASE f # g
    <3>1. f \in DOMAIN fds /\ u[f] = fds[f] BY <1>5, <2>2 DEF Replaced
    <3> QED BY <3>1, NoneForeign DEF InBody, IInv, Reserved
  <2> QED BY <2>1, <2>2
<1>11. \A f : IsCloexec(u, f) => f = g \/ IsCloexec(fds, f)
  BY <1>5 DEF IsCloexec, Replaced
<1> QED BY <1>5, <1>6, <1>7, <1>8, <1>9, <1>10, <1>11 DEF IsCloexec

LEMMA GetTtyKeeps ==
    ASSUME IInv, GetTty
    PROVE  IInv' /\ Bounded
<1>1. PICK g : g = InternalFd(fds) OBVIOUS
<1>2. InBody /\ Fresh # {} /\ CanOpenInternal(fds) /\ tty = None /\ tty' = g
      /\ fds' = OpenInternal(fds, NewOfd("ReadWrite"))
      /\ UNCHANGED <<frames, redirs, failures>>
  BY <1>1 DEF GetTty
<1>3. "ReadWrite" \in Access BY DEF Access
<1>4. /\ IsTable(fds', Ofd) /\ CloexecKept(fds, fds')
      /\ g \in Below \ DOMAIN fds /\ g >= MinInternalFd /\ IsCloexec(fds', g)
      /\ \A f \in DOMAIN fds' : fds'[f].cloexec => f >= MinInternalFd
      /\ \A f \in DOMAIN fds' : ~fds'[f].ofd.foreign
      /\ \A f : IsCloexec(fds', f) => f = g \/ IsCloexec(fds, f)
  BY <1>1, <1>2, <1>3, InternalAdded
<1>5. CountersFine BY <1>2, <1>4 DEF CountersFine, IInv, TypeOK, FdOrNone, Below
<1>6. ASSUME NEW f \in Stray' PROVE f \in Stray
  <2>1. IsCloexec(fds', f) /\ f \notin InUse(frames') /\ f # g BY <1>2, <1>6, StrayIs
  <2>2. IsCloexec(fds, f) BY <1>4, <2>1
  <2>3. f # None BY <2>2 DEF IsCloexec, IInv, TypeOK, IsTable, None
  <2> QED BY <1>2, <2>1, <2>2, <2>3, StrayIs
<1>7. Bounded BY <1>2, <1>6, NoneLeaks
<1>8. IInv' BY <1>2, <1>4, <1>5, BodyStep
<1> QED BY <1>7, <1>8

LEMMA DotKeeps ==
    ASSUME IInv, Dot
    PROVE  IInv' /\ Bounded
<1>1. PICK g : g = InternalFd(fds) OBVIOUS
<1>2. PICK fr : fr = [Frame("script") EXCEPT !.save = g, !.entry = fds'] OBVIOUS
<1>3. InBody /\ Len(frames) < MaxFrames /\ Fresh # {} /\ CanOpenInternal(fds)
      /\ fds' = OpenInternal(fds, NewOfd("ReadOnly")) /\ Push(fr)
      /\ UNCHANGED <<tty, redirs, failures>>
  BY <1>1, <1>2 DEF Dot
<1>4. "ReadOnly" \in Access BY DEF Access
<1>5. /\ IsTable(fds', Ofd) /\ CloexecKept(fds, fds')
      /\ g \in Below \ DOMAIN fds /\ g >= MinInternalFd /\ IsCloexec(fds', g)
      /\ \A f \in DOMAIN fds' : fds'[f].cloexec => f >= MinInternalFd
      /\ \A f \in DOMAIN fds' : ~fds'[f].ofd.foreign
      /\ \A f : IsCloexec(fds', f) => f = g \/ IsCloexec(fds, f)
  BY <1>1, <1>3, <1>4, InternalAdded
<1>6. fr = [phase |-> "script", saved |-> <<>>, entry |-> fds',
            target |-> 0, save |-> g, fd |-> None]
  BY <1>2 DEF Frame
<1>7. IsFrame(fr)
  <2>1. <<>> \in Seq(SavedFd) BY EmptySeq
  <2> QED BY <1>5, <1>6, <2>1 DEF IsFrame, Phases, FdOrNone, Below
<1>8. InternalOf(fr) = {g} BY <1>6 DEF InternalOf
<1>9. FrameFine(fr, fds') BY <1>5, <1>6, <1>8 DEF FrameFine, Kept
<1>10. TopFine(fr, fds') BY <1>6, TopAtRest
<1>11. CountersFine BY <1>3 DEF CountersFine, IInv, TypeOK
<1>12. fr.saved = <<>> /\ fr.phase = "script" BY <1>6
<1>13. \A f \in InternalOf(fr) : f \notin DOMAIN fds BY <1>5, <1>8
<1>14. IInv' BY <1>3, <1>5, <1>7, <1>9, <1>10, <1>11, <1>12, <1>13, PushStep
<1>15. \A f : IsCloexec(fds', f) => f \in InternalOf(fr) \/ IsCloexec(fds, f)
  BY <1>5, <1>8
<1>16. Bounded BY <1>3, <1>7, <1>15, PushLeaks
<1> QED BY <1>14, <1>16

\* A guard that has nothing to undo.
LEMMA NothingToUndo ==
    ASSUME NEW entry, NEW t
    PROVE  Undoable(<<>>, entry, t) /\ SavesOf(<<>>) = {}
BY EmptySeq DEF Undoable, SavesOf

LEMMA BeginKeeps ==
    ASSUME IInv, Begin
    PROVE  IInv' /\ Bounded
<1>1. PICK fr : fr = Frame("redirecting") OBVIOUS
<1>2. InBody /\ Len(frames) < MaxFrames /\ Push(fr)
      /\ UNCHANGED <<fds, tty, redirs, failures>>
  BY <1>1 DEF Begin
<1>3. fr = [phase |-> "redirecting", saved |-> <<>>, entry |-> fds,
            target |-> 0, save |-> None, fd |-> None]
  BY <1>1 DEF Frame
<1>4. IsTable(fds, Ofd) /\ IsTable(fds', Ofd) BY <1>2 DEF IInv, TypeOK
<1>5. IsFrame(fr)
  <2>1. <<>> \in Seq(SavedFd) BY EmptySeq
  <2> QED BY <1>3, <1>4, <2>1 DEF IsFrame, Phases, FdOrNone
<1>6. Entries(fr) = <<>> BY <1>3 DEF Entries
<1>7. InternalOf(fr) = {} BY <1>3, <1>6, NothingToUndo DEF InternalOf
<1>8. FrameFine(fr, fds') BY <1>3, <1>6, <1>7, NothingToUndo DEF FrameFine, Kept
<1>9. None \notin DOMAIN fds BY <1>4 DEF IsTable, None
<1>10. TopFine(fr, fds') BY <1>2, <1>3, <1>9 DEF TopFine, Untouched
<1>11. CountersFine BY <1>2 DEF CountersFine, IInv, TypeOK
<1>12. CloexecKept(fds, fds') BY <1>2 DEF CloexecKept
<1>13. \A f \in DOMAIN fds' : ~fds'[f].ofd.foreign
  BY <1>2, NoneForeign DEF InBody
<1>14. \A f \in DOMAIN fds' : fds'[f].cloexec => f >= MinInternalFd
  BY <1>2 DEF IInv, Reserved
<1>15. fr.saved = <<>> /\ fr.phase = "redirecting" BY <1>3
<1>16. IInv'
  BY <1>2, <1>4, <1>5, <1>7, <1>8, <1>10, <1>11, <1>12, <1>13, <1>14, <1>15, PushStep
<1>17. Bounded BY <1>2, <1>5, PushLeaks
<1> QED BY <1>16, <1>17

\* The body begins.
LEMMA StartBodyKeeps ==
    ASSUME IInv, StartBody
    PROVE  IInv' /\ Bounded
<1>1. PICK fr : fr = [Top EXCEPT !.phase = "body"] OBVIOUS
<1>2. frames # <<>> /\ Top.phase = "redirecting" /\ SetTop(fr)
      /\ UNCHANGED <<fds, tty, redirs, failures>>
  BY <1>1 DEF StartBody
<1>3. IsFrame(Top) /\ FrameFine(Top, fds) BY <1>2, TopFrame
<1>4. /\ fr.phase = "body" /\ fr.saved = Top.saved /\ fr.entry = Top.entry
      /\ fr.fd = Top.fd
      /\ IsFrame(fr)
  BY <1>1, <1>3 DEF IsFrame, Phases
<1>5. Entries(fr) = Top.saved /\ Entries(Top) = Top.saved BY <1>2, <1>4 DEF Entries
<1>6. InternalOf(fr) = InternalOf(Top) BY <1>2, <1>4, <1>5 DEF InternalOf
<1>7. FrameFine(fr, fds') BY <1>2, <1>3, <1>4, <1>5, <1>6 DEF FrameFine
<1>8. TopFine(fr, fds') BY <1>4, TopAtRest
<1>9. CountersFine /\ IsTable(fds', Ofd) BY <1>2 DEF CountersFine, IInv, TypeOK
<1>10. CloexecKept(fds, fds') BY <1>2 DEF CloexecKept
<1>11. ASSUME NEW f \in DOMAIN fds'
       PROVE  (fds'[f].cloexec => f >= MinInternalFd) /\ ~fds'[f].ofd.foreign
  BY <1>2, NoneForeign DEF IInv, Reserved
<1>12. IInv' BY <1>2, <1>4, <1>5, <1>6, <1>7, <1>8, <1>9, <1>10, <1>11, TopStep
<1>13. PICK x : x = None OBVIOUS
<1>14. \A f \in Stray' : f \in Stray \/ (f = x /\ x # None)
  BY <1>2, <1>4, <1>6, <1>9, TopLeaks
<1>15. Bounded BY <1>2, <1>13, <1>14, LeakAtMost
<1> QED BY <1>12, <1>15

-----------------------------------------------------------------------------
(***************************************************************************)
(* Redirections: the entry a redirection adds to its guard.                *)
(***************************************************************************)

LEMMA Appended ==
    ASSUME NEW list \in Seq(SavedFd), NEW e \in SavedFd, NEW n, n = Len(list),
           NEW more, more = Append(list, e)
    PROVE  /\ n \in Nat /\ more \in Seq(SavedFd) /\ Len(more) = n + 1
           /\ \A k \in 1 .. n : more[k] = list[k]
           /\ more[n + 1] = e
BY AppendProperties, LenProperties

LEMMA AppendedTo ==
    ASSUME NEW list \in Seq(SavedFd), NEW e \in SavedFd, NEW more, more = Append(list, e)
    PROVE  /\ SavesOf(more) = SavesOf(list) \union ({e.save} \ {None})
           /\ OriginalsOf(more) = OriginalsOf(list) \union {e.original}
<1>1. PICK n : n = Len(list) OBVIOUS
<1>2. /\ n \in Nat /\ more \in Seq(SavedFd) /\ Len(more) = n + 1
      /\ \A k \in 1 .. n : more[k] = list[k]
      /\ more[n + 1] = e
  BY <1>1, Appended
<1>3. \A k \in 1 .. n + 1 : k = n + 1 \/ k \in 1 .. n BY <1>2
<1>4. ASSUME NEW f
      PROVE  f \in SavesOf(more) <=> f \in SavesOf(list) \/ (f = e.save /\ f # None)
  <2>1. ASSUME f \in SavesOf(more)
        PROVE  f \in SavesOf(list) \/ (f = e.save /\ f # None)
    <3>1. PICK k \in 1 .. n + 1 : f = more[k].save /\ f # None
      BY <1>1, <1>2, <2>1 DEF SavesOf
    <3> QED BY <1>1, <1>2, <1>3, <3>1 DEF SavesOf
  <2>2. ASSUME f \in SavesOf(list) PROVE f \in SavesOf(more)
    <3>1. PICK k \in 1 .. n : f = list[k].save /\ f # None BY <1>1, <2>2 DEF SavesOf
    <3>2. k \in 1 .. n + 1 /\ f = more[k].save BY <1>2, <3>1
    <3> QED BY <1>2, <3>1, <3>2 DEF SavesOf
  <2>3. ASSUME f = e.save, f # None PROVE f \in SavesOf(more)
    <3>1. n + 1 \in 1 .. n + 1 BY <1>2
    <3> QED BY <1>2, <2>3, <3>1 DEF SavesOf
  <2> QED BY <2>1, <2>2, <2>3
<1>5. ASSUME NEW f
      PROVE  f \in OriginalsOf(more) <=> f \in OriginalsOf(list) \/ f = e.original
  <2>1. ASSUME f \in OriginalsOf(more)
        PROVE  f \in OriginalsOf(list) \/ f = e.original
    <3>1. PICK k \in 1 .. n + 1 : f = more[k].original BY <1>1, <1>2, <2>1 DEF OriginalsOf
    <3> QED BY <1>1, <1>2, <1>3, <3>1 DEF OriginalsOf
  <2>2. ASSUME f \in OriginalsOf(list) PROVE f \in OriginalsOf(more)
    <3>1. PICK k \in 1 .. n : f = list[k].original BY <1>1, <2>2 DEF OriginalsOf
    <3>2. k \in 1 .. n + 1 /\ f = more[k].original BY <1>2, <3>1
    <3> QED BY <1>2, <3>2 DEF OriginalsOf
  <2>3. ASSUME f = e.original PROVE f \in OriginalsOf(more)
    <3>1. n + 1 \in 1 .. n + 1 BY <1>2
    <3> QED BY <1>2, <2>3, <3>1 DEF OriginalsOf
  <2> QED BY <2>1, <2>2, <2>3
<1>6. SavesOf(more) = SavesOf(list) \union ({e.save} \ {None}) BY <1>4
<1>7. OriginalsOf(more) = OriginalsOf(list) \union {e.original} BY <1>5
<1> QED BY <1>6, <1>7

\* A guard whose last redirection fails can undo those before it.
LEMMA UndoableBefore ==
    ASSUME NEW list \in Seq(SavedFd), NEW e \in SavedFd, NEW more, more = Append(list, e),
           NEW entry, NEW t, Undoable(more, entry, t)
    PROVE  Undoable(list, entry, t)
<1>1. PICK n : n = Len(list) OBVIOUS
<1>2. n \in Nat /\ Len(more) = n + 1 /\ \A k \in 1 .. n : more[k] = list[k]
  BY <1>1, Appended
<1>3. \A k \in 1 .. n : k \in 1 .. n + 1 BY <1>2
<1>4. \A k \in 1 .. n : list[k].save # None => list[k].original < OpenMax
  BY <1>2, <1>3 DEF Undoable
<1>5. \A k, m \in 1 .. n : k < m /\ list[k].save # None => list[k].save # list[m].save
  BY <1>2, <1>3 DEF Undoable
<1>6. \A k, m \in 1 .. n : k <= m => list[k].save # list[m].original
  BY <1>2, <1>3 DEF Undoable
<1>7. ASSUME NEW k \in 1 .. n, \A m \in 1 .. k - 1 : list[m].original # list[k].original
      PROVE  Restores(list[k], entry, t)
  <2>1. \A m \in 1 .. k - 1 : m \in 1 .. n BY <1>2
  <2>2. \A m \in 1 .. k - 1 : more[m].original # more[k].original BY <1>2, <1>7, <2>1
  <2> QED BY <1>2, <1>3, <2>2 DEF Undoable
<1> QED BY <1>1, <1>4, <1>5, <1>6, <1>7 DEF Undoable

\* Another entry, for a descriptor that is not reserved.
LEMMA UndoableAfter ==
    ASSUME NEW list, NEW entry, NEW t, Undoable(list, entry, t), Kept(SavesOf(list), t),
           NEW e \in SavedFd, ~IsCloexec(t, e.original), e.save # e.original,
           e.save # None => e.save \notin DOMAIN t /\ e.original < OpenMax,
           NEW u, CloexecKept(t, u),
           e.original \notin OriginalsOf(list) => Restores(e, entry, u),
           NEW more, more = Append(list, e)
    PROVE  Undoable(more, entry, u)
<1>1. PICK n : n = Len(list) OBVIOUS
<1>2. list \in Seq(SavedFd) BY DEF Undoable
<1>3. /\ n \in Nat /\ more \in Seq(SavedFd) /\ Len(more) = n + 1
      /\ \A k \in 1 .. n : more[k] = list[k]
      /\ more[n + 1] = e
  BY <1>1, <1>2, Appended
<1>4. \A k \in 1 .. n + 1 : k = n + 1 \/ k \in 1 .. n BY <1>3
<1>5. ASSUME NEW k \in 1 .. n, list[k].save # None
      PROVE  IsCloexec(t, list[k].save) /\ list[k].save \in DOMAIN u
             /\ u[list[k].save] = t[list[k].save]
  <2>1. list[k].save \in SavesOf(list) BY <1>1, <1>5 DEF SavesOf
  <2> QED BY <2>1 DEF Kept, IsCloexec, CloexecKept
<1>6. \A k \in 1 .. n + 1 : more[k].save # None => more[k].original < OpenMax
  BY <1>1, <1>3, <1>4 DEF Undoable
<1>7. ASSUME NEW k \in 1 .. n + 1, NEW m \in 1 .. n + 1, k < m, more[k].save # None
      PROVE  more[k].save # more[m].save
  <2>1. k \in 1 .. n BY <1>3, <1>7
  <2>2. CASE m \in 1 .. n BY <1>1, <1>3, <1>7, <2>1, <2>2 DEF Undoable
  <2>3. CASE m = n + 1
    <3>1. more[k].save \in DOMAIN t BY <1>3, <1>5, <1>7, <2>1 DEF IsCloexec
    <3> QED BY <1>3, <1>7, <2>3, <3>1
  <2> QED BY <1>4, <2>2, <2>3
<1>8. ASSUME NEW k \in 1 .. n + 1, NEW m \in 1 .. n + 1, k <= m
      PROVE  more[k].save # more[m].original
  <2>1. CASE m \in 1 .. n
    <3>1. k \in 1 .. n BY <1>3, <1>8, <2>1
    <3> QED BY <1>1, <1>3, <1>8, <2>1, <3>1 DEF Undoable
  <2>2. CASE m = n + 1 /\ k = n + 1 BY <1>3, <2>2
  <2>3. CASE m = n + 1 /\ k \in 1 .. n
    <3>1. CASE list[k].save # None BY <1>3, <1>5, <2>3, <3>1
    <3>2. CASE list[k].save = None
      <4>1. e.original \in Nat BY RedirectionAssumption DEF SavedFd
      <4> QED BY <1>3, <2>3, <3>2, <4>1 DEF None
    <3> QED BY <3>1, <3>2
  <2> QED BY <1>4, <2>1, <2>2, <2>3
<1>9. ASSUME NEW k \in 1 .. n + 1, \A m \in 1 .. k - 1 : more[m].original # more[k].original
      PROVE  Restores(more[k], entry, u)
  <2>1. CASE k \in 1 .. n
    <3>1. \A m \in 1 .. k - 1 : m \in 1 .. n BY <1>3, <2>1
    <3>2. \A m \in 1 .. k - 1 : list[m].original # list[k].original
      BY <1>3, <1>9, <2>1, <3>1
    <3>3. Restores(list[k], entry, t) BY <1>1, <2>1, <3>2 DEF Undoable
    <3>4. Restores(list[k], entry, u) BY <1>5, <2>1, <3>3 DEF Restores
    <3> QED BY <1>3, <2>1, <3>4
  <2>2. CASE k = n + 1
    <3>1. \A m \in 1 .. n : m \in 1 .. k - 1 BY <1>3, <2>2
    <3>2. \A m \in 1 .. n : list[m].original # e.original BY <1>3, <1>9, <2>2, <3>1
    <3>3. e.original \notin OriginalsOf(list) BY <1>1, <3>2 DEF OriginalsOf
    <3> QED BY <1>3, <2>2, <3>3
  <2> QED BY <1>4, <2>1, <2>2
<1> QED BY <1>3, <1>6, <1>7, <1>8, <1>9 DEF Undoable

-----------------------------------------------------------------------------
(***************************************************************************)
(* Redirections: saving the target.                                        *)
(***************************************************************************)

\* Nothing in the table that must not be there between redirections.
Quiet(t) ==
    \A f \in DOMAIN t : (t[f].cloexec => f >= MinInternalFd) /\ ~t[f].ofd.foreign

\* In t the target is saved at s, or it was closed and s is None.
SavedAs(target, s, t) ==
    /\ s \in FdOrNone /\ s # target
    /\ s = None => target \notin DOMAIN fds
    /\ s # None =>
          /\ target \in DOMAIN fds
          /\ s \notin DOMAIN fds /\ s >= MinInternalFd
          /\ s \in DOMAIN t /\ t[s] = Body(fds[target].ofd, TRUE)
    /\ \A f : f # s => /\ f \in DOMAIN t <=> f \in DOMAIN fds
                       /\ f \in DOMAIN fds => t[f] = fds[f]

LEMMA SaveDoes ==
    ASSUME IInv, NEW target \in Named, Redirecting(target),
           NEW t, t = Saved(target), NEW s, s = Save(target)
    PROVE  /\ SavedAs(target, s, t)
           /\ IsTable(t, Ofd) /\ CloexecKept(fds, t) /\ Quiet(t)
<1>1. target \in Nat /\ MinInternalFd \in Nat BY RedirectionAssumption
<1>2. IsTable(fds, Ofd) BY DEF IInv, TypeOK
<1>3. frames # <<>> /\ Top.phase = "redirecting" /\ CanSave(target) BY DEF Redirecting
<1>4. Quiet(fds) BY <1>3, NoneForeign DEF IInv, Reserved, Quiet
<1>5. CASE target \notin DOMAIN fds
  <2>1. t = fds /\ s = None BY <1>5 DEF Saved, Save
  <2>2. None \notin DOMAIN fds BY <1>2 DEF IsTable, None
  <2>3. SavedAs(target, s, t) BY <1>1, <1>5, <2>1, <2>2 DEF SavedAs, FdOrNone, None
  <2> QED BY <1>2, <1>4, <2>1, <2>3 DEF CloexecKept
<1>6. CASE target \in DOMAIN fds
  <2>1. PICK b : b = Body(fds[target].ofd, TRUE) OBVIOUS
  <2>2. fds[target].ofd \in Ofd BY <1>2, <1>6, InTable
  <2>3. b \in Bodies /\ b.ofd = fds[target].ofd /\ b.cloexec = TRUE
    BY <2>1, <2>2 DEF Body, Bodies
  <2>4. CanOpen(fds, MinInternalFd) BY <1>3, <1>6 DEF CanSave
  <2>5. s = MinUnusedFd(fds, MinInternalFd) BY <1>6 DEF Save
  <2>6. t = OpenFd(fds, MinInternalFd, b) BY <1>6, <2>1 DEF Saved, Dup
  <2>7. s \in Below \ DOMAIN fds /\ s >= MinInternalFd
    BY <1>1, <1>2, <2>4, <2>5, OpensFree
  <2>8. IsTable(t, Ofd) /\ Replaced(fds, s, b, t)
    BY <1>1, <1>2, <2>3, <2>4, <2>5, <2>6, OpenReplaces
  <2>9. s # None BY <2>7 DEF Below, None
  <2>10. SavedAs(target, s, t)
    BY <1>6, <2>1, <2>7, <2>8, <2>9 DEF SavedAs, Replaced, FdOrNone, Below
  <2>11. CloexecKept(fds, t) BY <2>7, <2>8 DEF CloexecKept, Replaced
  <2>12. ~fds[target].ofd.foreign BY <1>4, <1>6 DEF Quiet
  <2>13. ASSUME NEW f \in DOMAIN t
         PROVE  (t[f].cloexec => f >= MinInternalFd) /\ ~t[f].ofd.foreign
    <3>1. CASE f = s BY <2>3, <2>7, <2>8, <2>12, <3>1 DEF Replaced
    <3>2. CASE f # s
      <4>1. f \in DOMAIN fds /\ t[f] = fds[f] BY <2>8, <3>2 DEF Replaced
      <4> QED BY <1>4, <4>1 DEF Quiet
    <3> QED BY <3>1, <3>2
  <2> QED BY <2>8, <2>10, <2>11, <2>13 DEF Quiet
<1> QED BY <1>5, <1>6

\* u is t with something at the target that commands may use, or nothing.
Retargeted(t, target, u) ==
    /\ IsTable(u, Ofd)
    /\ \A f : f # target => /\ f \in DOMAIN u <=> f \in DOMAIN t
                            /\ f \in DOMAIN t => u[f] = t[f]
    /\ target \in DOMAIN u => ~u[target].cloexec /\ ~u[target].ofd.foreign

\* The guard as it is when it has the entry for the target.
WithEntry(fr, target, s) ==
    /\ IsFrame(fr)
    /\ fr.phase \in {"redirecting", "reopening"} /\ fr.fd = None
    /\ fr.phase = "reopening" => fr.target = target
    /\ fr.entry = Top.entry
    /\ Entries(fr) = Append(Top.saved, [original |-> target, save |-> s])

LEMMA EntryStep ==
    ASSUME IInv, NEW target \in Named, Redirecting(target),
           NEW t, t = Saved(target), NEW s, s = Save(target),
           Retargeted(t, target, fds'), NEW fr, WithEntry(fr, target, s), SetTop(fr),
           CountersFine, fr.phase = "reopening" => redirs' < MaxRedirs,
           UNCHANGED <<tty, failures>>
    PROVE  IInv' /\ Bounded
<1>1. frames # <<>> /\ Top.phase = "redirecting" /\ ~IsCloexec(fds, target)
  BY DEF Redirecting
<1>2. IsFrame(Top) /\ FrameFine(Top, fds) /\ TopFine(Top, fds) BY <1>1, TopFrame
<1>3. /\ SavedAs(target, s, t)
      /\ IsTable(t, Ofd) /\ CloexecKept(fds, t) /\ Quiet(t)
  BY SaveDoes
<1>4. target \in Nat BY RedirectionAssumption
<1>5. PICK e : e = [original |-> target, save |-> s] OBVIOUS
<1>6. e \in SavedFd /\ e.original = target /\ e.save = s
  BY <1>3, <1>5 DEF SavedFd, SavedAs
<1>7. PICK list : list = Top.saved OBVIOUS
<1>8. PICK more : more = Entries(fr) OBVIOUS
<1>9. more = Append(list, e) BY <1>5, <1>7, <1>8 DEF WithEntry
<1>10. Entries(Top) = list /\ InternalOf(Top) = SavesOf(list)
  BY <1>1, <1>7 DEF Entries, InternalOf
<1>11. InternalOf(fr) = SavesOf(more) BY <1>8 DEF InternalOf, WithEntry
<1>12. Undoable(list, Top.entry, fds) /\ Kept(SavesOf(list), fds)
  BY <1>1, <1>2, <1>10 DEF FrameFine
<1>13. list \in Seq(SavedFd) BY <1>12 DEF Undoable
<1>14. /\ \A f : f \in SavesOf(more) <=> f \in SavesOf(list) \/ (f = s /\ f # None)
       /\ \A f : f \in OriginalsOf(more) <=> f \in OriginalsOf(list) \/ f = target
  <2>1. /\ SavesOf(more) = SavesOf(list) \union ({e.save} \ {None})
        /\ OriginalsOf(more) = OriginalsOf(list) \union {e.original}
    BY <1>6, <1>9, <1>13, AppendedTo
  <2> QED BY <1>6, <2>1
<1>15. CloexecKept(fds, fds')
  <2>1. ASSUME NEW f \in DOMAIN fds, fds[f].cloexec
        PROVE  f \in DOMAIN fds' /\ fds'[f] = fds[f]
    <3>1. f # target BY <1>1, <2>1 DEF IsCloexec
    <3>2. f \in DOMAIN t /\ t[f] = fds[f] BY <1>3, <2>1 DEF CloexecKept
    <3> QED BY <3>1, <3>2 DEF Retargeted
  <2> QED BY <2>1 DEF CloexecKept
<1>16. s # None => /\ s \in DOMAIN fds' /\ fds'[s] = Body(fds[target].ofd, TRUE)
                   /\ s \notin DOMAIN fds /\ s >= MinInternalFd
                   /\ target \in DOMAIN fds
  BY <1>3 DEF SavedAs, Retargeted
<1>17. ASSUME NEW f, f \in SavesOf(list)
       PROVE  f \in DOMAIN fds /\ fds[f].cloexec /\ f >= MinInternalFd
  BY <1>12, <1>17 DEF Kept, IsCloexec
<1>18. IsTable(fds, Ofd) BY DEF IInv, TypeOK
<1>19. IsTable(Top.entry, Ofd) /\ Top.fd = None
  BY <1>1, <1>2 DEF IsFrame, FrameFine
<1>20. target \notin OriginalsOf(list) => Restores(e, Top.entry, fds')
  <2>1. SUFFICES ASSUME target \notin OriginalsOf(list) PROVE Restores(e, Top.entry, fds')
    OBVIOUS
  <2>2. target \notin SavesOf(list) BY <1>1, <1>17 DEF IsCloexec
  <2>3. /\ target \in DOMAIN fds <=> target \in DOMAIN Top.entry
        /\ target \in DOMAIN Top.entry => fds[target] = Top.entry[target]
    <3>1. CASE target \in 0 .. OpenMax - 1
      <4>1. Untouched(Top, fds) BY <1>1, <1>2 DEF TopFine
      <4>2. target # Top.fd BY <1>4, <1>19 DEF None
      <4> QED BY <1>10, <2>1, <2>2, <3>1, <4>1, <4>2 DEF Untouched
    <3>2. CASE target \notin 0 .. OpenMax - 1 BY <1>18, <1>19, <3>2 DEF IsTable
    <3> QED BY <3>1, <3>2
  <2>4. CASE s = None BY <1>3, <1>6, <2>3, <2>4 DEF SavedAs, Restores
  <2>5. CASE s # None
    <3>1. target \in DOMAIN fds /\ fds'[s] = Body(fds[target].ofd, TRUE)
      BY <1>16, <2>5
    <3>2. fds[target] = Body(fds[target].ofd, fds[target].cloexec)
          /\ fds[target].cloexec \in BOOLEAN /\ fds[target].ofd \in Ofd
      BY <1>18, <3>1, InTable
    <3>3. fds[target].cloexec = FALSE BY <1>1, <3>1, <3>2 DEF IsCloexec
    <3>4. fds'[s].ofd = fds[target].ofd BY <3>1 DEF Body
    <3>5. Top.entry[target] = Body(fds'[s].ofd, FALSE)
      BY <2>3, <3>1, <3>2, <3>3, <3>4
    <3> QED BY <1>6, <2>3, <2>5, <3>1, <3>5 DEF Restores
  <2> QED BY <2>4, <2>5
<1>21. Undoable(more, Top.entry, fds')
  <2>1. e.save # e.original BY <1>3, <1>6 DEF SavedAs
  <2>2. e.save # None => e.save \notin DOMAIN fds /\ e.original < OpenMax
    BY <1>4, <1>6, <1>16, <1>18, InTable, OpenMaxAssumption DEF Below
  <2>3. ~IsCloexec(fds, e.original) BY <1>1, <1>6
  <2>4. e.original \notin OriginalsOf(list) => Restores(e, Top.entry, fds')
    BY <1>6, <1>20
  <2>5. PICK u : u = fds' OBVIOUS
  <2>6. PICK entry : entry = Top.entry OBVIOUS
  <2>7. Undoable(more, entry, u)
    BY <1>6, <1>9, <1>12, <1>15, <2>1, <2>2, <2>3, <2>4, <2>5, <2>6, UndoableAfter
  <2> QED BY <2>5, <2>6, <2>7
<1>22. ASSUME NEW f, f \in InternalOf(fr)
       PROVE  /\ f >= MinInternalFd /\ IsCloexec(fds', f)
              /\ f \in InternalOf(Top) \/ f \notin DOMAIN fds
  <2>1. CASE f \in SavesOf(list)
    BY <1>10, <1>15, <1>17, <2>1 DEF CloexecKept, IsCloexec
  <2>2. CASE f = s /\ f # None
    BY <1>16, <2>2 DEF IsCloexec, Body
  <2> QED BY <1>11, <1>14, <1>22, <2>1, <2>2
<1>23. FrameFine(fr, fds')
  <2>1. Kept(InternalOf(fr), fds') BY <1>22 DEF Kept
  <2> QED BY <1>8, <1>21, <2>1 DEF FrameFine, WithEntry
<1>24. ASSUME NEW f \in 0 .. OpenMax - 1
       PROVE  f \in OriginalsOf(more) \union SavesOf(more) \/
                 /\ f \in DOMAIN fds' \ {None} <=> f \in DOMAIN Top.entry
                 /\ f \in DOMAIN Top.entry => fds'[f] = Top.entry[f]
  <2>1. SUFFICES ASSUME f \notin OriginalsOf(more), f \notin SavesOf(more)
                 PROVE  /\ f \in DOMAIN fds' \ {None} <=> f \in DOMAIN Top.entry
                        /\ f \in DOMAIN Top.entry => fds'[f] = Top.entry[f]
    OBVIOUS
  <2>2. f # None BY DEF None
  <2>3. /\ f \notin OriginalsOf(list) /\ f # target
        /\ f \notin SavesOf(list) /\ f # s
    BY <1>14, <2>1, <2>2
  <2>4. Untouched(Top, fds) BY <1>1, <1>2 DEF TopFine
  <2>5. /\ f \in DOMAIN fds <=> f \in DOMAIN Top.entry
        /\ f \in DOMAIN Top.entry => fds[f] = Top.entry[f]
    BY <1>10, <1>19, <2>2, <2>3, <2>4 DEF Untouched
  <2>6. /\ f \in DOMAIN fds' <=> f \in DOMAIN fds
        /\ f \in DOMAIN fds => fds'[f] = fds[f]
    BY <1>3, <2>3 DEF SavedAs, Retargeted
  <2> QED BY <2>2, <2>5, <2>6
<1>25. Untouched(fr, fds')
  <2>1. fr.fd = None /\ fr.entry = Top.entry BY DEF WithEntry
  <2> QED BY <1>8, <1>11, <1>24, <2>1 DEF Untouched
<1>26. TopFine(fr, fds')
  <2>1. ~IsCloexec(fds', target) BY DEF Retargeted, IsCloexec
  <2> QED BY <1>25, <2>1 DEF TopFine, WithEntry
<1>27. ASSUME NEW f, f \in OriginalsOf(Entries(fr))
       PROVE  f \in OriginalsOf(Entries(Top)) \/ ~IsCloexec(fds, f)
  BY <1>1, <1>8, <1>10, <1>14, <1>27
<1>28. ASSUME NEW f \in DOMAIN fds'
       PROVE  /\ fds'[f].cloexec => f >= MinInternalFd
              /\ ~fds'[f].ofd.foreign
  <2>1. CASE f = target BY <2>1 DEF Retargeted
  <2>2. CASE f # target
    <3>1. f \in DOMAIN t /\ fds'[f] = t[f] BY <2>2 DEF Retargeted
    <3> QED BY <1>3, <3>1 DEF Quiet
  <2> QED BY <2>1, <2>2
<1>29. IsFrame(fr) /\ IsTable(fds', Ofd) /\ fr.phase # "checking"
       /\ (fr.phase \in {"reopening", "checking"} => redirs' < MaxRedirs)
  BY DEF WithEntry, Retargeted
<1>30. IInv' BY <1>1, <1>15, <1>22, <1>23, <1>26, <1>27, <1>28, <1>29, TopStep
<1>31. ASSUME NEW f, IsCloexec(fds', f)
       PROVE  f \in InternalOf(fr) \/ IsCloexec(fds, f)
  <2>1. f # target /\ IsCloexec(t, f) BY <1>31 DEF Retargeted, IsCloexec
  <2>2. CASE f = s
    <3>1. f # None BY <1>3, <2>1 DEF IsCloexec, IsTable, None
    <3> QED BY <1>11, <1>14, <2>2, <3>1
  <2>3. CASE f # s BY <1>3, <2>1, <2>3 DEF SavedAs, IsCloexec
  <2> QED BY <2>2, <2>3
<1>32. \A f \in InternalOf(Top) : f \in InternalOf(fr) BY <1>10, <1>11, <1>14
<1>33. PICK x : x = None OBVIOUS
<1>34. \A f \in Stray' : f \in Stray \/ (f = x /\ x # None)
  BY <1>1, <1>29, <1>31, <1>32, TopLeaks
<1>35. Bounded BY <1>33, <1>34, LeakAtMost
<1> QED BY <1>30, <1>35

-----------------------------------------------------------------------------
(***************************************************************************)
(* Redirections: failing and installing.                                   *)
(***************************************************************************)

\* The entry in the making.
Pending(frame) == [original |-> frame.target, save |-> frame.save]

LEMMA PendingIsEntry ==
    ASSUME NEW list \in Seq(SavedFd), NEW e, NEW more, more = Append(list, e),
           more \in Seq(SavedFd)
    PROVE  e \in SavedFd
<1>1. PICK n : n = Len(list) OBVIOUS
<1>2. PICK S : S = SavedFd \union {e} OBVIOUS
<1>3. list \in [1 .. n -> SavedFd] /\ n \in Nat BY <1>1, LenProperties
<1>4. list \in Seq(S) BY <1>2, SeqMonotonic
<1>5. e \in S BY <1>2
<1>6. Len(more) = n + 1 /\ more[n + 1] = e BY <1>1, <1>4, <1>5, AppendProperties
<1>7. n + 1 \in 1 .. Len(more) BY <1>3, <1>6
<1> QED BY <1>6, <1>7, ElementOfSeq

\* After a failure, or before a pending redirection, the guard can undo what
\* has been done.
LEMMA CanUndoSaved ==
    ASSUME IInv, frames # <<>>, Top.phase \in {"redirecting", "reopening", "checking"}
    PROVE  /\ Undoable(Top.saved, Top.entry, fds)
           /\ SavesOf(Top.saved) \subseteq InternalOf(Top)
           /\ OriginalsOf(Top.saved) \subseteq OriginalsOf(Entries(Top))
           /\ \A f \in InternalOf(Top) :
                 \/ f \in SavesOf(Top.saved)
                 \/ Top.phase # "redirecting" /\ f = Top.save /\ f # None
<1>1. IsFrame(Top) /\ FrameFine(Top, fds) BY TopFrame
<1>2. PICK list : list = Top.saved OBVIOUS
<1>3. PICK more : more = Entries(Top) OBVIOUS
<1>4. list \in Seq(SavedFd) BY <1>1, <1>2 DEF IsFrame
<1>5. Undoable(more, Top.entry, fds) /\ InternalOf(Top) = SavesOf(more)
  BY <1>1, <1>3 DEF FrameFine, InternalOf
<1>6. CASE Top.phase = "redirecting"
  <2>1. more = list BY <1>2, <1>3, <1>6 DEF Entries
  <2> QED BY <1>2, <1>3, <1>5, <2>1
<1>7. CASE Top.phase # "redirecting"
  <2>1. PICK e : e = Pending(Top) OBVIOUS
  <2>2. more = Append(list, e) BY <1>2, <1>3, <1>7, <2>1 DEF Entries, Pending
  <2>3. e \in SavedFd BY <1>4, <1>5, <2>2, PendingIsEntry DEF Undoable
  <2>4. PICK entry : entry = Top.entry OBVIOUS
  <2>5. Undoable(list, entry, fds) BY <1>4, <1>5, <2>2, <2>3, <2>4, UndoableBefore
  <2>6. /\ SavesOf(more) = SavesOf(list) \union ({e.save} \ {None})
        /\ OriginalsOf(more) = OriginalsOf(list) \union {e.original}
    BY <1>4, <2>2, <2>3, AppendedTo
  <2>7. e.save = Top.save BY <2>1 DEF Pending
  <2> QED BY <1>2, <1>3, <1>5, <1>7, <2>4, <2>5, <2>6, <2>7
<1> QED BY <1>6, <1>7

LEMMA FailStep ==
    ASSUME IInv, frames # <<>>, Top.phase \in {"redirecting", "reopening", "checking"},
           redirs < MaxRedirs, NEW t, NEW s, Fail(t, s), UNCHANGED tty,
           IsTable(t, Ofd), CloexecKept(fds, t), Quiet(t),
           \A f : IsCloexec(t, f) => f = s \/ IsCloexec(fds, f),
           Top.phase # "redirecting" => s = Top.save
    PROVE  IInv' /\ Bounded
<1>1. PICK fr : fr = [Top EXCEPT !.phase = "failed", !.target = 0, !.save = None,
                                 !.fd = None]
  OBVIOUS
<1>2. /\ fds' = t /\ redirs' = redirs + 1 /\ SetTop(fr)
      /\ failures' = IF s = None THEN failures ELSE failures + 1
  BY <1>1 DEF Fail
<1>3. IsFrame(Top) /\ FrameFine(Top, fds) BY TopFrame
<1>4. /\ fr.phase = "failed" /\ fr.saved = Top.saved /\ fr.entry = Top.entry
      /\ fr.fd = None
      /\ IsFrame(fr)
  BY <1>1, <1>3 DEF IsFrame, Phases, FdOrNone
<1>5. Entries(fr) = Top.saved /\ InternalOf(fr) = SavesOf(Top.saved)
  BY <1>4 DEF Entries, InternalOf
<1>6. /\ Undoable(Top.saved, Top.entry, fds)
      /\ SavesOf(Top.saved) \subseteq InternalOf(Top)
      /\ OriginalsOf(Top.saved) \subseteq OriginalsOf(Entries(Top))
      /\ \A f \in InternalOf(Top) :
            f \in SavesOf(Top.saved) \/ (Top.phase # "redirecting" /\ f = Top.save /\ f # None)
  BY CanUndoSaved
<1>7. Kept(InternalOf(fr), fds) BY <1>3, <1>5, <1>6 DEF FrameFine, Kept
<1>8. FrameFine(fr, fds) BY <1>4, <1>5, <1>6, <1>7 DEF FrameFine
<1>9. \A f \in InternalOf(fr) : f \in DOMAIN t /\ t[f] = fds[f]
  BY <1>7 DEF Kept, IsCloexec, CloexecKept
<1>10. FrameFine(fr, t) BY <1>4, <1>8, <1>9, FrameKept
<1>11. TopFine(fr, t) BY <1>4 DEF TopFine
<1>12. CountersFine
  BY <1>2, RedirectionAssumption DEF CountersFine, IInv, TypeOK
<1>13. \A f \in InternalOf(fr) : f \in InternalOf(Top) BY <1>5, <1>6
<1>14. \A f \in OriginalsOf(Entries(fr)) : f \in OriginalsOf(Entries(Top))
  BY <1>5, <1>6
<1>15. fr.phase \notin {"reopening", "checking"} BY <1>4
<1>16. IInv'
  BY <1>2, <1>4, <1>10, <1>11, <1>12, <1>13, <1>14, <1>15, TopStep DEF Quiet
<1>17. \A f \in InternalOf(Top) : f \in InternalOf(fr) \/ (f = s /\ s # None)
  BY <1>5, <1>6
<1>18. \A f \in Stray' : f \in Stray \/ (f = s /\ s # None)
  BY <1>2, <1>4, <1>17, TopLeaks
<1>19. Bounded BY <1>2, <1>18, LeakAtMost
<1> QED BY <1>16, <1>19

\* The guard after a redirection has been installed.
Installed(target, s) ==
    [Top EXCEPT !.phase = "redirecting", !.target = 0, !.save = None, !.fd = None,
                !.saved = Append(@, [original |-> target, save |-> s])]

\* A redirection of the target that has worked, with t as the table before it.
Works(t, target, s) ==
    /\ Retargeted(t, target, fds')
    /\ SetTop(Installed(target, s))
    /\ redirs' = redirs + 1 /\ UNCHANGED failures

LEMMA InstallOwned ==
    ASSUME NEW t, IsTable(t, Ofd), CanOpen(t, 0), NEW fd, fd = MinUnusedFd(t, 0),
           NEW o \in Ofd, ~o.foreign, NEW w, w = OpenFd(t, 0, Body(o, FALSE)),
           NEW target \in Named, NEW s, Install(w, fd, TRUE, target, s)
    PROVE  Fail(t, s) \/ Works(t, target, s)
<1>1. PICK b : b = Body(o, FALSE) OBVIOUS
<1>2. b \in Bodies /\ b.ofd = o /\ b.cloexec = FALSE BY <1>1 DEF Body, Bodies
<1>3. IsTable(w, Ofd) /\ Replaced(t, fd, b, w) BY <1>1, <1>2, OpenReplaces
<1>4. fd \in Below \ DOMAIN t BY OpensFree
<1>5. PICK v : v = CloseFd(w, fd) OBVIOUS
<1>6. IsTable(v, Ofd) /\ Without(w, fd, v) BY <1>3, <1>5, CloseRemoves
<1>7. v = t
  <2>1. DOMAIN v = DOMAIN t BY <1>3, <1>4, <1>6 DEF Replaced, Without
  <2>2. \A f \in DOMAIN t : v[f] = t[f] BY <1>3, <1>4, <1>6 DEF Replaced, Without
  <2> QED BY <1>6, <2>1, <2>2, SameTable
<1>8. CASE fd # target /\ ~CanDup2(w, fd, target)
  BY <1>5, <1>7, <1>8 DEF Install
<1>9. CASE fd = target
  <2>1. fds' = w /\ SetTop(Installed(target, s)) /\ redirs' = redirs + 1
        /\ UNCHANGED failures
    BY <1>9 DEF Install, Installed
  <2>2. Retargeted(t, target, w)
    BY <1>2, <1>3, <1>9 DEF Retargeted, Replaced
  <2> QED BY <2>1, <2>2 DEF Works
<1>10. CASE fd # target /\ CanDup2(w, fd, target)
  <2>1. PICK x : x = Dup2(w, fd, target) OBVIOUS
  <2>2. PICK u : u = CloseFd(x, fd) OBVIOUS
  <2>3. fds' = u /\ SetTop(Installed(target, s)) /\ redirs' = redirs + 1
        /\ UNCHANGED failures
    BY <1>10, <2>1, <2>2 DEF Install, Installed
  <2>4. w[fd].ofd = o BY <1>2, <1>3 DEF Replaced
  <2>5. IsTable(x, Ofd) /\ Replaced(w, target, Body(w[fd].ofd, FALSE), x)
    BY <1>3, <1>10, <2>1, DupReplaces
  <2>6. IsTable(u, Ofd) /\ Without(x, fd, u) BY <2>2, <2>5, CloseRemoves
  <2>7. Replaced(w, target, b, x) BY <1>1, <2>4, <2>5
  <2>8. Retargeted(t, target, u)
    BY <1>2, <1>3, <1>4, <1>10, <2>6, <2>7 DEF Retargeted, Replaced, Without
  <2> QED BY <2>3, <2>8 DEF Works
<1> QED BY <1>8, <1>9, <1>10

\* <& and >&: the descriptor that is copied stays.
LEMMA InstallCopied ==
    ASSUME NEW t, IsTable(t, Ofd), NEW fd \in DOMAIN t, ~t[fd].cloexec,
           ~t[fd].ofd.foreign, NEW target \in Named, NEW s,
           Install(t, fd, FALSE, target, s)
    PROVE  Fail(t, s) \/ Works(t, target, s)
<1>1. CASE fd # target /\ ~CanDup2(t, fd, target) BY <1>1 DEF Install
<1>2. CASE fd = target
  <2>1. fds' = t /\ SetTop(Installed(target, s)) /\ redirs' = redirs + 1
        /\ UNCHANGED failures
    BY <1>2 DEF Install, Installed
  <2>2. Retargeted(t, target, t) BY <1>2 DEF Retargeted
  <2> QED BY <2>1, <2>2 DEF Works
<1>3. CASE fd # target /\ CanDup2(t, fd, target)
  <2>1. PICK u : u = Dup2(t, fd, target) OBVIOUS
  <2>2. fds' = u /\ SetTop(Installed(target, s)) /\ redirs' = redirs + 1
        /\ UNCHANGED failures
    BY <1>3, <2>1 DEF Install, Installed
  <2>3. IsTable(u, Ofd) /\ Replaced(t, target, Body(t[fd].ofd, FALSE), u)
    BY <1>3, <2>1, DupReplaces
  <2>4. Retargeted(t, target, u) BY <2>3 DEF Retargeted, Replaced, Body
  <2> QED BY <2>2, <2>4 DEF Works
<1> QED BY <1>1, <1>2, <1>3

-----------------------------------------------------------------------------
(***************************************************************************)
(* Redirections: the actions.                                              *)
(***************************************************************************)

\* A redirection begins with a table in order and a bound not yet reached.
LEMMA InRedirecting ==
    ASSUME IInv, frames # <<>>, Top.phase = "redirecting"
    PROVE  IsFrame(Top) /\ Top.fd = None /\ IsTable(fds, Ofd) /\ Quiet(fds)
           /\ CloexecKept(fds, fds)
<1>1. IsFrame(Top) /\ FrameFine(Top, fds) BY TopFrame
<1>2. Quiet(fds) BY NoneForeign DEF Quiet, IInv, Reserved
<1> QED BY <1>1, <1>2 DEF FrameFine, IInv, TypeOK, CloexecKept

LEMMA WorksKeeps ==
    ASSUME IInv, NEW target \in Named, Redirecting(target),
           NEW t, t = Saved(target), NEW s, s = Save(target),
           Works(t, target, s), UNCHANGED tty
    PROVE  IInv' /\ Bounded
<1>1. frames # <<>> /\ Top.phase = "redirecting" /\ redirs < MaxRedirs
  BY DEF Redirecting
<1>2. IsFrame(Top) BY <1>1, InRedirecting
<1>3. SavedAs(target, s, t) BY SaveDoes
<1>4. PICK fr : fr = Installed(target, s) OBVIOUS
<1>5. PICK e : e = [original |-> target, save |-> s] OBVIOUS
<1>6. PICK more : more = Append(Top.saved, e) OBVIOUS
<1>7. e \in SavedFd BY <1>3, <1>5 DEF SavedFd, SavedAs
<1>8. Top.saved \in Seq(SavedFd) BY <1>2 DEF IsFrame
<1>9. more \in Seq(SavedFd) BY <1>6, <1>7, <1>8, AppendProperties
<1>10. /\ fr.phase = "redirecting" /\ fr.fd = None /\ fr.entry = Top.entry
       /\ fr.saved = more
       /\ IsFrame(fr)
  BY <1>2, <1>4, <1>5, <1>6, <1>9 DEF Installed, IsFrame, Phases, FdOrNone
<1>11. WithEntry(fr, target, s) BY <1>5, <1>6, <1>10 DEF WithEntry, Entries
<1>12. Retargeted(t, target, fds') /\ SetTop(fr) /\ redirs' = redirs + 1
       /\ UNCHANGED <<tty, failures>>
  BY <1>4 DEF Works
<1>13. CountersFine
  BY <1>1, <1>12, RedirectionAssumption DEF CountersFine, IInv, TypeOK
<1> QED BY <1>10, <1>11, <1>12, <1>13, EntryStep

\* A redirection that has saved its target fails.
LEMMA SavedFails ==
    ASSUME IInv, NEW target \in Named, Redirecting(target),
           NEW t, t = Saved(target), NEW s, s = Save(target), Fail(t, s), UNCHANGED tty
    PROVE  IInv' /\ Bounded
<1>1. SavedAs(target, s, t) /\ IsTable(t, Ofd) /\ CloexecKept(fds, t) /\ Quiet(t)
  BY SaveDoes
<1>2. frames # <<>> /\ Top.phase = "redirecting" /\ redirs < MaxRedirs
  BY DEF Redirecting
<1>3. \A f : IsCloexec(t, f) => f = s \/ IsCloexec(fds, f)
  BY <1>1 DEF SavedAs, IsCloexec
<1> QED BY <1>1, <1>2, <1>3, FailStep

LEMMA RefusedKeeps ==
    ASSUME IInv, NEW target \in Named, Refused(target)
    PROVE  IInv' /\ Bounded
<1>1. frames # <<>> /\ Top.phase = "redirecting" /\ redirs < MaxRedirs
      /\ Fail(fds, None) /\ UNCHANGED tty
  BY DEF Refused
<1>2. IsTable(fds, Ofd) /\ Quiet(fds) /\ CloexecKept(fds, fds) BY <1>1, InRedirecting
<1>3. PICK t : t = fds OBVIOUS
<1>4. PICK s : s = None OBVIOUS
<1> QED BY <1>1, <1>2, <1>3, <1>4, FailStep

LEMMA NotOpenedKeeps ==
    ASSUME IInv, NEW target \in Named, NotOpened(target)
    PROVE  IInv' /\ Bounded
<1>1. PICK t : t = Saved(target) OBVIOUS
<1>2. PICK s : s = Save(target) OBVIOUS
<1>3. Redirecting(target) /\ Fail(t, s) /\ UNCHANGED tty BY <1>1, <1>2 DEF NotOpened
<1> QED BY <1>1, <1>2, <1>3, SavedFails

LEMMA OpenFileKeeps ==
    ASSUME IInv, NEW target \in Named, NEW access \in OpenAccess, OpenFile(target, access)
    PROVE  IInv' /\ Bounded
<1>1. PICK t : t = Saved(target) OBVIOUS
<1>2. PICK s : s = Save(target) OBVIOUS
<1>3. PICK fd : fd = MinUnusedFd(t, 0) OBVIOUS
<1>4. PICK o : o = NewOfd(access) OBVIOUS
<1>5. PICK w : w = OpenFd(t, 0, Body(o, FALSE)) OBVIOUS
<1>6. /\ Redirecting(target) /\ Fresh # {} /\ CanOpen(t, 0) /\ UNCHANGED tty
      /\ Install(w, fd, TRUE, target, s)
  BY <1>1, <1>2, <1>3, <1>4, <1>5 DEF OpenFile
<1>7. access \in Access BY RedirectionAssumption DEF Access
<1>8. o \in Ofd /\ o.access = access /\ ~o.foreign BY <1>4, <1>6, <1>7, NewIsOfd
<1>9. SavedAs(target, s, t) /\ IsTable(t, Ofd) /\ CloexecKept(fds, t) /\ Quiet(t)
  BY <1>1, <1>2, <1>6, SaveDoes
<1>10. Fail(t, s) \/ Works(t, target, s)
  BY <1>3, <1>5, <1>6, <1>8, <1>9, InstallOwned
<1> QED BY <1>1, <1>2, <1>6, <1>10, SavedFails, WorksKeeps

LEMMA OpenNoClobberKeeps ==
    ASSUME IInv, NEW target \in Named, NEW exists \in BOOLEAN,
           OpenNoClobber(target, exists)
    PROVE  IInv' /\ Bounded
<1>1. PICK t : t = Saved(target) OBVIOUS
<1>2. PICK s : s = Save(target) OBVIOUS
<1>3. Redirecting(target) /\ Fresh # {} /\ CanOpen(t, 0) /\ UNCHANGED tty
  BY <1>1 DEF OpenNoClobber
<1>4. SavedAs(target, s, t) /\ IsTable(t, Ofd) /\ CloexecKept(fds, t) /\ Quiet(t)
  BY <1>1, <1>2, <1>3, SaveDoes
<1>5. frames # <<>> /\ Top.phase = "redirecting" /\ redirs < MaxRedirs
      /\ ~IsCloexec(fds, target)
  BY <1>3 DEF Redirecting
<1>6. IsFrame(Top) /\ Top.fd = None /\ Quiet(fds) BY <1>5, InRedirecting
<1>7. CASE ~exists
  <2>1. PICK fd : fd = MinUnusedFd(t, 0) OBVIOUS
  <2>2. PICK o : o = NewOfd("WriteOnly") OBVIOUS
  <2>3. PICK w : w = OpenFd(t, 0, Body(o, FALSE)) OBVIOUS
  <2>4. Install(w, fd, TRUE, target, s)
    BY <1>1, <1>2, <1>7, <2>1, <2>2, <2>3 DEF OpenNoClobber
  <2>5. "WriteOnly" \in Access BY DEF Access
  <2>6. o \in Ofd /\ o.access = "WriteOnly" /\ ~o.foreign
    BY <1>3, <2>2, <2>5, NewIsOfd
  <2>7. Fail(t, s) \/ Works(t, target, s)
    BY <1>3, <1>4, <2>1, <2>3, <2>4, <2>6, InstallOwned
  <2> QED BY <1>1, <1>2, <1>3, <2>7, SavedFails, WorksKeeps
<1>8. CASE exists
  <2>1. PICK fr : fr = [Top EXCEPT !.phase = "reopening", !.target = target, !.save = s]
    OBVIOUS
  <2>2. fds' = t /\ SetTop(fr) /\ UNCHANGED <<redirs, failures>>
    BY <1>1, <1>2, <1>8, <2>1 DEF OpenNoClobber
  <2>3. s \in FdOrNone BY <1>4 DEF SavedAs
  <2>4. /\ fr.phase = "reopening" /\ fr.target = target /\ fr.save = s
        /\ fr.fd = None /\ fr.entry = Top.entry /\ fr.saved = Top.saved
        /\ IsFrame(fr)
    BY <1>6, <2>1, <2>3 DEF IsFrame, Phases
  <2>5. WithEntry(fr, target, s) BY <2>4 DEF WithEntry, Entries
  <2>6. target \in DOMAIN t => ~t[target].cloexec /\ ~t[target].ofd.foreign
    BY <1>4, <1>5, <1>6 DEF SavedAs, IsCloexec, Quiet
  <2>7. Retargeted(t, target, fds') BY <1>4, <2>2, <2>6 DEF Retargeted
  <2>8. CountersFine BY <1>3, <2>2 DEF CountersFine, IInv, TypeOK
  <2>9. redirs' < MaxRedirs BY <1>5, <2>2
  <2> QED BY <1>1, <1>2, <1>3, <2>2, <2>5, <2>7, <2>8, <2>9, EntryStep
<1> QED BY <1>7, <1>8

LEMMA CopyFdKeeps ==
    ASSUME IInv, NEW target \in Named, NEW fd \in Named, NEW access,
           CopyFd(target, fd, access)
    PROVE  IInv' /\ Bounded
<1>1. PICK t : t = Saved(target) OBVIOUS
<1>2. PICK s : s = Save(target) OBVIOUS
<1>3. /\ Redirecting(target) /\ UNCHANGED tty
      /\ \/ fd \in DOMAIN t /\ ~t[fd].cloexec /\ Install(t, fd, FALSE, target, s)
         \/ Fail(t, s)
  BY <1>1, <1>2 DEF CopyFd
<1>4. SavedAs(target, s, t) /\ IsTable(t, Ofd) /\ CloexecKept(fds, t) /\ Quiet(t)
  BY <1>1, <1>2, <1>3, SaveDoes
<1>5. CASE fd \in DOMAIN t /\ ~t[fd].cloexec /\ Install(t, fd, FALSE, target, s)
  <2>1. ~t[fd].ofd.foreign BY <1>4, <1>5 DEF Quiet
  <2>2. Fail(t, s) \/ Works(t, target, s) BY <1>4, <1>5, <2>1, InstallCopied
  <2> QED BY <1>1, <1>2, <1>3, <2>2, SavedFails, WorksKeeps
<1>6. CASE Fail(t, s) BY <1>1, <1>2, <1>3, <1>6, SavedFails
<1> QED BY <1>3, <1>5, <1>6

LEMMA CloseTargetKeeps ==
    ASSUME IInv, NEW target \in Named, CloseTarget(target)
    PROVE  IInv' /\ Bounded
<1>1. PICK t : t = Saved(target) OBVIOUS
<1>2. PICK s : s = Save(target) OBVIOUS
<1>3. PICK e : e = [original |-> target, save |-> s] OBVIOUS
<1>4. PICK more : more = Append(Top.saved, e) OBVIOUS
<1>5. PICK fr : fr = [Top EXCEPT !.saved = more] OBVIOUS
<1>6. /\ Redirecting(target) /\ fds' = CloseFd(t, target) /\ SetTop(fr)
      /\ redirs' = redirs + 1 /\ UNCHANGED <<tty, failures>>
  BY <1>1, <1>2, <1>3, <1>4, <1>5 DEF CloseTarget
<1>7. frames # <<>> /\ Top.phase = "redirecting" /\ redirs < MaxRedirs
  BY <1>6 DEF Redirecting
<1>8. SavedAs(target, s, t) /\ IsTable(t, Ofd) /\ CloexecKept(fds, t) /\ Quiet(t)
  BY <1>1, <1>2, <1>6, SaveDoes
<1>9. IsFrame(Top) /\ Top.fd = None BY <1>7, InRedirecting
<1>10. e \in SavedFd BY <1>3, <1>8 DEF SavedFd, SavedAs
<1>11. Top.saved \in Seq(SavedFd) BY <1>9 DEF IsFrame
<1>12. more \in Seq(SavedFd) BY <1>4, <1>10, <1>11, AppendProperties
<1>13. /\ fr.phase = "redirecting" /\ fr.fd = None /\ fr.entry = Top.entry
       /\ fr.saved = more
       /\ IsFrame(fr)
  BY <1>5, <1>7, <1>9, <1>12 DEF IsFrame
<1>14. WithEntry(fr, target, s) BY <1>3, <1>4, <1>13 DEF WithEntry, Entries
<1>15. PICK u : u = fds' OBVIOUS
<1>16. IsTable(u, Ofd) /\ Without(t, target, u) BY <1>6, <1>8, <1>15, CloseRemoves
<1>17. Retargeted(t, target, fds') BY <1>15, <1>16 DEF Retargeted, Without
<1>18. CountersFine
  BY <1>6, <1>7, RedirectionAssumption DEF CountersFine, IInv, TypeOK
<1> QED BY <1>1, <1>2, <1>6, <1>13, <1>14, <1>17, <1>18, EntryStep

LEMMA PerformKeeps ==
    ASSUME IInv, NEW target \in Named, Perform(target)
    PROVE  IInv' /\ Bounded
BY RefusedKeeps, NotOpenedKeeps, OpenFileKeeps, OpenNoClobberKeeps, CopyFdKeeps,
   CloseTargetKeeps DEF Perform

\* While > without clobber is being performed.
LEMMA InReopening ==
    ASSUME IInv, frames # <<>>, Top.phase \in {"reopening", "checking"}
    PROVE  /\ IsFrame(Top) /\ FrameFine(Top, fds) /\ Untouched(Top, fds)
           /\ redirs < MaxRedirs /\ IsTable(fds, Ofd)
           /\ Entries(Top) = Append(Top.saved, [original |-> Top.target, save |-> Top.save])
           /\ InternalOf(Top) = SavesOf(Entries(Top))
           /\ ~IsCloexec(fds, Top.target)
<1>1. IsFrame(Top) /\ FrameFine(Top, fds) /\ TopFine(Top, fds) BY TopFrame
<1> QED BY <1>1 DEF TopFine, IInv, Stack, TypeOK, Entries, InternalOf

\* A step that leaves the entries as they are.
LEMMA SameEntries ==
    ASSUME IInv, frames # <<>>, Top.phase \in {"reopening", "checking"},
           NEW u, CloexecKept(fds, u), NEW fr, Entries(fr) = Entries(Top),
           fr.entry = Top.entry, fr.phase # "script",
           fr.fd # None <=> fr.phase = "checking"
    PROVE  FrameFine(fr, u) /\ InternalOf(fr) = InternalOf(Top)
<1>1. IsFrame(Top) /\ FrameFine(Top, fds) /\ InternalOf(Top) = SavesOf(Entries(Top))
  BY InReopening
<1>2. \A f \in InternalOf(Top) : f \in DOMAIN u /\ u[f] = fds[f]
  BY <1>1 DEF FrameFine, Kept, IsCloexec, CloexecKept
<1>3. PICK top : top = Top OBVIOUS
<1>4. FrameFine(top, u) BY <1>1, <1>2, <1>3, FrameKept
<1>5. InternalOf(fr) = InternalOf(Top) BY <1>1 DEF InternalOf
<1>6. top.phase # "script" BY <1>3
<1> QED BY <1>3, <1>4, <1>5, <1>6 DEF FrameFine

LEMMA ReopenKeeps ==
    ASSUME IInv, NEW kind, Reopen(kind)
    PROVE  IInv' /\ Bounded
<1>1. frames # <<>> /\ Top.phase = "reopening" /\ UNCHANGED tty BY DEF Reopen
<1>2. /\ IsFrame(Top) /\ FrameFine(Top, fds) /\ Untouched(Top, fds)
      /\ redirs < MaxRedirs /\ IsTable(fds, Ofd)
      /\ ~IsCloexec(fds, Top.target)
  BY <1>1, InReopening
<1>3. Quiet(fds) /\ CloexecKept(fds, fds)
  BY <1>1, NoneForeign DEF Quiet, IInv, Reserved, CloexecKept
<1>4. CASE ~(kind # "absent" /\ CanOpen(fds, 0) /\ Fresh # {})
  <2>1. PICK t : t = fds OBVIOUS
  <2>2. PICK s : s = Top.save OBVIOUS
  <2>3. Fail(t, s) BY <1>4, <2>1, <2>2 DEF Reopen
  <2> QED BY <1>1, <1>2, <1>3, <2>1, <2>2, <2>3, FailStep
<1>5. CASE kind # "absent" /\ CanOpen(fds, 0) /\ Fresh # {}
  <2>1. PICK g : g = MinUnusedFd(fds, 0) OBVIOUS
  <2>2. PICK new : new = NewOfd("WriteOnly") OBVIOUS
  <2>3. PICK o : o = [new EXCEPT !.foreign = (kind = "regular")] OBVIOUS
  <2>4. PICK b : b = Body(o, FALSE) OBVIOUS
  <2>5. PICK u : u = OpenFd(fds, 0, b) OBVIOUS
  <2>6. PICK fr : fr = [Top EXCEPT !.phase = "checking", !.fd = g] OBVIOUS
  <2>7. fds' = u /\ SetTop(fr) /\ UNCHANGED <<redirs, failures>>
    BY <1>5, <2>1, <2>2, <2>3, <2>4, <2>5, <2>6 DEF Reopen
  <2>8. "WriteOnly" \in Access BY DEF Access
  <2>9. new \in Ofd /\ new.access = "WriteOnly" /\ ~new.foreign
    BY <1>5, <2>2, <2>8, NewIsOfd
  <2>10. o \in Ofd BY <2>3, <2>9 DEF Ofd
  <2>11. b \in Bodies /\ b.ofd = o /\ b.cloexec = FALSE BY <2>4, <2>10 DEF Body, Bodies
  <2>12. g \in Below \ DOMAIN fds BY <1>2, <1>5, <2>1, OpensFree
  <2>13. IsTable(u, Ofd) /\ Replaced(fds, g, b, u)
    BY <1>2, <1>5, <2>1, <2>5, <2>11, OpenReplaces
  <2>14. g # None /\ g \in FdOrNone BY <2>12 DEF Below, None, FdOrNone
  <2>15. /\ fr.phase = "checking" /\ fr.target = Top.target /\ fr.save = Top.save
         /\ fr.fd = g /\ fr.entry = Top.entry /\ fr.saved = Top.saved
         /\ IsFrame(fr)
    BY <1>2, <2>6, <2>14 DEF IsFrame, Phases
  <2>16. Entries(fr) = Entries(Top) BY <1>1, <2>15 DEF Entries
  <2>17. CloexecKept(fds, u) BY <2>12, <2>13 DEF CloexecKept, Replaced
  <2>18. FrameFine(fr, u) /\ InternalOf(fr) = InternalOf(Top)
    BY <1>1, <2>14, <2>15, <2>16, <2>17, SameEntries
  <2>19. Top.fd = None BY <1>1, <1>2 DEF FrameFine
  <2>20. Untouched(fr, u)
    <3>1. ASSUME NEW f \in 0 .. OpenMax - 1,
                 f \notin OriginalsOf(Entries(fr)) \union InternalOf(fr)
          PROVE  /\ f \in DOMAIN u \ {g} <=> f \in DOMAIN Top.entry
                 /\ f \in DOMAIN Top.entry => u[f] = Top.entry[f]
      <4>1. f # None BY DEF None
      <4>2. /\ f \in DOMAIN fds <=> f \in DOMAIN Top.entry
            /\ f \in DOMAIN Top.entry => fds[f] = Top.entry[f]
        BY <1>2, <2>16, <2>18, <2>19, <3>1, <4>1 DEF Untouched
      <4> QED BY <2>12, <2>13, <4>2 DEF Replaced
    <3> QED BY <2>15, <3>1 DEF Untouched
  <2>21. g \in DOMAIN u /\ ~u[g].cloexec BY <2>11, <2>13 DEF Replaced
  <2>22. ~IsCloexec(u, Top.target)
    BY <1>2, <2>11, <2>13 DEF IsCloexec, Replaced
  <2>23. TopFine(fr, u) BY <2>15, <2>20, <2>21, <2>22 DEF TopFine
  <2>24. ASSUME NEW f \in DOMAIN u
         PROVE  /\ u[f].cloexec => f >= MinInternalFd
                /\ u[f].ofd.foreign => f = g
    <3>1. CASE f = g BY <2>21, <3>1
    <3>2. CASE f # g
      <4>1. f \in DOMAIN fds /\ u[f] = fds[f] BY <2>13, <3>2 DEF Replaced
      <4> QED BY <1>3, <4>1 DEF Quiet
    <3> QED BY <3>1, <3>2
  <2>25. CountersFine BY <1>1, <2>7 DEF CountersFine, IInv, TypeOK
  <2>26. \A f \in InternalOf(fr) : f \in InternalOf(Top) BY <2>18
  <2>27. \A f \in OriginalsOf(Entries(fr)) : f \in OriginalsOf(Entries(Top)) BY <2>16
  <2>28. redirs' < MaxRedirs BY <1>2, <2>7
  <2>29. IInv'
    BY <1>1, <2>7, <2>13, <2>15, <2>17, <2>18, <2>23, <2>24, <2>25, <2>26, <2>27, <2>28,
       TopStep
  <2>30. \A f : IsCloexec(fds', f) => IsCloexec(fds, f)
    BY <2>7, <2>13, <2>21 DEF IsCloexec, Replaced
  <2>31. PICK x : x = None OBVIOUS
  <2>32. \A f \in Stray' : f \in Stray \/ (f = x /\ x # None)
    BY <1>1, <2>7, <2>13, <2>15, <2>18, <2>30, TopLeaks
  <2>33. Bounded BY <2>7, <2>31, <2>32, LeakAtMost
  <2> QED BY <2>29, <2>33
<1> QED BY <1>4, <1>5

LEMMA CheckReopenedKeeps ==
    ASSUME IInv, CheckReopened
    PROVE  IInv' /\ Bounded
<1>1. frames # <<>> /\ Top.phase = "checking" /\ UNCHANGED tty BY DEF CheckReopened
<1>2. PICK fd : fd = Top.fd OBVIOUS
<1>3. PICK target : target = Top.target OBVIOUS
<1>4. PICK s : s = Top.save OBVIOUS
<1>5. /\ IsFrame(Top) /\ FrameFine(Top, fds) /\ Untouched(Top, fds)
      /\ redirs < MaxRedirs /\ IsTable(fds, Ofd)
      /\ Entries(Top) = Append(Top.saved, [original |-> target, save |-> s])
      /\ ~IsCloexec(fds, target)
  BY <1>1, <1>3, <1>4, InReopening
<1>6. fd \in DOMAIN fds /\ ~fds[fd].cloexec BY <1>1, <1>2, TopFrame DEF TopFine
<1>7. \A f \in DOMAIN fds : /\ fds[f].cloexec => f >= MinInternalFd
                            /\ fds[f].ofd.foreign => f = fd
  BY <1>2 DEF IInv, Reserved, Foreign
<1>8. PICK v : v = CloseFd(fds, fd) OBVIOUS
<1>9. IsTable(v, Ofd) /\ Without(fds, fd, v) BY <1>5, <1>8, CloseRemoves
<1>10. CloexecKept(fds, v) /\ Quiet(v)
  BY <1>6, <1>7, <1>9 DEF CloexecKept, Quiet, Without
<1>11. CASE Fail(v, s)
  <2>1. \A f : IsCloexec(v, f) => IsCloexec(fds, f) BY <1>9 DEF IsCloexec, Without
  <2> QED BY <1>1, <1>4, <1>5, <1>9, <1>10, <1>11, <2>1, FailStep
<1>12. CASE ~Fail(v, s)
  <2>1. ~fds[fd].ofd.foreign /\ Install(fds, fd, TRUE, target, s)
    BY <1>2, <1>3, <1>4, <1>8, <1>12 DEF CheckReopened, IsRegularFile
  <2>2. Quiet(fds) BY <1>7, <2>1 DEF Quiet
  <2>3. PICK b : b = Body(fds[fd].ofd, FALSE) OBVIOUS
  <2>4. b.cloexec = FALSE /\ b.ofd = fds[fd].ofd BY <2>3 DEF Body
  <2>5. b = fds[fd]
    <3>1. fds[fd] = Body(fds[fd].ofd, fds[fd].cloexec) /\ fds[fd].cloexec \in BOOLEAN
      BY <1>5, <1>6, InTable
    <3>2. fds[fd].cloexec = FALSE BY <1>6, <3>1
    <3> QED BY <2>3, <3>1, <3>2
  <2>6. PICK fr : fr = Installed(target, s) OBVIOUS
  <2>7. PICK u : u = fds' OBVIOUS
  <2>8. /\ SetTop(fr) /\ redirs' = redirs + 1 /\ UNCHANGED failures
        /\ IsTable(u, Ofd)
        /\ target \in DOMAIN u /\ u[target] = b
        /\ fd # target => fd \notin DOMAIN u
        /\ \A f : f # target /\ f # fd => /\ f \in DOMAIN u <=> f \in DOMAIN fds
                                          /\ f \in DOMAIN fds => u[f] = fds[f]
    <3>1. CASE fd = target
      <4>1. fds' = fds /\ SetTop(fr) /\ redirs' = redirs + 1 /\ UNCHANGED failures
        BY <2>1, <2>6, <3>1 DEF Install, Installed
      <4> QED BY <1>5, <1>6, <2>5, <2>7, <3>1, <4>1
    <3>2. CASE fd # target
      <4>1. CanDup2(fds, fd, target) BY <1>8, <1>12, <2>1, <3>2 DEF Install
      <4>2. PICK x : x = Dup2(fds, fd, target) OBVIOUS
      <4>3. u = CloseFd(x, fd) /\ SetTop(fr) /\ redirs' = redirs + 1
            /\ UNCHANGED failures
        BY <2>1, <2>6, <2>7, <3>2, <4>1, <4>2 DEF Install, Installed
      <4>4. IsTable(x, Ofd) /\ Replaced(fds, target, Body(fds[fd].ofd, FALSE), x)
        BY <1>5, <4>1, <4>2, DupReplaces
      <4>5. IsTable(u, Ofd) /\ Without(x, fd, u) BY <4>3, <4>4, CloseRemoves
      <4>6. Replaced(fds, target, b, x) BY <2>3, <4>4
      <4> QED BY <3>2, <4>3, <4>5, <4>6 DEF Replaced, Without
    <3> QED BY <3>1, <3>2
  <2>9. PICK more : more = Entries(Top) OBVIOUS
  <2>10. more \in Seq(SavedFd) BY <1>1, <1>5, <2>9 DEF FrameFine, Undoable
  <2>11. /\ fr.phase = "redirecting" /\ fr.fd = None /\ fr.entry = Top.entry
         /\ fr.saved = more
         /\ IsFrame(fr)
    BY <1>5, <2>6, <2>9, <2>10 DEF Installed, IsFrame, Phases, FdOrNone
  <2>12. Entries(fr) = Entries(Top) BY <2>9, <2>11 DEF Entries
  <2>13. CloexecKept(fds, u) BY <1>5, <1>6, <2>8 DEF CloexecKept, IsCloexec
  <2>14. FrameFine(fr, u) /\ InternalOf(fr) = InternalOf(Top)
    BY <1>1, <2>11, <2>12, <2>13, SameEntries
  <2>15. target \in OriginalsOf(Entries(Top))
    <3>1. PICK e : e = [original |-> target, save |-> s] OBVIOUS
    <3>2. Top.saved \in Seq(SavedFd) BY <1>5 DEF IsFrame
    <3>3. PICK list : list = Top.saved OBVIOUS
    <3>4. more = Append(list, e) BY <1>5, <2>9, <3>1, <3>3
    <3>5. e \in SavedFd BY <2>10, <3>2, <3>3, <3>4, PendingIsEntry
    <3>6. /\ SavesOf(more) = SavesOf(list) \union ({e.save} \ {None})
          /\ OriginalsOf(more) = OriginalsOf(list) \union {e.original}
      BY <3>2, <3>3, <3>4, <3>5, AppendedTo
    <3> QED BY <2>9, <3>1, <3>6
  <2>16. Untouched(fr, u)
    <3>1. ASSUME NEW f \in 0 .. OpenMax - 1,
                 f \notin OriginalsOf(Entries(fr)) \union InternalOf(fr)
          PROVE  /\ f \in DOMAIN u \ {None} <=> f \in DOMAIN Top.entry
                 /\ f \in DOMAIN Top.entry => u[f] = Top.entry[f]
      <4>1. f # None /\ f # target BY <2>12, <2>15, <3>1 DEF None
      <4>2. /\ f \in DOMAIN fds \ {fd} <=> f \in DOMAIN Top.entry
            /\ f \in DOMAIN Top.entry => fds[f] = Top.entry[f]
        BY <1>2, <1>5, <2>12, <2>14, <3>1 DEF Untouched
      <4> QED BY <2>8, <4>1, <4>2
    <3> QED BY <2>11, <3>1 DEF Untouched
  <2>17. TopFine(fr, u) BY <2>11, <2>16 DEF TopFine
  <2>18. ASSUME NEW f \in DOMAIN u
         PROVE  (u[f].cloexec => f >= MinInternalFd) /\ ~u[f].ofd.foreign
    <3>1. CASE f = target BY <2>1, <2>4, <2>8, <3>1
    <3>2. CASE f # target
      <4>1. f \in DOMAIN fds /\ u[f] = fds[f] BY <2>8, <3>2
      <4> QED BY <2>2, <4>1 DEF Quiet
    <3> QED BY <3>1, <3>2
  <2>19. CountersFine
    BY <1>1, <1>5, <2>8, RedirectionAssumption DEF CountersFine, IInv, TypeOK
  <2>20. \A f \in InternalOf(fr) : f \in InternalOf(Top) BY <2>14
  <2>21. \A f \in OriginalsOf(Entries(fr)) : f \in OriginalsOf(Entries(Top)) BY <2>12
  <2>22. fr.phase \notin {"reopening", "checking"} BY <2>11
  <2>23. IInv'
    BY <1>1, <2>7, <2>8, <2>11, <2>13, <2>14, <2>17, <2>18, <2>19, <2>20, <2>21, <2>22,
       TopStep
  <2>24. ASSUME NEW f, IsCloexec(fds', f) PROVE IsCloexec(fds, f)
    <3>1. f # target /\ f # fd BY <2>4, <2>7, <2>8, <2>24 DEF IsCloexec
    <3> QED BY <2>7, <2>8, <2>24, <3>1 DEF IsCloexec
  <2>25. PICK x : x = None OBVIOUS
  <2>26. \A f \in Stray' : f \in Stray \/ (f = x /\ x # None)
    BY <1>1, <2>7, <2>8, <2>11, <2>14, <2>24, TopLeaks
  <2>27. Bounded BY <2>8, <2>25, <2>26, LeakAtMost
  <2> QED BY <2>23, <2>27
<1> QED BY <1>11, <1>12

-----------------------------------------------------------------------------
(***************************************************************************)
(* The theorems.                                                           *)
(***************************************************************************)

LEMMA NextIInv == IInv /\ [Next]_vars => IInv' /\ Bounded
<1> SUFFICES ASSUME IInv, [Next]_vars PROVE IInv' /\ Bounded OBVIOUS
<1>1. CASE UNCHANGED vars
  <2>1. UNCHANGED <<fds, frames, tty, redirs, failures>> BY <1>1 DEF vars
  <2>2. Top' = Top BY <2>1 DEF Top
  <2>3. TypeOK' BY <2>1 DEF IInv, TypeOK
  <2>4. Stack' BY <2>1, <2>2 DEF IInv, Stack
  <2>5. Reserved' /\ Foreign' BY <2>1, <2>2 DEF IInv, Reserved, Foreign
  <2>6. \A f \in Stray' : f \in Stray BY <2>1, StrayIs DEF InUse
  <2>7. Bounded BY <2>1, <2>6, NoneLeaks
  <2> QED BY <2>3, <2>4, <2>5, <2>7 DEF IInv
<1>2. CASE Begin BY <1>2, BeginKeeps
<1>3. CASE \E target \in Named : Perform(target) BY <1>3, PerformKeeps
<1>4. CASE \E kind \in {"absent", "regular", "special"} : Reopen(kind)
  BY <1>4, ReopenKeeps
<1>5. CASE CheckReopened BY <1>5, CheckReopenedKeeps
<1>6. CASE StartBody BY <1>6, StartBodyKeeps
<1>7. CASE Undo BY <1>7, UndoKeeps
<1>8. CASE Preserve BY <1>8, PreserveKeeps
<1>9. CASE GetTty BY <1>9, GetTtyKeeps
<1>10. CASE Dot BY <1>10, DotKeeps
<1>11. CASE DotEnd BY <1>11, DotEndKeeps
<1> QED BY <1>1, <1>2, <1>3, <1>4, <1>5, <1>6, <1>7, <1>8, <1>9, <1>10, <1>11 DEF Next

\* The inductive invariant: the frames are in order, each can be undone, and no
\* descriptor serves two of them.
THEOREM Invariant == Spec => []IInv
BY InitIInv, NextIInv, PTL DEF Spec

\* ReservedFd, dup with MIN_INTERNAL_FD and undo_redirs: what guards have saved
\* and the scripts being read stay open, closed on exec and apart, whatever
\* redirections, exec and nested commands do.
THEOREM InternalStaysIntact == Spec => []InternalIntact
<1>1. ASSUME IInv PROVE InternalIntact
  <2>1. Len(frames) \in Nat BY <1>1, FramesAre DEF IInv
  <2>2. ASSUME NEW i \in 1 .. Len(frames)
        PROVE  /\ \A f \in Internal(i) : f >= MinInternalFd /\ IsCloexec(fds, f)
               /\ frames[i].phase = "script" =>
                     fds[frames[i].save] = frames[i].entry[frames[i].save]
    BY <1>1 DEF IInv, Stack, FrameFine, Kept, Internal
  <2>3. ASSUME NEW i \in 1 .. Len(frames), NEW j \in 1 .. Len(frames), i # j
        PROVE  Internal(i) \cap Internal(j) = {}
    <3>1. CASE j < i BY <1>1, <3>1 DEF IInv, Stack, Apart, Internal
    <3>2. CASE i < j BY <1>1, <3>2 DEF IInv, Stack, Apart, Internal
    <3> QED BY <2>1, <2>3, <3>1, <3>2
  <2> QED BY <1>1, <2>2, <2>3 DEF InternalIntact, IInv, Reserved
<1> QED BY <1>1, Invariant, PTL

\* The second open of > without clobber and fstat: whatever other processes do
\* between them, no command gets a regular file made by somebody else.
THEOREM NoForeignFile == Spec => []NoClobber
<1>1. IInv => NoClobber BY DEF IInv, Foreign, NoClobber
<1> QED BY <1>1, Invariant, PTL

\* perform returns early when a redirection fails, and nobody closes the copy it
\* has saved; nothing else loses a descriptor: the shell never has more open
\* for itself, beyond those in use, than redirections have failed so.
THEOREM LeaksAreFailures == Spec => []LeakBounded
<1>1. Init => LeakBounded
  <2> SUFFICES ASSUME Init PROVE LeakBounded OBVIOUS
  <2>1. \A f \in DOMAIN fds : ~fds[f].cloexec
    <3>1. PICK m : m = Min({2, MinInternalFd - 1}) OBVIOUS
    <3>2. PICK D \in SUBSET (0 .. m) :
              fds = [f \in D |-> Body([id |-> f, access |-> "ReadWrite", foreign |-> FALSE],
                                      FALSE)]
      BY <3>1 DEF Init
    <3> QED BY <3>2 DEF Body
  <2>2. Stray = {} BY <2>1 DEF Stray
  <2>3. failures = 0 BY DEF Init
  <2> QED BY <2>2, <2>3, FS_EmptySet DEF LeakBounded
<1>2. IInv /\ LeakBounded /\ [Next]_vars => LeakBounded' BY NextIInv DEF Bounded
<1> QED BY <1>1, <1>2, Invariant, PTL DEF Spec

\* RedirGuard::drop: every descriptor a command has redirected is again what it
\* was before the command, however often the command redirected it and whatever
\* its body did; the other descriptors of the user stay as the body left them.
THEOREM UndoGivesBack == Spec => UndoRestores
<1>1. ASSUME IInv, Undo
      PROVE  /\ \A f \in OriginalsOf(Top.saved) :
                   /\ (f \in DOMAIN fds') = (f \in DOMAIN Top.entry)
                   /\ f \in DOMAIN fds' => fds'[f] = Top.entry[f]
             /\ \A f \in (0 .. MinInternalFd - 1) \ OriginalsOf(Top.saved) :
                   /\ (f \in DOMAIN fds') = (f \in DOMAIN fds)
                   /\ f \in DOMAIN fds => fds'[f] = fds[f]
  <2>1. PICK list : list = Top.saved OBVIOUS
  <2>2. PICK entry : entry = Top.entry OBVIOUS
  <2>3. PICK u : u = fds' OBVIOUS
  <2>4. PICK n : n = Len(list) OBVIOUS
  <2>5. /\ Undone(fds, list, 1, u) /\ Undoable(list, entry, fds)
        /\ InternalOf(Top) = SavesOf(list)
    BY <1>1, <2>1, <2>2, <2>3, UndoDoes
  <2>6. n \in Nat /\ list \in Seq(SavedFd)
    BY <2>4, <2>5, LenProperties DEF Undoable
  <2>7. ASSUME NEW f \in OriginalsOf(list)
        PROVE  (f \in DOMAIN u <=> f \in DOMAIN entry) /\ (f \in DOMAIN u => u[f] = entry[f])
    <3>1. PICK K : K = {k \in 1 .. n : list[k].original = f} OBVIOUS
    <3>2. K \subseteq Nat /\ K # {} BY <2>4, <2>7, <3>1 DEF OriginalsOf
    <3>3. PICK k : k = Min(K) OBVIOUS
    <3>4. k \in K /\ \A y \in K : k <= y BY <3>2, <3>3, MinIsIn
    <3>5. k \in 1 .. n /\ list[k].original = f BY <3>1, <3>4
    <3>6. \A m \in 1 .. k - 1 : list[m].original # f
      <4>1. \A m \in 1 .. k - 1 : m \in 1 .. n /\ ~(k <= m) BY <2>6, <3>5
      <4> QED BY <3>1, <3>4, <4>1
    <3>7. Restores(list[k], entry, fds) BY <2>4, <2>5, <3>5, <3>6 DEF Undoable
    <3>8. /\ list[k].save = None => f \notin DOMAIN u
          /\ list[k].save # None => /\ f \in DOMAIN u
                                    /\ u[f] = Body(fds[list[k].save].ofd, FALSE)
      BY <2>4, <2>5, <3>5, <3>6 DEF Undone
    <3> QED BY <3>5, <3>7, <3>8 DEF Restores
  <2>8. ASSUME NEW f \in 0 .. MinInternalFd - 1, f \notin OriginalsOf(list)
        PROVE  (f \in DOMAIN u <=> f \in DOMAIN fds) /\ (f \in DOMAIN fds => u[f] = fds[f])
    <3>1. f # None BY DEF None
    <3>2. frames # <<>> BY <1>1 DEF Undo
    <3>3. Kept(SavesOf(list), fds) BY <1>1, <2>5, <3>2, TopFrame DEF FrameFine
    <3>4. f \notin SavesOf(list) BY <3>3, RedirectionAssumption DEF Kept
    <3> QED BY <2>5, <2>8, <3>1, <3>4, UndoSpares
  <2> QED BY <2>1, <2>2, <2>3, <2>7, <2>8
<1>2. IInv /\ [Next]_vars =>
        [Undo =>
            /\ \A f \in OriginalsOf(Top.saved) :
                  /\ (f \in DOMAIN fds') = (f \in DOMAIN Top.entry)
                  /\ f \in DOMAIN fds' => fds'[f] = Top.entry[f]
            /\ \A f \in (0 .. MinInternalFd - 1) \ OriginalsOf(Top.saved) :
                  /\ (f \in DOMAIN fds') = (f \in DOMAIN fds)
                  /\ f \in DOMAIN fds => fds'[f] = fds[f] ]_vars
  BY <1>1
<1> QED BY <1>2, Invariant, PTL DEF Spec, UndoRestores

=============================================================================
