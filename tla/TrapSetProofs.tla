--------------------------- MODULE TrapSetProofs ----------------------------
(***************************************************************************)
(* Proofs about TrapSet, for any set of signals, any dispositions and any  *)
(* mask at the start, and any number of arrivals.                          *)
(***************************************************************************)
EXTENDS TrapSet, SequenceTheorems, TLAPS

(* EXIT is not a signal.                                                   *)
LEMMA ExitNoSignal == Exit \notin Signal
BY TrapSetAssumption

(* An entry has the fields it is made with.                                *)
LEMMA GrandFields ==
    ASSUME NEW a \in Action, NEW o \in Origin, NEW p \in BOOLEAN,
           NEW q \in TrapState \cup {None}, NEW i \in Disposition
    PROVE  /\ Grand(a, o, p, q, i) \in GrandState
           /\ Grand(a, o, p, q, i) # None
           /\ Grand(a, o, p, q, i).action = a /\ Grand(a, o, p, q, i).origin = o
           /\ Grand(a, o, p, q, i).pending = p /\ Grand(a, o, p, q, i).parent = q
           /\ Grand(a, o, p, q, i).internal = i
<1>1. Grand(a, o, p, q, i) \in GrandState
  BY DEF Grand, GrandState
<1>2. Grand(a, o, p, q, i) # None
  BY <1>1, NoneAssumption
<1> QED
  BY <1>1, <1>2 DEF Grand

\* An entry made for a signal that had none is inherited and has no parent.
LEMMA InitialEntry ==
    ASSUME NEW d \in Disposition, NEW i \in Disposition
    PROVE  /\ FromInitial(d, i) \in GrandState /\ FromInitial(d, i) # None
           /\ FromInitial(d, i).action \in {"Default", "Ignore"}
           /\ FromInitial(d, i).action = "Ignore" <=> d = "Ignore"
           /\ FromInitial(d, i).origin = "Inherited" /\ FromInitial(d, i).parent = None
           /\ FromInitial(d, i).internal = i
<1>1. FromInitial(d, i) \in GrandState
  BY DEF FromInitial, Grand, GrandState, Action, Origin
<1>2. FromInitial(d, i) # None
  BY <1>1, NoneAssumption
<1> QED
  BY <1>1, <1>2 DEF FromInitial, Grand

LEMMA StateFields ==
    ASSUME NEW g \in GrandState
    PROVE  /\ g # None /\ g.action \in Action /\ g.origin \in Origin
           /\ g.pending \in BOOLEAN /\ g.parent \in TrapState \cup {None}
           /\ g.internal \in Disposition
<1>1. g # None
  BY NoneAssumption
<1> QED
  BY <1>1 DEF GrandState

(* The effective disposition is the stronger of what the action and the    *)
(* shell itself ask for.                                                   *)
LEMMA EffectiveIsMax ==
    ASSUME NEW g \in GrandState
    PROVE  /\ Effective(g) \in Disposition
           /\ Effective(g) = "Catch" <=> (g.action = "Command" \/ g.internal = "Catch")
           /\ Effective(g) = "Default" <=> (g.action = "Default" /\ g.internal = "Default")
<1>1. g.action \in Action /\ g.internal \in Disposition
  BY StateFields
<1>2. Rank("Default") = 0 /\ Rank("Ignore") = 1 /\ Rank("Catch") = 2
  BY DEF Rank
<1>3. DispositionOf(g.action) \in Disposition /\ (DispositionOf(g.action) = "Catch" <=> g.action = "Command")
      /\ (DispositionOf(g.action) = "Default" <=> g.action = "Default")
  BY <1>1 DEF DispositionOf, Action, Disposition
<1>4. Effective(g) = IF Rank(g.internal) > Rank(DispositionOf(g.action)) THEN g.internal ELSE DispositionOf(g.action)
  BY DEF Effective
<1> QED
  BY <1>1, <1>2, <1>3, <1>4 DEF Disposition

(* How InSync reads in terms of the effective disposition e, the kernel's  *)
(* disposition d and the one at the start.                                 *)
Synced(e, d, start) == d = e \/ (e = "Default" /\ d = start /\ d = "Catch")

LEMMA SyncedMeans ==
    ASSUME NEW g \in GrandState, NEW d \in Disposition, NEW start
    PROVE  LET wanted == {DispositionOf(g.action), g.internal} IN
           (/\ "Catch" \in wanted => d = "Catch"
            /\ "Catch" \notin wanted /\ "Ignore" \in wanted => d = "Ignore"
            /\ wanted = {"Default"} => d = "Default" \/ (d = start /\ d = "Catch"))
           <=> Synced(Effective(g), d, start)
<1> DEFINE x == DispositionOf(g.action)
           y == g.internal
<1>1. x \in Disposition /\ (x = "Catch" <=> g.action = "Command") /\ (x = "Default" <=> g.action = "Default")
  BY StateFields DEF DispositionOf, Action, Disposition
<1>2. y \in Disposition
  BY StateFields
<1>3. {x, y} = {"Default"} <=> x = "Default" /\ y = "Default"
  OBVIOUS
<1>4. Effective(g) \in Disposition
      /\ (Effective(g) = "Catch" <=> (x = "Catch" \/ y = "Catch"))
      /\ (Effective(g) = "Default" <=> (x = "Default" /\ y = "Default"))
  BY <1>1, EffectiveIsMax
<1> HIDE DEF x, y
<1>5. (/\ "Catch" \in {x, y} => d = "Catch"
       /\ "Catch" \notin {x, y} /\ "Ignore" \in {x, y} => d = "Ignore"
       /\ {x, y} = {"Default"} => d = "Default" \/ (d = start /\ d = "Catch"))
      <=> Synced(Effective(g), d, start)
  BY <1>1, <1>2, <1>3, <1>4 DEF Synced, Disposition
<1> QED
  BY <1>5 DEF x, y

(* What TypeOK says of one entry.                                          *)
LEMMA EntryType ==
    ASSUME TypeOK, NEW c \in Cond, traps[c] # None
    PROVE  traps[c] \in GrandState
BY DEF TypeOK

-----------------------------------------------------------------------------
(* Install puts the kernel in step with the entries it installs, whatever  *)
(* they are, if it is told of every entry that was vacant.                 *)
LEMMA InstallSyncs ==
    ASSUME TypeOK, InSync, CaughtInSelect, startup' = startup,
           NEW T \in [Cond -> GrandState \cup {None}],
           NEW fresh \in SUBSET Signal, NEW blocked \in SUBSET Signal,
           NEW waiting \in SUBSET Signal,
           Install(T, fresh, blocked, waiting),
           mask \subseteq blocked,
           \A s \in Signal : T[s] = None <=> (traps[s] = None /\ s \notin fresh)
    PROVE  /\ traps' \in [Cond -> GrandState \cup {None}]
           /\ disp' \in [Signal -> Disposition]
           /\ mask' \in SUBSET Signal /\ arrived' \in SUBSET Signal
           /\ select_mask' \in (SUBSET Signal) \cup {None}
           /\ InSync' /\ CaughtInSelect'
           /\ arrived' \subseteq waiting
           /\ \A s \in waiting : T[s] # None /\ T[s].action = "Command" => s \in arrived'
<1> DEFINE calls == fresh \cup {s \in Signal : /\ traps[s] # None
                                               /\ Effective(T[s]) # Effective(traps[s])}
<1>1. /\ disp' = [s \in Signal |-> IF s \in calls THEN Effective(T[s]) ELSE disp[s]]
      /\ mask' = (blocked \ calls) \cup {s \in calls : Effective(T[s]) = "Catch"}
      /\ select_mask' = IF calls = {} THEN select_mask
                         ELSE (IF select_mask = None THEN blocked ELSE select_mask) \ calls
      /\ arrived' = {s \in waiting : s \in calls => Effective(T[s]) = "Catch"}
      /\ traps' = T
  BY DEF Install
<1>2. calls \subseteq Signal
  OBVIOUS
<1>3. \A s \in calls : T[s] \in GrandState
  BY <1>2 DEF Cond
<1>4. \A s \in Signal \ calls : T[s] = None <=> traps[s] = None
  OBVIOUS
<1>5. \A s \in Signal \ calls : traps[s] # None => Effective(T[s]) = Effective(traps[s])
  OBVIOUS
<1>6. Signal \subseteq Cond
  BY DEF Cond
<1> HIDE DEF calls
<1>7. disp' \in [Signal -> Disposition]
  <2>1. \A s \in Signal : disp[s] \in Disposition
    BY DEF TypeOK
  <2>2. \A s \in calls : Effective(T[s]) \in Disposition
    BY <1>3, EffectiveIsMax
  <2> QED
    BY <1>1, <2>1, <2>2
<1>8. mask' \in SUBSET Signal /\ arrived' \in SUBSET Signal
  BY <1>1, <1>2
<1>9. /\ select_mask' \in (SUBSET Signal) \cup {None}
      /\ \A s \in calls : select_mask' # None /\ s \notin select_mask'
      /\ select_mask # None => select_mask' # None /\ select_mask' \subseteq select_mask
  <2>1. CASE calls = {}
    BY <2>1, <1>1 DEF TypeOK
  <2>2. CASE calls # {}
    <3> DEFINE m == IF select_mask = None THEN blocked ELSE select_mask
    <3>0. m \in SUBSET Signal /\ (select_mask # None => m = select_mask)
      <4>1. select_mask \in (SUBSET Signal) \cup {None}
        BY DEF TypeOK
      <4>2. CASE select_mask = None
        BY <4>2
      <4>3. CASE select_mask # None
        <5>1. m = select_mask
          BY <4>3
        <5>2. select_mask \in SUBSET Signal
          BY <4>1, <4>3
        <5> QED
          BY <5>1, <5>2
      <4> QED
        BY <4>2, <4>3
    <3>1. select_mask' = m \ calls
      BY <2>2, <1>1
    <3> HIDE DEF m
    <3>2. m \ calls # None
      BY <3>0, NoneAssumption
    <3> QED
      BY <3>0, <3>1, <3>2
  <2> QED
    BY <2>1, <2>2
<1>10. InSync'
  <2> SUFFICES ASSUME NEW s \in Signal
               PROVE  IF T[s] = None THEN disp'[s] = startup[s]
                      ELSE LET wanted == {DispositionOf(T[s].action), T[s].internal} IN
                           (/\ "Catch" \in wanted => disp'[s] = "Catch"
                            /\ "Catch" \notin wanted /\ "Ignore" \in wanted => disp'[s] = "Ignore"
                            /\ wanted = {"Default"} =>
                                  disp'[s] = "Default" \/ (disp'[s] = startup[s] /\ disp'[s] = "Catch"))
    BY <1>1 DEF InSync
  <2>0. disp'[s] \in Disposition
    BY <1>7
  <2>1. CASE s \in calls
    <3>1. disp'[s] = Effective(T[s]) /\ T[s] \in GrandState /\ T[s] # None
      BY <2>1, <1>1, <1>3, NoneAssumption
    <3>2. Synced(Effective(T[s]), disp'[s], startup[s])
      BY <3>1 DEF Synced
    <3> QED
      BY <3>1, <3>2, <2>0, SyncedMeans
  <2>2. CASE s \notin calls /\ T[s] = None
    <3>1. disp'[s] = disp[s] /\ traps[s] = None
      BY <2>2, <1>1, <1>4
    <3>2. disp[s] = startup[s]
      BY <3>1 DEF InSync
    <3> QED
      BY <2>2, <3>1, <3>2
  <2>3. CASE s \notin calls /\ T[s] # None
    <3>1. /\ disp'[s] = disp[s] /\ disp[s] \in Disposition /\ traps[s] # None
          /\ Effective(T[s]) = Effective(traps[s])
      BY <2>3, <1>1, <1>4, <1>5 DEF TypeOK
    <3>2. traps[s] \in GrandState /\ T[s] \in GrandState
      BY <3>1, <2>3, <1>6 DEF TypeOK
    <3>3. Synced(Effective(traps[s]), disp[s], startup[s])
      BY <3>1, <3>2, SyncedMeans DEF InSync
    <3>4. Synced(Effective(T[s]), disp'[s], startup[s])
      BY <3>1, <3>3
    <3> QED
      BY <2>3, <3>1, <3>2, <3>4, SyncedMeans
  <2> QED
    BY <2>1, <2>2, <2>3
<1>11. CaughtInSelect'
  <2> SUFFICES ASSUME NEW s \in Signal, T[s] # None, T[s].action = "Command" \/ T[s].internal = "Catch"
               PROVE  s \in mask' /\ select_mask' # None /\ s \notin select_mask'
    BY <1>1 DEF CaughtInSelect, CatchWanted
  <2>1. T[s] \in GrandState /\ Effective(T[s]) = "Catch"
    BY <1>6, EffectiveIsMax
  <2>2. CASE s \in calls
    BY <2>1, <2>2, <1>1, <1>9
  <2>3. CASE s \notin calls
    <3>1. traps[s] # None /\ Effective(traps[s]) = "Catch"
      BY <2>1, <2>3, <1>4, <1>5
    <3>2. traps[s] \in GrandState
      BY <3>1, <1>6, EntryType
    <3>3. CatchWanted(s)
      BY <3>1, <3>2, EffectiveIsMax DEF CatchWanted
    <3>4. s \in mask /\ select_mask # None /\ s \notin select_mask
      BY <3>3 DEF CaughtInSelect
    <3> QED
      BY <2>3, <3>4, <1>1, <1>9
  <2> QED
    BY <2>2, <2>3
<1>12. \A s \in waiting : T[s] # None /\ T[s].action = "Command" => s \in arrived'
  <2> SUFFICES ASSUME NEW s \in waiting, T[s] # None, T[s].action = "Command"
               PROVE  s \in arrived'
    OBVIOUS
  <2>1. T[s] \in GrandState
    BY <1>6
  <2>2. Effective(T[s]) = "Catch"
    BY <2>1, EffectiveIsMax
  <2> QED
    BY <2>2, <1>1
<1> QED
  BY <1>1, <1>7, <1>8, <1>9, <1>10, <1>11, <1>12

(* The part of the invariant that an operation on the entries must keep.   *)
Entries ==
    /\ traps \in [Cond -> GrandState \cup {None}]
    /\ disp \in [Signal -> Disposition] /\ startup \in [Signal -> Disposition]
    /\ mask \in SUBSET Signal /\ arrived \in SUBSET Signal /\ owed \in SUBSET Signal
    /\ select_mask \in (SUBSET Signal) \cup {None}
    /\ InSync /\ CaughtInSelect /\ StartupIgnoreSticks /\ IgnoreIsInherited
    /\ CommandHasOrigin /\ ParentsOnlyUntouched /\ NoLostTrap

Rest ==
    /\ frames \in Seq(Cond)
    /\ phase \in {"start", "main", "done"}
    /\ draining \in BOOLEAN /\ subshell \in BOOLEAN /\ interactive \in BOOLEAN
    /\ monitor \in BOOLEAN /\ execed \in BOOLEAN
    /\ budget \in 0..MaxArrivals

LEMMA TwoParts == IInv <=> Entries /\ Rest
BY DEF IInv, Entries, Rest, TypeOK

LEMMA TwoPartsNext == Entries' /\ Rest' => IInv'
BY DEF IInv, Entries, Rest, TypeOK

(* What the new entries must be like.                                      *)
LEMMA InstallKeeps ==
    ASSUME IInv, UNCHANGED <<startup, interactive>>,
           NEW T \in [Cond -> GrandState \cup {None}],
           NEW fresh \in SUBSET Signal, NEW blocked \in SUBSET Signal,
           NEW waiting \in SUBSET Signal,
           Install(T, fresh, blocked, waiting),
           mask \subseteq blocked,
           \A s \in Signal : T[s] = None <=> (traps[s] = None /\ s \notin fresh),
           \A s \in Signal : ~interactive /\ startup[s] = "Ignore" /\ T[s] # None =>
                T[s].action = "Ignore" /\ T[s].origin = "Inherited",
           \A c \in Cond : T[c] # None /\ T[c].action = "Command" => T[c].origin = "User",
           (\E c \in Cond : T[c] # None /\ T[c].parent # None) =>
                \A c \in Cond : T[c] # None => T[c].action # "Command",
           owed' \in SUBSET Signal,
           \A s \in owed' : /\ T[s] # None /\ T[s].action = "Command"
                            /\ s \in waiting \/ T[s].pending
    PROVE  Entries'
<1>1. TypeOK /\ InSync /\ CaughtInSelect
  BY DEF IInv
<1>2. /\ traps' \in [Cond -> GrandState \cup {None}]
      /\ disp' \in [Signal -> Disposition]
      /\ mask' \in SUBSET Signal /\ arrived' \in SUBSET Signal
      /\ select_mask' \in (SUBSET Signal) \cup {None}
      /\ InSync' /\ CaughtInSelect'
      /\ \A s \in waiting : T[s] # None /\ T[s].action = "Command" => s \in arrived'
  BY <1>1, InstallSyncs
<1>3. traps' = T
  BY DEF Install
<1>4. StartupIgnoreSticks' /\ IgnoreIsInherited' /\ CommandHasOrigin' /\ ParentsOnlyUntouched'
  BY <1>3 DEF StartupIgnoreSticks, IgnoreIsInherited, CommandHasOrigin, ParentsOnlyUntouched
<1>5. NoLostTrap'
  BY <1>2, <1>3 DEF NoLostTrap
<1>6. startup' \in [Signal -> Disposition]
  BY <1>1 DEF TypeOK
<1> QED
  BY <1>2, <1>4, <1>5, <1>6 DEF Entries

(* TrapSet::set_internal_disposition changes no action and no parent.      *)
LEMMA InternalKeeps ==
    ASSUME IInv, NEW f, \A s \in DOMAIN f : f[s] \in Disposition, Internal(f),
           UNCHANGED <<startup, interactive, owed>>
    PROVE  Entries'
<1> DEFINE fresh == {s \in DOMAIN f \cap Signal : traps[s] = None /\ f[s] # "Default"}
           T == [c \in Cond |->
                IF c \in fresh THEN FromInitial(disp[c], f[c])
                ELSE IF c \in DOMAIN f /\ traps[c] # None
                THEN Grand(traps[c].action, traps[c].origin, traps[c].pending,
                           traps[c].parent, f[c])
                ELSE traps[c]]
<1>1. Install(T, fresh, mask, arrived)
  BY DEF Internal
<1>2. ASSUME NEW c \in fresh
      PROVE  /\ T[c] \in GrandState /\ T[c] # None /\ T[c].parent = None
             /\ T[c].action # "Command" /\ (disp[c] = "Ignore" => T[c].action = "Ignore")
             /\ T[c].origin = "Inherited" /\ disp[c] = startup[c]
  <2>1. T[c] = FromInitial(disp[c], f[c]) /\ c \in Signal /\ f[c] \in Disposition
    BY DEF Cond
  <2>2. disp[c] = startup[c]
    BY <2>1 DEF IInv, InSync
  <2>3. disp[c] \in Disposition
    BY <2>1 DEF IInv, TypeOK
  <2> HIDE DEF T, fresh
  <2> QED
    BY <2>1, <2>2, <2>3, InitialEntry
<1>3. ASSUME NEW c \in Cond, c \notin fresh
      PROVE  /\ T[c] \in GrandState \cup {None} /\ (T[c] = None <=> traps[c] = None)
             /\ T[c] # None => /\ T[c].action = traps[c].action /\ T[c].origin = traps[c].origin
                               /\ T[c].pending = traps[c].pending /\ T[c].parent = traps[c].parent
  <2>1. CASE c \in DOMAIN f /\ traps[c] # None
    <3>1. traps[c] \in GrandState /\ f[c] \in Disposition
      BY <2>1 DEF IInv, TypeOK
    <3>2. T[c] = Grand(traps[c].action, traps[c].origin, traps[c].pending, traps[c].parent, f[c])
      BY <1>3, <2>1
    <3> HIDE DEF T
    <3>3. /\ traps[c].action \in Action /\ traps[c].origin \in Origin
          /\ traps[c].pending \in BOOLEAN /\ traps[c].parent \in TrapState \cup {None}
      BY <3>1, StateFields
    <3> QED
      BY <2>1, <3>1, <3>2, <3>3, GrandFields
  <2>2. CASE ~(c \in DOMAIN f /\ traps[c] # None)
    <3>1. T[c] = traps[c]
      BY <1>3, <2>2
    <3> HIDE DEF T
    <3> QED
      BY <3>1 DEF IInv, TypeOK
  <2> QED
    BY <2>1, <2>2
<1>4. fresh \in SUBSET Signal /\ Signal \subseteq Cond /\ \A s \in fresh : traps[s] = None
  BY DEF Cond
<1>5. DOMAIN T = Cond
  OBVIOUS
<1>6. \A c \in Cond : T[c] \in GrandState \cup {None}
  BY <1>2, <1>3
<1>7. T \in [Cond -> GrandState \cup {None}]
  BY <1>6
<1> HIDE DEF T, fresh
<1>8. \A s \in Signal : T[s] = None <=> (traps[s] = None /\ s \notin fresh)
  BY <1>2, <1>3, <1>4
<1>9. \A s \in Signal : ~interactive /\ startup[s] = "Ignore" /\ T[s] # None =>
        T[s].action = "Ignore" /\ T[s].origin = "Inherited"
  BY <1>2, <1>3, <1>4 DEF IInv, StartupIgnoreSticks, IgnoreIsInherited
<1>10. \A c \in fresh : T[c].action # "Command"
  BY <1>2
<1>11. \A c \in Cond : T[c] # None /\ T[c].action = "Command" => T[c].origin = "User"
  BY <1>3, <1>10 DEF IInv, CommandHasOrigin
<1>12. ASSUME NEW c \in Cond, T[c] # None, T[c].parent # None
       PROVE  \A d \in Cond : T[d] # None => T[d].action # "Command"
  <2>1. c \notin fresh /\ traps[c] # None /\ traps[c].parent # None
    BY <1>2, <1>3, <1>12
  <2>2. \A d \in Cond : traps[d] # None => traps[d].action # "Command"
    BY <2>1 DEF IInv, ParentsOnlyUntouched
  <2> QED
    BY <2>2, <1>3, <1>10
<1>13. \A s \in owed' : /\ T[s] # None /\ T[s].action = "Command"
                        /\ s \in arrived \/ T[s].pending
  <2> SUFFICES ASSUME NEW s \in owed
               PROVE  /\ T[s] # None /\ T[s].action = "Command"
                      /\ s \in arrived \/ T[s].pending
    OBVIOUS
  <2>1. s \in Cond /\ traps[s] # None /\ traps[s].action = "Command" /\ (s \in arrived \/ traps[s].pending)
    BY <1>4 DEF IInv, NoLostTrap, TypeOK
  <2>2. s \notin fresh
    BY <2>1, <1>4
  <2> QED
    BY <2>1, <2>2, <1>3
<1>14. owed' \in SUBSET Signal /\ mask \in SUBSET Signal /\ arrived \in SUBSET Signal
  BY DEF IInv, TypeOK
<1> QED
  BY <1>1, <1>4, <1>7, <1>8, <1>9, <1>11, <1>12, <1>13, <1>14, InstallKeeps

(* Clearing the parent state changes nothing else.                         *)
LEMMA Cleared ==
    ASSUME NEW g \in GrandState \cup {None}
    PROVE  /\ ClearParent(g) \in GrandState \cup {None} /\ (ClearParent(g) = None <=> g = None)
           /\ g # None => /\ ClearParent(g).action = g.action /\ ClearParent(g).origin = g.origin
                          /\ ClearParent(g).pending = g.pending /\ ClearParent(g).parent = None
                          /\ ClearParent(g).internal = g.internal
<1>1. CASE g = None
  BY <1>1 DEF ClearParent
<1>2. CASE g # None
  <2>1. g \in GrandState
    BY <1>2
  <2>2. ClearParent(g) = Grand(g.action, g.origin, g.pending, None, g.internal)
    BY <1>2 DEF ClearParent
  <2>3. /\ g.action \in Action /\ g.origin \in Origin /\ g.pending \in BOOLEAN
        /\ None \in TrapState \cup {None} /\ g.internal \in Disposition
    BY <2>1, StateFields
  <2>4. PICK h : h = ClearParent(g)
    OBVIOUS
  <2>5. /\ h \in GrandState /\ h # None /\ h.action = g.action /\ h.origin = g.origin
        /\ h.pending = g.pending /\ h.parent = None /\ h.internal = g.internal
    <3>1. h \in GrandState
      BY <2>2, <2>3, <2>4 DEF Grand, GrandState
    <3>2. h # None
      BY <3>1, NoneAssumption
    <3> QED
      BY <3>1, <3>2, <2>2, <2>4 DEF Grand
  <2> QED
    BY <1>2, <2>4, <2>5
<1> QED
  BY <1>1, <1>2

(* TrapSet::set_action: no parent state is left, and no action is set that *)
(* a non-interactive shell must not set.                                   *)
LEMMA SetActionKeeps ==
    ASSUME IInv, NEW c \in Cond, NEW action \in Action, SetAction(c, action)
    PROVE  Entries'
<1> DEFINE g == ClearParent(traps[c])
           new == IF Refused(c)
                  THEN IF g = None THEN FromInitial("Ignore", "Default") ELSE g
                  ELSE Grand(action, "User", FALSE, None,
                             IF g = None THEN "Default" ELSE g.internal)
           T == [d \in Cond |-> IF d = c THEN new ELSE ClearParent(traps[d])]
           fresh == {s \in Signal : s = c /\ g = None}
<1>1. Install(T, fresh, mask, arrived)
  BY DEF SetAction
<1>2. /\ owed' = IF Refused(c) THEN owed ELSE owed \ {c}
      /\ UNCHANGED <<startup, interactive>>
  BY DEF SetAction, mode
<1>3. \A d \in Cond : traps[d] \in GrandState \cup {None}
  BY DEF IInv, TypeOK
<1>4. Signal \subseteq Cond
  BY DEF Cond
<1>5. g \in GrandState \cup {None} /\ (g = None <=> traps[c] = None)
      /\ (g # None => /\ g.action = traps[c].action /\ g.origin = traps[c].origin
                      /\ g.pending = traps[c].pending /\ g.parent = None)
  BY <1>3, Cleared
<1> HIDE DEF g
<1>6. "Ignore" \in Disposition /\ "Default" \in Disposition
  BY DEF Disposition
<1>7. /\ new \in GrandState /\ new # None /\ new.parent = None
      /\ new.action = "Command" => new.origin = "User"
      /\ Refused(c) /\ g # None => new = g
      /\ Refused(c) /\ g = None => new.action = "Ignore" /\ new.origin = "Inherited"
  <2>1. CASE Refused(c) /\ g = None
    <3>1. new = FromInitial("Ignore", "Default")
      BY <2>1
    <3> HIDE DEF new
    <3> QED
      BY <2>1, <3>1, <1>6, InitialEntry
  <2>2. CASE Refused(c) /\ g # None
    <3>1. new = g
      BY <2>2
    <3> HIDE DEF new
    <3>2. g.action = "Command" => g.origin = "User"
      BY <1>5, <2>2 DEF IInv, CommandHasOrigin
    <3> QED
      BY <2>2, <3>1, <3>2, <1>5
  <2>3. CASE ~Refused(c)
    <3>1. PICK i \in Disposition : new = Grand(action, "User", FALSE, None, i)
      BY <2>3, <1>5, <1>6, StateFields
    <3> HIDE DEF new
    <3>2. new \in GrandState
      BY <3>1 DEF Grand, GrandState, Origin
    <3>3. new # None
      BY <3>2, NoneAssumption
    <3> QED
      BY <2>3, <3>1, <3>2, <3>3 DEF Grand
  <2> QED
    BY <2>1, <2>2, <2>3
<1>8. T[c] = new
  OBVIOUS
<1>9. ASSUME NEW d \in Cond, d # c
      PROVE  /\ T[d] \in GrandState \cup {None} /\ (T[d] = None <=> traps[d] = None)
             /\ T[d] # None => /\ T[d].action = traps[d].action /\ T[d].origin = traps[d].origin
                               /\ T[d].pending = traps[d].pending /\ T[d].parent = None
  <2>1. T[d] = ClearParent(traps[d])
    BY <1>9
  <2> HIDE DEF T
  <2> QED
    BY <2>1, <1>3, Cleared
<1>10. DOMAIN T = Cond
  OBVIOUS
<1>11. \A d \in Cond : T[d] \in GrandState \cup {None}
  BY <1>7, <1>8, <1>9
<1>12. T \in [Cond -> GrandState \cup {None}]
  BY <1>11
<1>13. fresh \in SUBSET Signal /\ \A s \in Signal : s \in fresh <=> s = c /\ traps[s] = None
  BY <1>5
<1> HIDE DEF T, fresh, new
<1>14. \A s \in Signal : T[s] = None <=> (traps[s] = None /\ s \notin fresh)
  BY <1>4, <1>7, <1>8, <1>9, <1>13
<1>15. ASSUME NEW s \in Signal, ~interactive, startup[s] = "Ignore", T[s] # None
       PROVE  T[s].action = "Ignore" /\ T[s].origin = "Inherited"
  <2>1. traps[s] # None => traps[s].action = "Ignore" /\ traps[s].origin = "Inherited"
    BY <1>15 DEF IInv, StartupIgnoreSticks, IgnoreIsInherited
  <2>2. CASE s # c
    BY <2>1, <2>2, <1>4, <1>9, <1>15
  <2>3. CASE s = c
    <3>1. traps[s] = None => disp[s] = "Ignore" /\ s # Exit
      BY <1>15, ExitNoSignal DEF IInv, InSync
    <3>2. Refused(c)
      BY <2>1, <2>3, <3>1, <1>15 DEF Refused
    <3> QED
      BY <2>1, <2>3, <3>2, <1>5, <1>7, <1>8
  <2> QED
    BY <2>2, <2>3
<1>16. \A d \in Cond : T[d] # None /\ T[d].action = "Command" => T[d].origin = "User"
  BY <1>7, <1>8, <1>9 DEF IInv, CommandHasOrigin
<1>17. \A d \in Cond : T[d] # None => T[d].parent = None
  BY <1>7, <1>8, <1>9
<1>18. owed' \in SUBSET Signal /\ mask \in SUBSET Signal /\ arrived \in SUBSET Signal
  BY <1>2 DEF IInv, TypeOK
<1>19. ASSUME NEW s \in owed'
       PROVE  /\ T[s] # None /\ T[s].action = "Command"
              /\ s \in arrived \/ T[s].pending
  <2>1. s \in Cond /\ s \in owed /\ (s = c => Refused(c))
    BY <1>2, <1>4, <1>18
  <2>2. traps[s] # None /\ traps[s].action = "Command" /\ (s \in arrived \/ traps[s].pending)
    BY <2>1 DEF IInv, NoLostTrap
  <2>3. CASE s = c
    BY <2>1, <2>2, <2>3, <1>5, <1>7, <1>8
  <2>4. CASE s # c
    BY <2>1, <2>2, <2>4, <1>9
  <2> QED
    BY <2>3, <2>4
<1> QED
  BY <1>1, <1>2, <1>12, <1>13, <1>14, <1>15, <1>16, <1>17, <1>18, <1>19, InstallKeeps

(* TrapSet::peek_state leaves the kernel alone.                            *)
LEMMA PeekKeeps ==
    ASSUME IInv, NEW c \in Cond, PeekState(c)
    PROVE  Entries'
<1> DEFINE d == IF c = Exit THEN "Default" ELSE disp[c]
           g == FromInitial(d, "Default")
<1>0. UNCHANGED <<disp, mask, select_mask, arrived, startup, interactive, owed>>
  BY DEF PeekState, kernel, mode
<1>1. d \in Disposition /\ "Default" \in Disposition
  BY DEF IInv, TypeOK, Cond, Disposition
<1>2. traps[c] = None /\ traps' = [traps EXCEPT ![c] = g]
  BY DEF PeekState
<1> HIDE DEF d
<1>3. /\ g \in GrandState /\ g # None /\ g.action \in {"Default", "Ignore"}
      /\ g.action = "Ignore" <=> d = "Ignore"
      /\ g.origin = "Inherited" /\ g.parent = None /\ g.internal = "Default"
  BY <1>1, InitialEntry
<1> HIDE DEF g
<1>4. /\ traps' \in [Cond -> GrandState \cup {None}] /\ traps'[c] = g
      /\ \A e \in Cond \ {c} : traps'[e] = traps[e]
  BY <1>2, <1>3 DEF IInv, TypeOK
<1>5. c \in Signal => d = disp[c] /\ disp[c] = startup[c]
  BY <1>2, ExitNoSignal DEF d, IInv, InSync
<1>6. Signal \subseteq Cond
  BY DEF Cond
<1>7. InSync'
  <2> SUFFICES ASSUME NEW s \in Signal
               PROVE  IF traps'[s] = None THEN disp[s] = startup[s]
                      ELSE LET wanted == {DispositionOf(traps'[s].action), traps'[s].internal} IN
                           (/\ "Catch" \in wanted => disp[s] = "Catch"
                            /\ "Catch" \notin wanted /\ "Ignore" \in wanted => disp[s] = "Ignore"
                            /\ wanted = {"Default"} =>
                                  disp[s] = "Default" \/ (disp[s] = startup[s] /\ disp[s] = "Catch"))
    BY <1>0 DEF InSync
  <2>1. CASE s # c
    <3>1. traps'[s] = traps[s]
      BY <2>1, <1>4, <1>6
    <3> QED
      BY <3>1 DEF IInv, InSync
  <2>2. CASE s = c
    <3>1. Effective(g) \in Disposition /\ Effective(g) # "Catch"
          /\ (Effective(g) = "Default" <=> g.action = "Default")
      BY <1>3, EffectiveIsMax
    <3>2. disp[s] \in Disposition
      BY DEF IInv, TypeOK
    <3>3. Synced(Effective(g), disp[s], startup[s])
      BY <2>2, <3>1, <3>2, <1>1, <1>3, <1>5 DEF Synced, Disposition
    <3>4. traps'[s] = g
      BY <2>2, <1>4
    <3> QED
      BY <3>2, <3>3, <3>4, <1>3, SyncedMeans
  <2> QED
    BY <2>1, <2>2
<1>8. CaughtInSelect'
  BY <1>0, <1>3, <1>4, <1>6 DEF IInv, CaughtInSelect, CatchWanted
<1>9. StartupIgnoreSticks' /\ IgnoreIsInherited'
  BY <1>0, <1>3, <1>4, <1>5, <1>6 DEF IInv, StartupIgnoreSticks, IgnoreIsInherited
<1>10. CommandHasOrigin' /\ ParentsOnlyUntouched'
  BY <1>3, <1>4 DEF IInv, CommandHasOrigin, ParentsOnlyUntouched
<1>11. NoLostTrap'
  BY <1>0, <1>2, <1>4, <1>6 DEF IInv, NoLostTrap, TypeOK
<1> QED
  BY <1>0, <1>4, <1>7, <1>8, <1>9, <1>10, <1>11 DEF Entries, IInv, TypeOK

(* GrandState::enter_subshell leaves no command, and an ignored signal     *)
(* stays ignored, on account of whoever had it ignored.                    *)
LEMMA EnteredEntry ==
    ASSUME NEW g \in GrandState, NEW option
    PROVE  /\ Entered(g, option) \in GrandState /\ Entered(g, option) # None
           /\ Entered(g, option).action # "Command"
           /\ g.action = "Ignore" => /\ Entered(g, option).action = "Ignore"
                                     /\ Entered(g, option).origin = g.origin
<1>1. /\ g.action \in Action /\ g.origin \in Origin /\ g.pending \in BOOLEAN
      /\ g.internal \in Disposition
  BY StateFields
<1>2. PICK a \in {"Default", "Ignore"}, o \in Origin, p \in BOOLEAN, q \in TrapState \cup {None},
          i \in Disposition :
        /\ Entered(g, option) = Grand(a, o, p, q, i)
        /\ g.action = "Ignore" => a = "Ignore" /\ o = g.origin
  <2> DEFINE command == g.action = "Command"
             reset == IF command THEN "Default" ELSE g.action
             a == IF option = "Ignore" THEN "Ignore" ELSE reset
             o == IF command THEN "Subshell" ELSE g.origin
             p == ~command /\ g.pending
             q == IF command THEN [action |-> g.action, origin |-> g.origin, pending |-> g.pending]
                  ELSE None
             i == IF option = "KeepInternal" THEN g.internal ELSE "Default"
  <2>1. a \in {"Default", "Ignore"} /\ o \in Origin /\ p \in BOOLEAN /\ i \in Disposition
    BY <1>1 DEF Action, Origin, Disposition
  <2>2. q \in TrapState \cup {None}
    BY <1>1 DEF TrapState
  <2>3. g.action = "Ignore" => a = "Ignore" /\ o = g.origin
    OBVIOUS
  <2>4. Entered(g, option) = Grand(a, o, p, q, i)
    BY Zenon DEF Entered
  <2> HIDE DEF a, o, p, q, i, command, reset
  <2> QED
    BY <2>1, <2>2, <2>3, <2>4
<1>3. a \in Action
  BY DEF Action
<1>4. PICK h : h = Entered(g, option)
  OBVIOUS
<1>5. h \in GrandState
  BY <1>2, <1>3, <1>4 DEF Grand, GrandState
<1>6. h # None
  BY <1>5, NoneAssumption
<1>7. h.action = a /\ h.origin = o
  BY <1>2, <1>4 DEF Grand
<1> QED
  BY <1>2, <1>4, <1>5, <1>6, <1>7

(* TrapSet::enter_subshell.                                                *)
LEMMA StartSubshellKeeps ==
    ASSUME IInv, NEW job_control \in BOOLEAN, NEW ignores \in BOOLEAN,
           StartSubshell(job_control, ignores)
    PROVE  Entries'
<1> DEFINE controlled == job_control /\ monitor /\ ~subshell
           ignore == ignores /\ ~controlled
           fresh == {s \in Signal \cap {SIGINT, SIGQUIT} : ignore /\ traps[s] = None}
           T == [c \in Cond |->
                   IF c \in fresh
                   THEN Grand("Ignore",
                              IF disp[c] = "Ignore" THEN "Inherited" ELSE "Subshell",
                              FALSE, None, "Default")
                   ELSE IF traps[c] = None THEN None
                   ELSE Entered(traps[c], EnterOption(c, ignore, ~controlled))]
           blocked == mask \cup (IF ignore THEN Signal \cap {SIGINT, SIGQUIT} ELSE {})
<1>1. Install(T, fresh, blocked, {})
  BY DEF StartSubshell
<1>2. owed' = {} /\ UNCHANGED <<startup, interactive>>
  BY DEF StartSubshell
<1>3. fresh \in SUBSET Signal /\ \A s \in fresh : traps[s] = None
  OBVIOUS
<1>4. blocked \in SUBSET Signal /\ mask \subseteq blocked
  BY DEF IInv, TypeOK
<1>5. Signal \subseteq Cond
  BY DEF Cond
<1>6. ASSUME NEW c \in fresh
      PROVE  /\ T[c] \in GrandState /\ T[c] # None /\ T[c].action = "Ignore"
             /\ startup[c] = "Ignore" => T[c].origin = "Inherited"
  <2>1. c \in Signal /\ c \in Cond /\ traps[c] = None
    BY <1>3, <1>5
  <2>2. disp[c] = startup[c]
    BY <2>1 DEF IInv, InSync
  <2>3. PICK o \in Origin : /\ T[c] = Grand("Ignore", o, FALSE, None, "Default")
                            /\ disp[c] = "Ignore" => o = "Inherited"
    BY <2>1 DEF Origin
  <2> HIDE DEF T, fresh
  <2>4. T[c] \in GrandState
    BY <2>3 DEF Grand, GrandState, Action, Disposition
  <2>5. T[c] # None
    BY <2>4, NoneAssumption
  <2> QED
    BY <2>2, <2>3, <2>4, <2>5 DEF Grand
<1>7. ASSUME NEW c \in Cond, c \notin fresh
      PROVE  /\ T[c] \in GrandState \cup {None} /\ (T[c] = None <=> traps[c] = None)
             /\ T[c] # None => T[c].action # "Command"
             /\ T[c] # None /\ traps[c].action = "Ignore" =>
                  T[c].action = "Ignore" /\ T[c].origin = traps[c].origin
  <2>1. CASE traps[c] = None
    <3>1. T[c] = None
      BY <2>1, <1>7
    <3> HIDE DEF T
    <3> QED
      BY <2>1, <3>1
  <2>2. CASE traps[c] # None
    <3>1. PICK option : T[c] = Entered(traps[c], option)
      BY <2>2, <1>7
    <3>2. traps[c] \in GrandState
      BY <2>2 DEF IInv, TypeOK
    <3> HIDE DEF T
    <3> QED
      BY <2>2, <3>1, <3>2, EnteredEntry
  <2> QED
    BY <2>1, <2>2
<1>8. DOMAIN T = Cond
  OBVIOUS
<1>9. \A c \in Cond : T[c] \in GrandState \cup {None}
  BY <1>6, <1>7
<1>10. T \in [Cond -> GrandState \cup {None}]
  BY <1>9
<1> HIDE DEF T, fresh, blocked
<1>11. \A s \in Signal : T[s] = None <=> (traps[s] = None /\ s \notin fresh)
  BY <1>3, <1>5, <1>6, <1>7
<1>12. \A s \in Signal : ~interactive /\ startup[s] = "Ignore" /\ T[s] # None =>
         T[s].action = "Ignore" /\ T[s].origin = "Inherited"
  BY <1>5, <1>6, <1>7 DEF IInv, StartupIgnoreSticks, IgnoreIsInherited
<1>13. \A c \in Cond : T[c] # None => T[c].action # "Command"
  BY <1>6, <1>7
<1> QED
  BY <1>1, <1>2, <1>3, <1>4, <1>10, <1>11, <1>12, <1>13, InstallKeeps

(* TrapSet::catch_signal: what leaves the kernel becomes pending.          *)
LEMMA CatchKeeps ==
    ASSUME IInv, CatchSignals, UNCHANGED <<startup, interactive, owed>>
    PROVE  Entries'
<1> DEFINE D == Deliverable
<1>1. /\ traps' = [c \in Cond |-> Caught(c, D)] /\ arrived' = arrived \ D
      /\ UNCHANGED <<disp, mask, select_mask>>
  BY DEF CatchSignals
<1>2. Signal \subseteq Cond
  BY DEF Cond
<1> HIDE DEF D
<1>3. ASSUME NEW c \in Cond
      PROVE  /\ traps'[c] \in GrandState \cup {None} /\ (traps'[c] = None <=> traps[c] = None)
             /\ traps[c] # None => /\ traps'[c].action = traps[c].action
                                   /\ traps'[c].origin = traps[c].origin
                                   /\ traps'[c].parent = traps[c].parent
                                   /\ traps'[c].internal = traps[c].internal
                                   /\ c \in D \/ traps[c].pending => traps'[c].pending
  <2>0. traps'[c] = Caught(c, D) /\ traps[c] \in GrandState \cup {None}
    BY <1>1 DEF IInv, TypeOK
  <2>1. CASE c \in D /\ traps[c] # None
    <3>1. traps[c] \in GrandState
      BY <2>0, <2>1
    <3>2. traps'[c] = Grand(traps[c].action, traps[c].origin, TRUE, traps[c].parent, traps[c].internal)
      BY <2>0, <2>1 DEF Caught
    <3>3. traps'[c] \in GrandState
      BY <3>1, <3>2, StateFields DEF Grand, GrandState
    <3>4. traps'[c] # None
      BY <3>3, NoneAssumption
    <3> QED
      BY <2>1, <3>2, <3>3, <3>4 DEF Grand
  <2>2. CASE ~(c \in D /\ traps[c] # None)
    <3>1. traps'[c] = traps[c]
      BY <2>0, <2>2 DEF Caught
    <3> QED
      BY <2>0, <2>2, <3>1
  <2> QED
    BY <2>1, <2>2
<1>4. traps' \in [Cond -> GrandState \cup {None}]
  <2>1. DOMAIN traps' = Cond
    BY <1>1
  <2>2. traps' = [c \in Cond |-> traps'[c]]
    BY <1>1
  <2> QED
    BY <2>2, <1>3
<1>5. InSync'
  BY <1>1, <1>2, <1>3 DEF IInv, InSync
<1>6. CaughtInSelect'
  BY <1>1, <1>2, <1>3 DEF IInv, CaughtInSelect, CatchWanted
<1>7. StartupIgnoreSticks' /\ IgnoreIsInherited'
  BY <1>2, <1>3 DEF IInv, StartupIgnoreSticks, IgnoreIsInherited
<1>8. CommandHasOrigin' /\ ParentsOnlyUntouched'
  BY <1>3 DEF IInv, CommandHasOrigin, ParentsOnlyUntouched
<1>9. NoLostTrap'
  BY <1>1, <1>2, <1>3 DEF IInv, NoLostTrap, TypeOK
<1> QED
  BY <1>1, <1>4, <1>5, <1>6, <1>7, <1>8, <1>9 DEF Entries, IInv, TypeOK

(* TrapSet::take_caught_signal: the command of a signal that is no longer  *)
(* pending is run.                                                         *)
LEMMA TakeKeeps ==
    ASSUME IInv, NEW s \in Signal, s \in Pending, Take(s)
    PROVE  Entries' /\ frames' \in Seq(Cond)
<1>1. /\ traps[s] # None /\ s \in Cond /\ traps[s] \in GrandState
  BY DEF Pending, IInv, TypeOK, Cond
<1>2. PICK g : g = Grand(traps[s].action, traps[s].origin, FALSE, traps[s].parent, traps[s].internal)
  OBVIOUS
<1>3. /\ traps' = [traps EXCEPT ![s] = g]
      /\ owed' = owed \ {s}
      /\ UNCHANGED <<disp, mask, select_mask, arrived, startup, interactive>>
  BY <1>2 DEF Take, Uncaught, kernel, mode
<1>4. g \in GrandState
  BY <1>1, <1>2, StateFields DEF Grand, GrandState
<1>5. /\ g # None /\ g.action = traps[s].action /\ g.origin = traps[s].origin
      /\ g.parent = traps[s].parent /\ g.internal = traps[s].internal
  BY <1>2, <1>4, NoneAssumption DEF Grand
<1>6. traps' \in [Cond -> GrandState \cup {None}] /\ traps'[s] = g
      /\ \A c \in Cond \ {s} : traps'[c] = traps[c]
  BY <1>1, <1>3, <1>4 DEF IInv, TypeOK
<1>7. Signal \subseteq Cond
  BY DEF Cond
<1>8. \A c \in Cond : /\ traps'[c] = None <=> traps[c] = None
                      /\ traps[c] # None => /\ traps'[c].action = traps[c].action
                                            /\ traps'[c].origin = traps[c].origin
                                            /\ traps'[c].parent = traps[c].parent
                                            /\ traps'[c].internal = traps[c].internal
  BY <1>1, <1>5, <1>6
<1>9. InSync'
  BY <1>3, <1>7, <1>8 DEF IInv, InSync
<1>10. CaughtInSelect'
  BY <1>3, <1>7, <1>8 DEF IInv, CaughtInSelect, CatchWanted
<1>11. StartupIgnoreSticks' /\ IgnoreIsInherited'
  BY <1>3, <1>7, <1>8 DEF IInv, StartupIgnoreSticks, IgnoreIsInherited
<1>12. CommandHasOrigin' /\ ParentsOnlyUntouched'
  BY <1>8 DEF IInv, CommandHasOrigin, ParentsOnlyUntouched
<1>13. NoLostTrap'
  BY <1>3, <1>6, <1>7 DEF IInv, NoLostTrap, TypeOK
<1>14. frames' \in Seq(Cond)
  BY <1>1 DEF Take, IInv, TypeOK
<1> QED
  BY <1>3, <1>6, <1>9, <1>10, <1>11, <1>12, <1>13, <1>14 DEF Entries, IInv, TypeOK

(* A signal arrives.                                                       *)
LEMMA ArriveKeeps ==
    ASSUME IInv, NEW s \in Signal, Arrive(s)
    PROVE  Entries' /\ Rest'
<1>1. /\ arrived' = arrived \cup {s} /\ budget > 0 /\ budget' = budget - 1
      /\ owed' = IF traps[s] # None /\ traps[s].action = "Command" THEN owed \cup {s} ELSE owed
      /\ UNCHANGED <<traps, disp, mask, select_mask, frames, draining, mode>>
  BY DEF Arrive
<1>2. InSync' /\ CaughtInSelect' /\ StartupIgnoreSticks' /\ IgnoreIsInherited'
      /\ CommandHasOrigin' /\ ParentsOnlyUntouched'
  BY <1>1 DEF IInv, InSync, CaughtInSelect, CatchWanted, StartupIgnoreSticks, IgnoreIsInherited,
         CommandHasOrigin, ParentsOnlyUntouched, mode
<1>3. NoLostTrap'
  BY <1>1 DEF IInv, NoLostTrap
<1>4. budget' \in 0..MaxArrivals
  BY <1>1, TrapSetAssumption DEF IInv, TypeOK
<1>5. Rest'
  BY <1>1, <1>4 DEF IInv, TypeOK, Rest, mode
<1> QED
  BY <1>1, <1>2, <1>3, <1>5 DEF Entries, IInv, TypeOK, mode

(* Nothing happens to the entries.                                         *)
LEMMA StillEntries ==
    ASSUME IInv, UNCHANGED <<traps, kernel, startup, interactive, owed>>
    PROVE  Entries'
<1>1. InSync' /\ CaughtInSelect' /\ StartupIgnoreSticks' /\ IgnoreIsInherited'
      /\ CommandHasOrigin' /\ ParentsOnlyUntouched' /\ NoLostTrap'
  BY DEF IInv, InSync, CaughtInSelect, CatchWanted, StartupIgnoreSticks, IgnoreIsInherited,
         CommandHasOrigin, ParentsOnlyUntouched, NoLostTrap, kernel
<1> QED
  BY <1>1 DEF Entries, IInv, TypeOK, kernel

LEMMA InitIInv == Init => IInv
<1> SUFFICES ASSUME Init PROVE IInv
  OBVIOUS
<1>1. \A c \in Cond : traps[c] = None
  BY DEF Init
<1>2. disp \in [Signal -> Disposition] /\ startup = disp
  BY TrapSetAssumption DEF Init, Disposition
<1>3. Rest
  <2>1. /\ draining \in BOOLEAN /\ subshell \in BOOLEAN /\ interactive \in BOOLEAN
        /\ monitor \in BOOLEAN /\ execed \in BOOLEAN
    BY Zenon DEF Init
  <2>2. frames \in Seq(Cond) /\ phase \in {"start", "main", "done"} /\ budget \in 0..MaxArrivals
    BY TrapSetAssumption DEF Init
  <2> QED
    BY <2>1, <2>2 DEF Rest
<1>4. Signal \subseteq Cond
  BY DEF Cond
<1>5. InSync /\ CaughtInSelect /\ StartupIgnoreSticks /\ IgnoreIsInherited
      /\ CommandHasOrigin /\ ParentsOnlyUntouched
  BY <1>1, <1>2, <1>4 DEF InSync, CaughtInSelect, CatchWanted, StartupIgnoreSticks,
        IgnoreIsInherited, CommandHasOrigin, ParentsOnlyUntouched
<1>6. NoLostTrap
  BY DEF Init, NoLostTrap
<1>7. Entries
  BY <1>1, <1>2, <1>5, <1>6, TrapSetAssumption DEF Init, Entries
<1> QED
  BY <1>3, <1>7, TwoParts

LEMMA NextIInv == IInv /\ [Next]_vars => IInv'
<1> SUFFICES ASSUME IInv, [Next]_vars PROVE Entries' /\ Rest'
  BY TwoPartsNext
<1>0. Rest
  BY TwoParts
<1>1. CASE Startup
  <2>1. UNCHANGED <<startup, interactive, owed>>
    BY <1>1 DEF Startup
  <2>2. CASE interactive
    <3>1. PICK f : Internal(f) /\ \A s \in DOMAIN f : f[s] \in Disposition
      <4> DEFINE f == [s \in Terminators \cup (IF monitor THEN Stoppers ELSE {}) |->
                          IF s = SIGINT THEN "Catch" ELSE "Ignore"]
      <4>1. Internal(f)
        BY <1>1, <2>2 DEF Startup
      <4>2. \A s \in DOMAIN f : f[s] \in Disposition
        BY DEF Disposition
      <4> HIDE DEF f
      <4> QED
        BY <4>1, <4>2
    <3> QED
      BY <3>1, <2>1, <1>0, <1>1, InternalKeeps DEF Startup, Rest
  <2>3. CASE ~interactive
    BY <2>1, <2>3, <1>0, <1>1, StillEntries DEF Startup, Rest
  <2> QED
    BY <2>2, <2>3
<1>2. ASSUME NEW m \in BOOLEAN, SetMonitor(m)
      PROVE  Entries' /\ Rest'
  <2>1. PICK d \in Disposition : Internal(StoppersTo(d))
    BY <1>2 DEF SetMonitor, Disposition
  <2>2. \A s \in DOMAIN StoppersTo(d) : StoppersTo(d)[s] \in Disposition
    BY DEF StoppersTo
  <2>3. Entries'
    BY <1>2, <2>1, <2>2, InternalKeeps DEF SetMonitor
  <2> QED
    BY <1>0, <1>2, <2>3 DEF SetMonitor, Rest
<1>3. CASE EnableSigchld
  <2>1. \A s \in DOMAIN [s \in {SIGCHLD} |-> "Catch"] : [t \in {SIGCHLD} |-> "Catch"][s] \in Disposition
    BY DEF Disposition
  <2>2. Entries'
    BY <1>3, <2>1, InternalKeeps DEF EnableSigchld, mode
  <2> QED
    BY <1>0, <1>3, <2>2 DEF EnableSigchld, Rest, mode
<1>4. CASE ExecFails
  <2>1. PICK f : Internal(f) /\ \A s \in DOMAIN f : f[s] \in Disposition
    <3> DEFINE f == [s \in Terminators \cup Stoppers \cup {SIGCHLD} |-> "Default"]
    <3>1. Internal(f)
      BY <1>4 DEF ExecFails
    <3>2. \A s \in DOMAIN f : f[s] \in Disposition
      BY DEF Disposition
    <3> HIDE DEF f
    <3> QED
      BY <3>1, <3>2
  <2>2. Entries'
    BY <1>4, <2>1, InternalKeeps DEF ExecFails
  <2> QED
    BY <1>0, <1>4, <2>2 DEF ExecFails, Rest
<1>5. ASSUME NEW divert \in BOOLEAN, EndTrap(divert)
      PROVE  Entries' /\ Rest'
  <2>1. Entries'
    BY <1>5, StillEntries DEF EndTrap
  <2>2. frames \in Seq(Cond) /\ frames # <<>> /\ Len(frames) \in Nat /\ Len(frames) - 1 <= Len(frames)
    BY <1>0, <1>5, LenProperties DEF EndTrap, Rest
  <2>3. SubSeq(frames, 1, Len(frames) - 1) \in Seq(Cond)
    BY <2>2, SubSeqProperties
  <2>4. draining' \in BOOLEAN /\ phase' \in {"start", "main", "done"}
    BY <1>0, <1>5 DEF EndTrap, Rest
  <2> QED
    BY <1>0, <1>5, <2>1, <2>3, <2>4 DEF EndTrap, Rest
<1>6. ASSUME NEW c \in Cond, PeekState(c)
      PROVE  Entries' /\ Rest'
  BY <1>0, <1>6, PeekKeeps DEF PeekState, Rest, mode
<1>7. ASSUME NEW c \in Cond, NEW a \in Action, SetAction(c, a)
      PROVE  Entries' /\ Rest'
  BY <1>0, <1>7, SetActionKeeps DEF SetAction, Rest, mode
<1>8. ASSUME NEW j \in BOOLEAN, NEW i \in BOOLEAN, StartSubshell(j, i)
      PROVE  Entries' /\ Rest'
  <2>1. Entries'
    BY <1>8, StartSubshellKeeps
  <2>2. /\ frames' = <<>> /\ draining' = FALSE /\ subshell' = TRUE
        /\ UNCHANGED <<phase, interactive, monitor, execed, budget>>
    BY <1>8 DEF StartSubshell
  <2>3. draining' \in BOOLEAN /\ subshell' \in BOOLEAN
    BY <2>2, Zenon
  <2>4. frames' \in Seq(Cond)
    BY <2>2
  <2> QED
    BY <1>0, <2>1, <2>2, <2>3, <2>4 DEF Rest
<1>9. ASSUME NEW s \in Signal, Arrive(s)
      PROVE  Entries' /\ Rest'
  BY <1>9, ArriveKeeps
<1>10. ASSUME NEW s \in Signal, TakeCaughtSignal(s) \/ RunTrapIfCaught(s)
       PROVE  Entries' /\ Rest'
  <2>1. s \in Pending /\ Take(s) /\ UNCHANGED draining
    BY <1>10 DEF TakeCaughtSignal, RunTrapIfCaught
  <2>2. Entries' /\ frames' \in Seq(Cond)
    BY <2>1, TakeKeeps
  <2> QED
    BY <1>0, <2>1, <2>2 DEF Take, Rest, mode
<1>11. CASE WaitForSignals
  BY <1>0, <1>11, CatchKeeps DEF WaitForSignals, Rest, mode
<1>12. CASE RunTraps
  <2>1. draining' \in BOOLEAN
    BY <1>0, <1>12 DEF RunTraps, Rest
  <2> QED
    BY <1>0, <1>12, <2>1, CatchKeeps DEF RunTraps, Rest, mode
<1>13. CASE NoMoreCaught
  BY <1>0, <1>13, StillEntries DEF NoMoreCaught, Rest, mode
<1>14. CASE RunExitTrap
  <2>1. <<Exit>> \in Seq(Cond)
    BY DEF Cond
  <2>2. Entries'
    BY <1>14, StillEntries DEF RunExitTrap
  <2> QED
    BY <1>0, <1>14, <2>1, <2>2 DEF RunExitTrap, Rest
<1>15. CASE UNCHANGED vars
  BY <1>0, <1>15, StillEntries DEF vars, Rest, mode
<1> QED
  BY <1>1, <1>2, <1>3, <1>4, <1>5, <1>6, <1>7, <1>8, <1>9, <1>10, <1>11, <1>12, <1>13, <1>14,
     <1>15 DEF Next

-----------------------------------------------------------------------------
(* The inductive invariant of the trap set.                                *)
THEOREM Invariant == Spec => []IInv
BY InitIInv, NextIInv, PTL DEF Spec

(* The kernel's dispositions follow the trap set, through every operation  *)
(* on traps, internal dispositions and subshells.                          *)
THEOREM KernelAgrees == Spec => []InSync
BY Invariant, PTL DEF IInv

(* A signal the shell catches is blocked outside select and let in by it.  *)
THEOREM CaughtOnlyInSelect == Spec => []CaughtInSelect
BY Invariant, PTL DEF IInv

(* What a non-interactive shell was started to ignore stays ignored.       *)
THEOREM IgnoredAtStartup == Spec => []StartupIgnoreSticks
BY Invariant, PTL DEF IInv

(* The .expect("user-defined trap must have origin") cannot fail, and a    *)
(* subshell remembers its parent's traps only until it sets its own.       *)
THEOREM OriginsAndParents == Spec => [](CommandHasOrigin /\ ParentsOnlyUntouched)
BY Invariant, PTL DEF IInv

(* A signal that arrives for a trap command is in the kernel or pending in *)
(* the trap set until the command runs or the user replaces it.            *)
THEOREM TrapNotLost == Spec => []NoLostTrap
BY Invariant, PTL DEF IInv

-----------------------------------------------------------------------------
(* An interactive shell defends itself against SIGINT, SIGTERM and         *)
(* SIGQUIT, and against the stoppers while it controls jobs, by the        *)
(* internal dispositions of their entries. No exec has failed yet.         *)
Defended(s) == s \in Terminators \/ (monitor /\ s \in Stoppers)

Shielded(s) == traps[s] # None /\ traps[s].internal # "Default"

Shield ==
    (phase = "main" /\ interactive /\ ~subshell /\ ~execed) =>
        \A s \in Signal : Defended(s) => Shielded(s)

\* What TrapSet::set_internal_disposition leaves of the shield.
LEMMA InternalShields ==
    ASSUME IInv, NEW f, \A s \in DOMAIN f : f[s] \in Disposition, Internal(f),
           NEW s \in Signal
    PROVE  /\ s \in DOMAIN f /\ f[s] # "Default" => Shielded(s)'
           /\ s \notin DOMAIN f /\ Shielded(s) => Shielded(s)'
<1> DEFINE fresh == {t \in DOMAIN f \cap Signal : traps[t] = None /\ f[t] # "Default"}
           T == [c \in Cond |->
                IF c \in fresh THEN FromInitial(disp[c], f[c])
                ELSE IF c \in DOMAIN f /\ traps[c] # None
                THEN Grand(traps[c].action, traps[c].origin, traps[c].pending,
                           traps[c].parent, f[c])
                ELSE traps[c]]
<1>1. traps' = T
  BY DEF Internal, Install
<1>2. s \in Cond
  BY DEF Cond
<1>3. traps'[s] = IF s \in fresh THEN FromInitial(disp[s], f[s])
                  ELSE IF s \in DOMAIN f /\ traps[s] # None
                  THEN Grand(traps[s].action, traps[s].origin, traps[s].pending,
                             traps[s].parent, f[s])
                  ELSE traps[s]
  BY <1>1, <1>2
<1> HIDE DEF T
<1>4. CASE s \in DOMAIN f /\ f[s] # "Default" /\ traps[s] = None
  <2>1. disp[s] \in Disposition /\ f[s] \in Disposition
    BY <1>4 DEF IInv, TypeOK
  <2>2. traps'[s] = FromInitial(disp[s], f[s])
    BY <1>3, <1>4
  <2> QED
    BY <1>4, <2>1, <2>2, InitialEntry DEF Shielded
<1>5. CASE s \in DOMAIN f /\ f[s] # "Default" /\ traps[s] # None
  <2>1. traps[s] \in GrandState /\ f[s] \in Disposition
    BY <1>2, <1>5 DEF IInv, TypeOK
  <2>2. traps'[s] = Grand(traps[s].action, traps[s].origin, traps[s].pending,
                          traps[s].parent, f[s])
    BY <1>3, <1>5
  <2>3. /\ traps[s].action \in Action /\ traps[s].origin \in Origin
        /\ traps[s].pending \in BOOLEAN /\ traps[s].parent \in TrapState \cup {None}
    BY <2>1, StateFields
  <2> QED
    BY <1>5, <2>1, <2>2, <2>3, GrandFields DEF Shielded
<1>6. CASE s \notin DOMAIN f
  BY <1>3, <1>6 DEF Shielded
<1> QED
  BY <1>4, <1>5, <1>6

\* The other operations on traps in a shell that is no subshell keep the
\* internal dispositions.
LEMMA CaughtShields ==
    ASSUME IInv, NEW signals, NEW s \in Signal, traps'[s] = Caught(s, signals), Shielded(s)
    PROVE  Shielded(s)'
<1>1. s \in Cond
  BY DEF Cond
<1>2. traps[s] \in GrandState
  BY <1>1 DEF IInv, TypeOK, Shielded
<1>3. /\ traps[s].action \in Action /\ traps[s].origin \in Origin /\ TRUE \in BOOLEAN
      /\ traps[s].parent \in TrapState \cup {None} /\ traps[s].internal \in Disposition
  BY <1>2, StateFields
<1>4. CASE s \in signals
  <2>1. traps'[s] = Grand(traps[s].action, traps[s].origin, TRUE, traps[s].parent, traps[s].internal)
    BY <1>4 DEF Caught, Shielded
  <2>2. traps'[s] # None /\ traps'[s].internal = traps[s].internal
    <3>1. traps'[s] \in GrandState
      BY <1>3, <2>1 DEF Grand, GrandState
    <3>2. traps'[s] # None
      BY <3>1, NoneAssumption
    <3> QED
      BY <3>2, <2>1 DEF Grand
  <2> QED
    BY <2>2 DEF Shielded
<1>5. CASE s \notin signals
  BY <1>5 DEF Caught, Shielded
<1> QED
  BY <1>4, <1>5

LEMMA TakeShields ==
    ASSUME IInv, NEW t \in Signal, t \in Pending, Take(t), NEW s \in Signal, Shielded(s)
    PROVE  Shielded(s)'
<1>1. s \in Cond /\ t \in Cond
  BY DEF Cond
<1>2. DOMAIN traps = Cond
  BY DEF IInv, TypeOK
<1>3. traps' = Uncaught(t)
  BY DEF Take
<1>4. CASE s = t
  <2>1. traps[s] \in GrandState
    BY <1>1 DEF IInv, TypeOK, Shielded
  <2>2. /\ traps[s].action \in Action /\ traps[s].origin \in Origin /\ FALSE \in BOOLEAN
        /\ traps[s].parent \in TrapState \cup {None} /\ traps[s].internal \in Disposition
    BY <2>1, StateFields
  <2>3. traps'[s] = Grand(traps[s].action, traps[s].origin, FALSE, traps[s].parent, traps[s].internal)
    BY <1>1, <1>2, <1>3, <1>4 DEF Uncaught
  <2>4. traps'[s] # None /\ traps'[s].internal = traps[s].internal
    <3>1. traps'[s] \in GrandState
      BY <2>2, <2>3 DEF Grand, GrandState
    <3>2. traps'[s] # None
      BY <3>1, NoneAssumption
    <3> QED
      BY <3>2, <2>2, <2>3 DEF Grand
  <2> QED
    BY <2>4 DEF Shielded
<1>5. CASE s # t
  <2>1. traps'[s] = traps[s]
    BY <1>1, <1>2, <1>3, <1>5 DEF Uncaught
  <2> QED
    BY <2>1 DEF Shielded
<1> QED
  BY <1>4, <1>5

LEMMA SetActionShields ==
    ASSUME IInv, NEW c \in Cond, NEW action \in Action, SetAction(c, action),
           NEW s \in Signal, Shielded(s)
    PROVE  Shielded(s)'
<1> DEFINE g == ClearParent(traps[c])
           new == IF Refused(c)
                  THEN IF g = None THEN FromInitial("Ignore", "Default") ELSE g
                  ELSE Grand(action, "User", FALSE, None,
                             IF g = None THEN "Default" ELSE g.internal)
<1>1. s \in Cond /\ traps[s] \in GrandState
  BY DEF Cond, IInv, TypeOK, Shielded
<1>2. /\ ClearParent(traps[s]) # None /\ ClearParent(traps[s]) \in GrandState
      /\ ClearParent(traps[s]).internal = traps[s].internal
  BY <1>1, Cleared DEF Shielded
<1>3. traps' = [d \in Cond |-> IF d = c THEN new ELSE ClearParent(traps[d])]
  BY DEF SetAction, Install
<1>4. traps'[s] = IF s = c THEN new ELSE ClearParent(traps[s])
  BY <1>1, <1>3
<1>5. CASE s # c \/ Refused(c)
  <2>1. traps'[s] = ClearParent(traps[s])
    BY <1>2, <1>4, <1>5
  <2> QED
    BY <1>2, <2>1 DEF Shielded
<1>6. CASE s = c /\ ~Refused(c)
  <2>1. traps'[s] = Grand(action, "User", FALSE, None, traps[s].internal)
    BY <1>2, <1>4, <1>6
  <2>2. "User" \in Origin /\ FALSE \in BOOLEAN /\ None \in TrapState \cup {None}
        /\ traps[s].internal \in Disposition
    BY <1>1, StateFields DEF Origin
  <2>3. traps'[s] # None /\ traps'[s].internal = traps[s].internal
    <3>1. traps'[s] \in GrandState
      BY <2>1, <2>2 DEF Grand, GrandState
    <3>2. traps'[s] # None
      BY <3>1, NoneAssumption
    <3> QED
      BY <3>2, <2>1, <2>2 DEF Grand
  <2> QED
    BY <2>3 DEF Shielded
<1> QED
  BY <1>5, <1>6

LEMMA NextShield == IInv /\ Shield /\ [Next]_vars => Shield'
<1> SUFFICES ASSUME IInv, Shield, [Next]_vars,
                    phase' = "main", interactive', ~subshell', ~execed',
                    NEW s \in Signal, Defended(s)'
             PROVE  Shielded(s)'
  BY DEF Shield
<1>0. ASSUME UNCHANGED mode
      PROVE  Shielded(s)
  BY <1>0 DEF Shield, Defended, mode
<1>1. CASE Startup
  <2> DEFINE f == [t \in Terminators \cup (IF monitor THEN Stoppers ELSE {}) |->
                      IF t = SIGINT THEN "Catch" ELSE "Ignore"]
  <2>1. Internal(f) /\ UNCHANGED monitor
    BY <1>1 DEF Startup
  <2>2. \A t \in DOMAIN f : f[t] \in Disposition
    BY DEF Disposition
  <2>3. s \in DOMAIN f /\ f[s] # "Default"
    BY <2>1 DEF Defended
  <2> HIDE DEF f
  <2> QED
    BY <2>1, <2>2, <2>3, InternalShields
<1>2. ASSUME NEW m \in BOOLEAN, SetMonitor(m)
      PROVE  Shielded(s)'
  <2> DEFINE d == IF interactive /\ m THEN "Ignore" ELSE "Default"
  <2>1. /\ Internal(StoppersTo(d)) /\ monitor' = m
        /\ UNCHANGED <<phase, subshell, interactive, execed>>
    BY <1>2 DEF SetMonitor
  <2>2. DOMAIN StoppersTo(d) = Stoppers /\ \A t \in DOMAIN StoppersTo(d) :
           StoppersTo(d)[t] \in Disposition /\ StoppersTo(d)[t] = d
    BY DEF StoppersTo, Disposition
  <2>3. CASE s \in Stoppers
    <3>1. m
      BY <2>1, <2>3, TrapSetAssumption DEF Defended, Terminators
    <3>2. StoppersTo(d)[s] # "Default"
      BY <2>1, <2>2, <2>3, <3>1
    <3> QED
      BY <2>1, <2>2, <2>3, <3>2, InternalShields
  <2>4. CASE s \notin Stoppers
    <3>1. Shielded(s)
      BY <2>1, <2>4 DEF Shield, Defended
    <3> QED
      BY <2>1, <2>2, <2>4, <3>1, InternalShields
  <2> QED
    BY <2>3, <2>4
<1>3. CASE EnableSigchld
  <2> DEFINE f == [t \in {SIGCHLD} |-> "Catch"]
  <2>1. Internal(f) /\ UNCHANGED mode
    BY <1>3 DEF EnableSigchld
  <2>2. \A t \in DOMAIN f : f[t] \in Disposition
    BY DEF Disposition
  <2>3. s \notin DOMAIN f
    BY TrapSetAssumption DEF Defended, Terminators
  <2> HIDE DEF f
  <2> QED
    BY <1>0, <2>1, <2>2, <2>3, InternalShields
<1>4. CASE ExecFails
  BY <1>4 DEF ExecFails
<1>5. ASSUME NEW divert \in BOOLEAN, EndTrap(divert)
      PROVE  Shielded(s)'
  <2>1. phase = "main" /\ UNCHANGED <<traps, subshell, interactive, monitor, execed>>
    BY <1>5 DEF EndTrap, Executing
  <2> QED
    BY <2>1 DEF Shield, Defended, Shielded
<1>6. ASSUME NEW c \in Cond, PeekState(c)
      PROVE  Shielded(s)'
  <2>1. Shielded(s) /\ traps[c] = None /\ DOMAIN traps = Cond
    BY <1>0, <1>6 DEF PeekState, IInv, TypeOK
  <2>2. s # c /\ s \in Cond
    BY <2>1 DEF Shielded, Cond
  <2>3. traps'[s] = traps[s]
    BY <1>6, <2>1, <2>2 DEF PeekState
  <2> QED
    BY <2>1, <2>3 DEF Shielded
<1>7. ASSUME NEW c \in Cond, NEW a \in Action, SetAction(c, a)
      PROVE  Shielded(s)'
  <2>1. UNCHANGED mode
    BY <1>7 DEF SetAction
  <2> QED
    BY <1>0, <1>7, <2>1, SetActionShields
<1>8. ASSUME NEW j \in BOOLEAN, NEW i \in BOOLEAN, StartSubshell(j, i)
      PROVE  FALSE
  <2>1. subshell' = TRUE
    BY <1>8 DEF StartSubshell
  <2> QED
    BY <2>1
<1>9. ASSUME NEW t \in Signal, Arrive(t)
      PROVE  Shielded(s)'
  <2>1. UNCHANGED <<traps, mode>>
    BY <1>9 DEF Arrive
  <2> QED
    BY <1>0, <2>1 DEF Shielded
<1>10. ASSUME NEW t \in Signal, TakeCaughtSignal(t) \/ RunTrapIfCaught(t)
       PROVE  Shielded(s)'
  <2>1. t \in Pending /\ Take(t)
    BY <1>10 DEF TakeCaughtSignal, RunTrapIfCaught
  <2>2. UNCHANGED mode
    BY <2>1 DEF Take
  <2> QED
    BY <1>0, <2>1, <2>2, TakeShields
<1>11. CASE WaitForSignals \/ RunTraps
  <2>1. CatchSignals /\ UNCHANGED mode
    BY <1>11 DEF WaitForSignals, RunTraps
  <2>2. traps'[s] = Caught(s, Deliverable)
    BY <2>1 DEF CatchSignals, Cond
  <2> QED
    BY <1>0, <2>1, <2>2, CaughtShields
<1>12. CASE NoMoreCaught \/ UNCHANGED vars
  <2>1. UNCHANGED <<traps, mode>>
    BY <1>12 DEF NoMoreCaught, vars
  <2> QED
    BY <1>0, <2>1 DEF Shielded
<1>13. CASE RunExitTrap
  <2>1. phase = "main" /\ UNCHANGED <<traps, subshell, interactive, monitor, execed>>
    BY <1>13 DEF RunExitTrap
  <2> QED
    BY <2>1 DEF Shield, Defended, Shielded
<1> QED
  BY <1>1, <1>2, <1>3, <1>4, <1>5, <1>6, <1>7, <1>8, <1>9, <1>10, <1>11, <1>12, <1>13 DEF Next

\* A shielded signal is not at the default in the kernel.
LEMMA ShieldHolds == IInv /\ Shield => IgnoredUntilExec
<1> SUFFICES ASSUME IInv, Shield, ~execed, phase = "main", interactive, ~subshell,
                    NEW s \in Signal,
                    s \in Terminators \cup (IF monitor THEN Stoppers ELSE {})
             PROVE  disp[s] # "Default"
  BY DEF IgnoredUntilExec, AutoIgnored
<1>1. Shielded(s)
  BY DEF Shield, Defended
<1>2. s \in Cond
  BY DEF Cond
<1>3. traps[s] \in GrandState
  BY <1>1, <1>2 DEF Shielded, IInv, TypeOK
<1>4. traps[s].internal \in {"Ignore", "Catch"}
  BY <1>1, <1>3, StateFields DEF Shielded, Disposition
<1> QED
  BY <1>1, <1>4 DEF Shielded, IInv, InSync

(* As long as no exec has failed, an interactive shell that is no subshell *)
(* neither dies of SIGINT, SIGTERM or SIGQUIT nor stops while it controls  *)
(* jobs, whatever traps are set and reset and however often job control is *)
(* turned on and off.                                                      *)
THEOREM IgnoredUnlessExecFails == Spec => []IgnoredUntilExec
<1>1. Init => Shield
  BY DEF Init, Shield
<1> QED
  BY <1>1, Invariant, NextIInv, NextShield, ShieldHolds, PTL DEF Spec

=============================================================================
