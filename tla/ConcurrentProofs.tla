-------------------------- MODULE ConcurrentProofs --------------------------
(***************************************************************************)
(* Proofs about Concurrent, for any sets of tasks, descriptors and signals *)
(* and any number of slots.                                                *)
(***************************************************************************)
EXTENDS Concurrent, FiniteSetTheorems, TLAPS

(* What a task awaits says whether it uses a descriptor.                   *)
LEMMA OpFields ==
    ASSUME NEW o \in Ops
    PROVE  /\ o.kind \in {"none", "signals", "read", "write", "sleep"}
           /\ o.kind \in Kinds <=> o.fd \in Fd
           /\ o.kind \in Kinds <=> o.fd # None
           /\ o = Idle <=> o.kind = "none"
           /\ o.kind = "sleep" => o.until \in Time
BY ConcurrentAssumption DEF Ops, Op, Idle, Kinds

(* The operations that a task may begin.                                   *)
LEMMA NewOps ==
    /\ Idle \in Ops /\ Idle.kind = "none" /\ Idle.fd = None
    /\ Op("signals", None, 0) \in Ops
    /\ Op("signals", None, 0).kind = "signals" /\ Op("signals", None, 0).fd = None
    /\ \A kind \in Kinds, fd \in Fd :
          /\ Op(kind, fd, 0) \in Ops
          /\ Op(kind, fd, 0).kind = kind /\ Op(kind, fd, 0).fd = fd
    /\ \A until \in Time :
          /\ Op("sleep", None, until) \in Ops
          /\ Op("sleep", None, until).kind = "sleep"
          /\ Op("sleep", None, until).fd = None
          /\ Op("sleep", None, until).until = until
BY DEF Ops, Op, Idle, Kinds

(* A list that is not filled holds no signals.                             *)
LEMMA ListFields ==
    ASSUME NEW L \in Lists
    PROVE  /\ L.caught \in SUBSET Signal
           /\ L.st # "filled" => L.caught = {}
           /\ L.st = "open" => L # NoList
BY DEF Lists, List, NoList, OpenList

(* The lists that the code makes.                                          *)
LEMMA MadeLists ==
    /\ NoList \in Lists /\ NoList.caught = {} /\ NoList.st = "none"
    /\ OpenList \in Lists /\ OpenList.caught = {} /\ OpenList.st = "open"
    /\ OpenList # NoList
    /\ \A C \in SUBSET Signal :
          /\ List("filled", C) \in Lists
          /\ List("filled", C).caught = C
          /\ List("filled", C).st = "filled"
          /\ List("filled", C) # NoList
BY DEF Lists, List, NoList, OpenList

(* A waker cell that is dropped leaves the map and takes no key with it.   *)
LEMMA WithoutMap ==
    ASSUME NEW m \in Map, NEW t \in Task
    PROVE  /\ Without(m, t) \in Map
           /\ Without(m, t).keys = m.keys
           /\ \A fd \in Fd : Without(m, t).wakers[fd] = m.wakers[fd] \ {t}
<1>1. \A fd \in Fd : m.wakers[fd] \in SUBSET Task
  BY DEF Map
<1> QED
  BY <1>1 DEF Without, Map

(* A waker that is added.                                                  *)
LEMMA WithMap ==
    ASSUME NEW m \in Map, NEW t \in Task, NEW fd \in Fd
    PROVE  /\ With(m, fd, t) \in Map
           /\ With(m, fd, t).keys = m.keys \cup {fd}
           /\ With(m, fd, t).wakers[fd] = m.wakers[fd] \cup {t}
           /\ \A f \in Fd \ {fd} : With(m, fd, t).wakers[f] = m.wakers[f]
<1>1. m.wakers \in [Fd -> SUBSET Task] /\ m.keys \in SUBSET Fd
  BY DEF Map
<1> QED
  BY <1>1 DEF With, Map

(* wake_tasks_for_ready_fds removes the wakers of the ready descriptors,   *)
(* and it wakes all it removes.                                            *)
LEMMA KeptMap ==
    ASSUME NEW m \in Map, NEW ready \in SUBSET Fd
    PROVE  /\ Kept(m, ready) \in Map
           /\ Kept(m, ready).keys = m.keys \ ready
           /\ \A fd \in Fd :
                Kept(m, ready).wakers[fd] = IF fd \in ready THEN {} ELSE m.wakers[fd]
<1>1. \A fd \in Fd : m.wakers[fd] \in SUBSET Task
  BY DEF Map
<1> QED
  BY <1>1 DEF Kept, Map

LEMMA WokenMap ==
    ASSUME NEW m \in Map, NEW ready \in SUBSET Fd
    PROVE  /\ Woken(m, ready) \in SUBSET Task
           /\ \A fd \in m.keys \cap ready : \A t \in m.wakers[fd] : t \in Woken(m, ready)
<1>1. \A fd \in Fd : m.wakers[fd] \in SUBSET Task
  BY DEF Map
<1>2. m.keys \in SUBSET Fd
  BY DEF Map
<1> QED
  BY <1>1, <1>2 DEF Woken

-----------------------------------------------------------------------------
(* The invariant holds when the process starts.                            *)
LEMMA InitIInv == Init => IInv
<1> SUFFICES ASSUME Init PROVE IInv
  OBVIOUS
<1>0. \A t \in Task : op[t] = Idle /\ list[t] = NoList /\ guard[t] = "none"
  BY DEF Init
<1>1. EmptyMap \in Map /\ \A fd \in Fd : EmptyMap.wakers[fd] = {}
  BY DEF EmptyMap, Map
<1>2. TypeOK
  BY <1>1, NewOps, MadeLists, ConcurrentAssumption DEF Init, TypeOK, Time
<1>3. Registered
  BY <1>0 DEF Registered
<1>4. ModeRestored
  BY DEF Init, ModeRestored
<1>5. Owned
  BY <1>0, <1>1, NewOps DEF Init, Owned, Owns, Kinds
<1>6. Guarded /\ BlocksOnlyIfShared
  BY <1>0, NewOps DEF Init, Guarded, Uses, BlocksOnlyIfShared, Kinds
<1>7. SlotsFit
  BY FS_EmptySet, ConcurrentAssumption DEF Init, SlotsFit
<1> QED
  BY <1>2, <1>3, <1>4, <1>5, <1>6, <1>7 DEF IInv

(* A future that is gone leaves nothing behind and changes nothing that    *)
(* another task relies on.                                                 *)
LEMMA FinishKeeps ==
    ASSUME IInv, Running, NEW t \in Task, Finish(t),
           {arrived', slots', owed'} \subseteq SUBSET Signal,
           budget' \in 0..MaxArrivals,
           SlotsFit'
    PROVE  IInv'
<1> USE DEF IInv
<1>1. /\ op' \in [Task -> Ops] /\ op'[t] = Idle
      /\ \A u \in Task \ {t} : op'[u] = op[u]
  BY NewOps DEF Finish, TypeOK
<1>2. /\ list' \in [Task -> Lists] /\ list'[t] = NoList
      /\ \A u \in Task \ {t} : list'[u] = list[u]
  BY MadeLists DEF Finish, TypeOK
<1>3. /\ guard' \in [Task -> {"none", "restore", "keep"}] /\ guard'[t] = "none"
      /\ \A u \in Task \ {t} : guard'[u] = guard[u]
  BY DEF Finish, TypeOK
<1>4. /\ reads' \in Map /\ reads'.keys = reads.keys
      /\ \A fd \in Fd : reads'.wakers[fd] = reads.wakers[fd] \ {t}
      /\ writes' \in Map /\ writes'.keys = writes.keys
      /\ \A fd \in Fd : writes'.wakers[fd] = writes.wakers[fd] \ {t}
  BY WithoutMap DEF Finish, TypeOK
<1>5. /\ DOMAIN timeouts' = DOMAIN timeouts \ {t}
      /\ \A u \in DOMAIN timeouts' : timeouts'[u] = timeouts[u]
  BY DEF Finish
<1>6. /\ nonblock' \subseteq nonblock
      /\ \A file \in nonblock : ~Uses(t, file) => file \in nonblock'
      /\ guard[t] = "restore" => \A file \in nonblock' : ~Uses(t, file)
  BY DEF Finish, Mode, Uses, Owned, Owns
<1>u. \A file \in File : ~Uses(t, file)' /\ \A u \in Task \ {t} : Uses(u, file)' <=> Uses(u, file)
  BY <1>1, NewOps DEF Uses, Kinds
<1>7. TypeOK'
  BY <1>1, <1>2, <1>3, <1>4, <1>5, <1>6 DEF Finish, TypeOK
<1>8. Registered'
  <2> SUFFICES ASSUME NEW u \in Task, op'[u] # Idle, u \notin due'
               PROVE  LeftWaker(u)'
    BY DEF Registered
  <2>1. u # t /\ op'[u] = op[u] /\ list'[u] = list[u] /\ u \notin due
    BY <1>1, <1>2 DEF Finish
  <2>2. op[u].kind \in Kinds => op[u].fd \in Fd
    BY OpFields DEF TypeOK
  <2> QED
    BY <2>1, <2>2, <1>4, <1>5 DEF Finish, Registered, LeftWaker, Open, Kinds
<1>9. ModeRestored'
  <2> SUFFICES ASSUME NEW file \in nonblock' \ shared'
               PROVE  \E u \in Task : Uses(u, file)' /\ guard'[u] = "restore"
    BY DEF ModeRestored
  <2>1. PICK u \in Task : Uses(u, file) /\ guard[u] = "restore"
    BY <1>6 DEF ModeRestored, Finish
  <2>2. u # t /\ file \in File
    BY <2>1, <1>6 DEF TypeOK
  <2> QED
    BY <2>1, <2>2, <1>u, <1>3
<1>10. Owned'
  <2> SUFFICES ASSUME NEW u \in Task PROVE Owns(u)'
    BY DEF Owned
  <2>1. CASE u = t
    BY <2>1, <1>1, <1>2, <1>3, <1>4, <1>5, NewOps DEF Finish, Kinds, Owns
  <2>2. CASE u # t
    BY <2>2, <1>1, <1>2, <1>3, <1>4, <1>5 DEF Finish, Owned, Owns
  <2> QED
    BY <2>1, <2>2
<1>11. Guarded'
  <2> SUFFICES ASSUME NEW u \in Task, NEW file \in File, Uses(u, file)', file \notin shared'
               PROVE  file \in nonblock' /\ \A v \in Task \ {u} : ~Uses(v, file)'
    BY DEF Guarded
  <2>1. u # t /\ Uses(u, file) /\ shared' = shared
    BY <1>u DEF Finish
  <2>2. file \in nonblock /\ \A v \in Task \ {u} : ~Uses(v, file)
    BY <2>1 DEF Guarded
  <2> QED
    BY <2>1, <2>2, <1>6, <1>u
<1>12. BlocksOnlyIfShared'
  BY DEF Finish, Running, BlocksOnlyIfShared
<1> QED
  BY <1>7, <1>8, <1>9, <1>10, <1>11, <1>12

(* The invariant depends only on what the tasks and the maps hold, on the  *)
(* mode of the descriptors and on the signals.                             *)
LEMMA FrameKeeps ==
    ASSUME IInv, UNCHANGED <<op, cell, list, due, guard, maps, nonblock, shared>>
    PROVE  Registered' /\ ModeRestored' /\ Owned' /\ Guarded'
<1>1. \A t \in Task : LeftWaker(t) <=> LeftWaker(t)'
  BY DEF LeftWaker, Open, maps
<1>2. \A t \in Task : Owns(t) <=> Owns(t)'
  BY DEF Owns, maps
<1> QED
  BY <1>1, <1>2 DEF IInv, Registered, ModeRestored, Owned, Guarded, Uses

(* A task that begins to wait is about to be polled.                       *)
LEMMA StartIOKeeps ==
    ASSUME IInv, NEW t \in Task, NEW kind \in Kinds, NEW fd \in Fd, StartIO(t, kind, fd)
    PROVE  IInv'
<1> USE DEF IInv
<1>1. /\ op' \in [Task -> Ops] /\ op'[t].kind = kind /\ op'[t].fd = fd
      /\ op'[t] # Idle /\ \A u \in Task \ {t} : op'[u] = op[u]
  BY NewOps, OpFields DEF StartIO, TypeOK, Kinds
<1>2. /\ guard' \in [Task -> {"none", "restore", "keep"}]
      /\ guard'[t] = IF FileOf[fd] \in nonblock THEN "keep" ELSE "restore"
      /\ \A u \in Task \ {t} : guard'[u] = guard[u]
  BY DEF StartIO, TypeOK
<1>u. /\ FileOf[fd] \in File /\ Uses(t, FileOf[fd])'
      /\ \A file \in File : /\ ~Uses(t, file)
                            /\ Uses(t, file)' => file = FileOf[fd]
                            /\ \A u \in Task \ {t} : Uses(u, file)' <=> Uses(u, file)
  BY <1>1, NewOps, ConcurrentAssumption DEF StartIO, Uses, Kinds
<1>s. /\ shared' \in SUBSET File /\ shared \subseteq shared'
      /\ \A u \in Task : Uses(u, FileOf[fd]) => FileOf[fd] \in shared'
  BY <1>u DEF StartIO, InUseNow, TypeOK
<1>3. TypeOK'
  BY <1>1, <1>2, <1>u, <1>s DEF StartIO, TypeOK, maps, signals
<1>4. Registered'
  <2> SUFFICES ASSUME NEW u \in Task, op'[u] # Idle, u \notin due'
               PROVE  LeftWaker(u)'
    BY DEF Registered
  <2>1. u # t /\ op'[u] = op[u] /\ u \notin due
    BY <1>1 DEF StartIO
  <2> QED
    BY <2>1 DEF StartIO, Registered, LeftWaker, Open, maps
<1>5. ModeRestored'
  <2> SUFFICES ASSUME NEW file \in nonblock' \ shared'
               PROVE  \E u \in Task : Uses(u, file)' /\ guard'[u] = "restore"
    BY DEF ModeRestored
  <2>0. file \in File
    BY <1>3 DEF TypeOK
  <2>1. CASE file \in nonblock
    <3>1. PICK u \in Task : Uses(u, file) /\ guard[u] = "restore"
      BY <2>1, <1>s DEF ModeRestored
    <3> QED
      BY <3>1, <2>0, <1>u, <1>2
  <2>2. CASE file \notin nonblock
    BY <2>2, <1>u, <1>2 DEF StartIO
  <2> QED
    BY <2>1, <2>2
<1>6. Owned'
  <2> SUFFICES ASSUME NEW u \in Task PROVE Owns(u)'
    BY DEF Owned
  <2>1. CASE u = t
    BY <2>1, <1>1, <1>2, NewOps DEF StartIO, Owned, Owns, Kinds, maps
  <2>2. CASE u # t
    BY <2>2, <1>1, <1>2 DEF StartIO, Owned, Owns, maps
  <2> QED
    BY <2>1, <2>2
<1>7. Guarded'
  <2> SUFFICES ASSUME NEW u \in Task, NEW file \in File, Uses(u, file)', file \notin shared'
               PROVE  file \in nonblock' /\ \A v \in Task \ {u} : ~Uses(v, file)'
    BY DEF Guarded
  <2>1. CASE file = FileOf[fd]
    <3>1. \A v \in Task : ~Uses(v, file)
      BY <2>1, <1>s
    <3> QED
      BY <2>1, <3>1, <1>u DEF StartIO
  <2>2. CASE file # FileOf[fd]
    <3>1. u # t /\ Uses(u, file) /\ file \notin shared
      BY <2>2, <1>u, <1>s
    <3>2. file \in nonblock /\ \A v \in Task \ {u} : ~Uses(v, file)
      BY <3>1 DEF Guarded
    <3> QED
      BY <2>2, <3>2, <1>u DEF StartIO
  <2> QED
    BY <2>1, <2>2
<1>8. BlocksOnlyIfShared' /\ SlotsFit'
  BY <1>s DEF StartIO, Running, BlocksOnlyIfShared, SlotsFit, signals
<1> QED
  BY <1>3, <1>4, <1>5, <1>6, <1>7, <1>8

(* The same for a task that will sleep or wait for signals.                *)
LEMMA StartOtherKeeps ==
    ASSUME IInv, NEW t \in Task,
           StartWait(t) \/ \E until \in Time : StartSleep(t, until)
    PROVE  IInv'
<1> USE DEF IInv
<1>0. /\ Running /\ op[t] = Idle /\ due' = due \cup {t}
      /\ UNCHANGED <<cell, guard, stuck, maps, files, signals, now, shared>>
  BY DEF StartWait, StartSleep
<1>1. PICK o \in Ops :
        /\ op' = [op EXCEPT ![t] = o] /\ o.fd = None
        /\ \/ o.kind = "signals" /\ list' = [list EXCEPT ![t] = OpenList]
           \/ o.kind = "sleep" /\ list' = list
  BY NewOps DEF StartWait, StartSleep
<1>2. /\ op' \in [Task -> Ops] /\ op'[t] = o /\ o # Idle
      /\ \A u \in Task \ {t} : op'[u] = op[u] /\ list'[u] = list[u]
      /\ list' \in [Task -> Lists]
      /\ o.kind = "signals" => list'[t] = OpenList
      /\ o.kind = "sleep" => list'[t] = list[t]
  BY <1>1, NewOps, MadeLists DEF TypeOK
<1>3. TypeOK'
  BY <1>0, <1>2 DEF TypeOK, maps, signals, files
<1>4. Registered'
  <2> SUFFICES ASSUME NEW u \in Task, op'[u] # Idle, u \notin due'
               PROVE  LeftWaker(u)'
    BY DEF Registered
  <2>1. u # t /\ op'[u] = op[u] /\ list'[u] = list[u] /\ u \notin due
    BY <1>0, <1>2
  <2> QED
    BY <2>1, <1>0 DEF Registered, LeftWaker, Open, maps
<1>5. op[t].fd = None /\ op[t].kind = "none" /\ guard[t] = "none" /\ list[t] = NoList
  BY <1>0, NewOps DEF Owned, Owns, Kinds
<1>6. ModeRestored'
  BY <1>0, <1>2, <1>5 DEF ModeRestored, Uses, files
<1>7. Owned'
  <2> SUFFICES ASSUME NEW u \in Task PROVE Owns(u)'
    BY DEF Owned
  <2>1. CASE u = t
    BY <2>1, <1>0, <1>1, <1>2, <1>5, MadeLists DEF Owned, Owns, Kinds, maps
  <2>2. CASE u # t
    BY <2>2, <1>0, <1>2 DEF Owned, Owns, maps
  <2> QED
    BY <2>1, <2>2
<1>8. Guarded'
  <2>1. \A u \in Task, file \in File : Uses(u, file)' => Uses(u, file)
    BY <1>1, <1>2 DEF Uses, Kinds
  <2> QED
    BY <2>1, <1>0 DEF Guarded, files
<1>9. BlocksOnlyIfShared' /\ SlotsFit'
  BY <1>0 DEF Running, BlocksOnlyIfShared, SlotsFit, signals
<1> QED
  BY <1>3, <1>4, <1>6, <1>7, <1>8, <1>9

(* A task that could not go on has left its waker.                         *)
LEMMA PollIOKeeps ==
    ASSUME IInv, NEW t \in Task, PollIO(t)
    PROVE  IInv'
<1> USE DEF IInv
<1>1. CASE Ready(t) /\ Finish(t) /\ UNCHANGED signals
  BY <1>1, FinishKeeps DEF PollIO, TypeOK, SlotsFit, signals
<1>2. CASE /\ ~Ready(t) /\ FileOf[op[t].fd] \in nonblock
           /\ Pend(t)
           /\ reads' = IF op[t].kind = "read" THEN With(reads, op[t].fd, t) ELSE reads
           /\ writes' = IF op[t].kind = "write" THEN With(writes, op[t].fd, t) ELSE writes
           /\ UNCHANGED <<timeouts, catches>>
  <2>1. /\ op[t].kind \in {"read", "write"} /\ Running /\ op[t] # Idle
        /\ \A u \in Task : op[u].kind \in Kinds => op[u].fd \in Fd
    BY <1>2, OpFields DEF PollIO, Kinds, TypeOK
  <2>0. PICK fd \in Fd : fd = op[t].fd
    BY <2>1 DEF Kinds
  <2>2. /\ cell' = cell \cup {t} /\ due' = due \ {t}
        /\ UNCHANGED <<op, list, guard, stuck, files, signals, now, shared, timeouts, catches>>
    BY <1>2 DEF Pend
  <2>3. /\ reads' \in Map /\ reads.keys \subseteq reads'.keys
        /\ op[t].kind = "read" => fd \in reads'.keys /\ t \in reads'.wakers[fd]
        /\ \A f \in Fd, u \in Task : u \in reads.wakers[f] => u \in reads'.wakers[f]
        /\ \A f \in Fd, u \in Task : u \in reads'.wakers[f] =>
              u \in reads.wakers[f] \/ (u = t /\ f = fd /\ op[t].kind = "read")
    <3>1. CASE op[t].kind = "read"
      <4>1. reads' = With(reads, fd, t) /\ reads \in Map
        BY <3>1, <1>2, <2>0 DEF TypeOK
      <4>3. /\ reads' \in Map /\ reads'.keys = reads.keys \cup {fd}
            /\ reads'.wakers[fd] = reads.wakers[fd] \cup {t}
            /\ \A f \in Fd \ {fd} : reads'.wakers[f] = reads.wakers[f]
        BY <4>1, WithMap
      <4> QED
        BY <3>1, <4>3
    <3>2. CASE op[t].kind # "read"
      <4>1. reads' = reads /\ reads \in Map
        BY <3>2, <1>2 DEF TypeOK
      <4> QED
        BY <3>2, <4>1
    <3> QED
      BY <3>1, <3>2
  <2>4. /\ writes' \in Map /\ writes.keys \subseteq writes'.keys
        /\ op[t].kind = "write" => fd \in writes'.keys /\ t \in writes'.wakers[fd]
        /\ \A f \in Fd, u \in Task : u \in writes.wakers[f] => u \in writes'.wakers[f]
        /\ \A f \in Fd, u \in Task : u \in writes'.wakers[f] =>
              u \in writes.wakers[f] \/ (u = t /\ f = fd /\ op[t].kind = "write")
    <3>1. CASE op[t].kind = "write"
      <4>1. writes' = With(writes, fd, t) /\ writes \in Map
        BY <3>1, <1>2, <2>0 DEF TypeOK
      <4>3. /\ writes' \in Map /\ writes'.keys = writes.keys \cup {fd}
            /\ writes'.wakers[fd] = writes.wakers[fd] \cup {t}
            /\ \A f \in Fd \ {fd} : writes'.wakers[f] = writes.wakers[f]
        BY <4>1, WithMap
      <4> QED
        BY <3>1, <4>3
    <3>2. CASE op[t].kind # "write"
      <4>1. writes' = writes /\ writes \in Map
        BY <3>2, <1>2 DEF TypeOK
      <4> QED
        BY <3>2, <4>1
    <3> QED
      BY <3>1, <3>2
  <2>5. TypeOK'
    BY <2>2, <2>3, <2>4 DEF TypeOK, files, signals
  <2>6. Registered'
    <3> SUFFICES ASSUME NEW u \in Task, op'[u] # Idle, u \notin due'
                 PROVE  LeftWaker(u)'
      BY DEF Registered
    <3>1. CASE u = t
      BY <3>1, <2>0, <2>1, <2>2, <2>3, <2>4 DEF LeftWaker
    <3>2. CASE u # t
      BY <3>2, <2>1, <2>2, <2>3, <2>4 DEF Registered, LeftWaker, Open, Kinds
    <3> QED
      BY <3>1, <3>2
  <2>7. Owned'
    <3> SUFFICES ASSUME NEW u \in Task PROVE Owns(u)'
      BY DEF Owned
    <3> QED
      BY <2>0, <2>1, <2>2, <2>3, <2>4 DEF Owned, Owns
  <2>8. ModeRestored' /\ Guarded' /\ BlocksOnlyIfShared' /\ SlotsFit'
    BY <2>2 DEF ModeRestored, Guarded, Uses, BlocksOnlyIfShared, SlotsFit, files, signals
  <2> QED
    BY <2>5, <2>6, <2>7, <2>8
<1> QED
  BY <1>1, <1>2 DEF PollIO

LEMMA PollSleepKeeps ==
    ASSUME IInv, NEW t \in Task, PollSleep(t)
    PROVE  IInv'
<1> USE DEF IInv
<1>1. CASE now >= op[t].until /\ Finish(t) /\ UNCHANGED signals
  BY <1>1, FinishKeeps DEF PollSleep, TypeOK, SlotsFit, signals
<1>2. CASE /\ Pend(t) /\ timeouts' = Pushed(t, op[t].until)
           /\ UNCHANGED <<reads, writes, catches>>
  <2>1. op[t].kind = "sleep" /\ op[t].until \in Time /\ op[t] # Idle /\ op[t].until <= op[t].until
    BY <1>2, OpFields, ConcurrentAssumption DEF PollSleep, TypeOK, Time
  <2>2. /\ cell' = cell \cup {t} /\ due' = due \ {t}
        /\ UNCHANGED <<op, list, guard, stuck, files, signals, now, shared, reads, writes, catches>>
    BY <1>2 DEF Pend
  <2>3. t \in DOMAIN timeouts => timeouts[t] = op[t].until
    BY DEF Owned, Owns
  <2>4. /\ DOMAIN timeouts' = DOMAIN timeouts \cup {t} /\ timeouts'[t] = op[t].until
        /\ \A u \in DOMAIN timeouts \ {t} : timeouts'[u] = timeouts[u]
    BY <1>2, <2>1, <2>3 DEF Pushed
  <2>5. TypeOK'
    BY <2>1, <2>2, <2>4 DEF TypeOK, files, signals
  <2>6. Registered'
    BY <2>1, <2>2, <2>4 DEF Registered, LeftWaker, Open
  <2>7. Owned'
    BY <2>1, <2>2, <2>4 DEF Owned, Owns
  <2>8. ModeRestored' /\ Guarded' /\ BlocksOnlyIfShared' /\ SlotsFit'
    BY <2>2 DEF ModeRestored, Guarded, Uses, BlocksOnlyIfShared, SlotsFit, files, signals
  <2> QED
    BY <2>5, <2>6, <2>7, <2>8
<1> QED
  BY <1>1, <1>2 DEF PollSleep

LEMMA PollWaitKeeps ==
    ASSUME IInv, NEW t \in Task, PollWait(t)
    PROVE  IInv'
<1> USE DEF IInv
<1>1. CASE Finish(t) /\ owed' = owed \ list[t].caught /\ UNCHANGED <<arrived, slots, budget>>
  BY <1>1, FinishKeeps DEF PollWait, TypeOK, SlotsFit, signals
<1>2. CASE Open(t) /\ Pend(t) /\ catches' = catches \cup {t} /\ UNCHANGED <<reads, writes, timeouts>>
  <2>1. op[t].kind = "signals" /\ op[t] # Idle
    BY <1>2, NewOps DEF PollWait
  <2>2. /\ cell' = cell \cup {t} /\ due' = due \ {t} /\ catches' = catches \cup {t}
        /\ UNCHANGED <<op, list, guard, stuck, files, signals, now, shared, reads, writes, timeouts>>
    BY <1>2 DEF Pend
  <2>5. TypeOK'
    BY <2>1, <2>2 DEF TypeOK, files, signals
  <2>6. Registered'
    BY <1>2, <2>1, <2>2 DEF Registered, LeftWaker, Open
  <2>7. Owned'
    BY <2>1, <2>2 DEF Owned, Owns
  <2>8. ModeRestored' /\ Guarded' /\ BlocksOnlyIfShared' /\ SlotsFit'
    BY <2>2 DEF ModeRestored, Guarded, Uses, BlocksOnlyIfShared, SlotsFit, files, signals
  <2> QED
    BY <2>5, <2>6, <2>7, <2>8
<1> QED
  BY <1>1, <1>2 DEF PollWait

LEMMA CancelKeeps ==
    ASSUME IInv, NEW t \in Task, Cancel(t)
    PROVE  IInv'
BY FinishKeeps DEF Cancel, IInv, TypeOK, SlotsFit, signals

(* A call blocks only if the descriptor is not in non-blocking mode.       *)
LEMMA BlockKeeps ==
    ASSUME IInv, NEW t \in Task, Block(t)
    PROVE  IInv'
<1>1. TypeOK' /\ SlotsFit'
  BY DEF Block, IInv, TypeOK, SlotsFit, maps, files, signals
<1>2. Registered' /\ ModeRestored' /\ Owned' /\ Guarded'
  BY FrameKeeps DEF Block, files
<1>3. FileOf[op[t].fd] \in shared
  BY OpFields, ConcurrentAssumption DEF Block, IInv, TypeOK, Guarded, Uses, Kinds
<1> QED
  BY <1>1, <1>2, <1>3 DEF IInv, Block, BlocksOnlyIfShared

(* What the rest of the world does, and a call that no longer blocks.      *)
LEMMA WorldKeeps ==
    ASSUME IInv,
           \/ \E s \in Signal : Arrive(s)
           \/ \E file \in File : Change(file)
           \/ \E fd \in Fd : Close(fd)
           \/ Unblock \/ Tick
    PROVE  IInv'
<1>1. UNCHANGED <<op, cell, list, due, guard, maps, nonblock, shared>>
  BY DEF Arrive, Change, Close, Unblock, Tick, tasks, files
<1>2. Registered' /\ ModeRestored' /\ Owned' /\ Guarded'
  BY <1>1, FrameKeeps
<1>3. BlocksOnlyIfShared'
  BY <1>1 DEF IInv, BlocksOnlyIfShared, Arrive, Change, Close, Unblock, Tick, tasks
<1>4. SlotsFit'
  <2>1. ASSUME NEW s \in Signal, Arrive(s) PROVE SlotsFit'
    BY <2>1, FS_AddElement DEF IInv, SlotsFit, Arrive
  <2> QED
    BY <2>1 DEF IInv, SlotsFit, Change, Close, Unblock, Tick, signals
<1>5. TypeOK'
  <2>1. ASSUME NEW s \in Signal, Arrive(s) PROVE TypeOK'
    BY <2>1, ConcurrentAssumption DEF IInv, TypeOK, Arrive, tasks, maps, files
  <2>2. ASSUME NEW file \in File, Change(file) PROVE TypeOK'
    BY <2>2 DEF IInv, TypeOK, Change, Flip, tasks, maps, signals
  <2>3. ASSUME NEW fd \in Fd, Close(fd) PROVE TypeOK'
    BY <2>3 DEF IInv, TypeOK, Close, tasks, maps, signals
  <2>4. ASSUME Unblock PROVE TypeOK'
    BY <2>4 DEF IInv, TypeOK, Unblock, maps, files, signals
  <2>5. ASSUME Tick PROVE TypeOK'
    BY <2>5, ConcurrentAssumption DEF IInv, TypeOK, Tick, Time, tasks, maps, files, signals
  <2> QED
    BY <2>1, <2>2, <2>3, <2>4, <2>5
<1> QED
  BY <1>2, <1>3, <1>4, <1>5 DEF IInv

(* Another process that changes a mode makes the description a shared one. *)
LEMMA MeddleKeeps ==
    ASSUME IInv, NEW file \in File, Meddle(file)
    PROVE  IInv'
<1> USE DEF IInv
<1>1. TypeOK'
  BY DEF Meddle, TypeOK, Flip, tasks, maps, signals
<1>2. /\ UNCHANGED <<op, cell, list, due, guard, stuck, reads, writes, timeouts, catches>>
      /\ shared' = shared \cup {file}
      /\ \A f \in File \ {file} : f \in nonblock' <=> f \in nonblock
  BY DEF Meddle, Flip, tasks, maps
<1>3. \A t \in Task : (LeftWaker(t) <=> LeftWaker(t)') /\ (Owns(t) <=> Owns(t)')
  BY <1>2 DEF LeftWaker, Open, Owns
<1>4. Registered' /\ Owned'
  BY <1>2, <1>3 DEF Registered, Owned
<1>5. ModeRestored'
  BY <1>1, <1>2 DEF ModeRestored, Uses, TypeOK
<1>6. Guarded'
  BY <1>2 DEF Guarded, Uses
<1>7. BlocksOnlyIfShared' /\ SlotsFit'
  BY <1>2 DEF BlocksOnlyIfShared, SlotsFit, Meddle, signals
<1> QED
  BY <1>1, <1>4, <1>5, <1>6, <1>7

-----------------------------------------------------------------------------
(* The handler always has something to store: what is there already, and   *)
(* of what comes as much as there is room for.                             *)
LEMMA DeliveredFits ==
    ASSUME IInv
    PROVE  LET D == Delivered(arrived) IN
           /\ D \subseteq slots \cup arrived /\ slots \subseteq D
           /\ IsFiniteSet(D) /\ Cardinality(D) <= Slots
           /\ D = slots \cup arrived \/ Cardinality(D) = Slots
<1> DEFINE T == slots \cup arrived
           R == T \ slots
           n == Cardinality(R)
           k == Slots - Cardinality(slots)
<1>1. /\ IsFiniteSet(T) /\ IsFiniteSet(R) /\ n \in Nat /\ Cardinality(slots) \in Nat
      /\ Slots \in Nat /\ k \in Nat
  <2>1. IsFiniteSet(slots) /\ IsFiniteSet(arrived) /\ Cardinality(slots) <= Slots
    BY DEF IInv, SlotsFit
  <2>2. IsFiniteSet(T)
    BY <2>1, FS_Union
  <2>3. IsFiniteSet(R)
    BY <2>2, FS_Difference
  <2> QED
    BY <2>1, <2>2, <2>3, FS_CardinalityType, ConcurrentAssumption
<1>2. SUFFICES \E D \in SUBSET T : /\ slots \subseteq D /\ Cardinality(D) <= Slots
                                   /\ D = T \/ Cardinality(D) = Slots
  <2> DEFINE D == Delivered(arrived)
  <2>1. /\ D \in SUBSET T /\ slots \subseteq D /\ Cardinality(D) <= Slots
        /\ D = T \/ Cardinality(D) = Slots
    BY <1>2 DEF Delivered
  <2>2. IsFiniteSet(D)
    BY <2>1, <1>1, FS_Subset
  <2> QED
    BY <2>1, <2>2
<1>3. Cardinality(T) = Cardinality(slots) + n
  <2>1. T = slots \cup R /\ slots \cap R = {}
    OBVIOUS
  <2>2. Cardinality(slots \cup R) = Cardinality(slots) + Cardinality(R) - Cardinality(slots \cap R)
    BY <1>1, FS_Union DEF IInv, SlotsFit
  <2>3. Cardinality(slots \cap R) = 0
    BY <2>1, FS_EmptySet
  <2> QED
    BY <2>1, <2>2, <2>3, <1>1
<1>4. CASE n <= k
  <2>1. Cardinality(T) <= Slots
    BY <1>1, <1>3, <1>4
  <2> QED
    BY <2>1
<1>5. CASE k < n
  <2>1. PICK f : f \in Bijection(1..n, R)
    BY <1>1, FS_CardinalityType DEF ExistsBijection
  <2> DEFINE E == {f[i] : i \in 1..k}
             g == [i \in 1..k |-> f[i]]
  <2>2. /\ \A i \in 1..n : f[i] \in R
        /\ \A i, j \in 1..n : f[i] = f[j] => i = j
    BY <2>1 DEF Bijection, Injection, Surjection, IsInjective
  <2>3. 1..k \subseteq 1..n
    BY <1>1, <1>5
  <2>4. E \subseteq R
    BY <2>2, <2>3
  <2>5. g \in Bijection(1..k, E)
    BY <2>2, <2>3 DEF Bijection, Injection, Surjection, IsInjective
  <2>6. IsFiniteSet(1..k) /\ Cardinality(1..k) = k
    BY <1>1, FS_Interval
  <2>7. IsFiniteSet(E) /\ Cardinality(E) = k
    BY <2>5, <2>6, FS_Bijection DEF ExistsBijection
  <2>8. slots \cap E = {}
    BY <2>4
  <2>9. Cardinality(slots \cup E) = Cardinality(slots) + Cardinality(E) - Cardinality(slots \cap E)
    BY <2>7, FS_Union DEF IInv, SlotsFit
  <2>10. Cardinality(slots \cup E) = Slots
    <3> HIDE DEF E, k
    <3>1. Cardinality(slots \cap E) = 0
      BY <2>8, FS_EmptySet
    <3>2. Cardinality(slots \cup E) = Cardinality(slots) + k
      BY <3>1, <2>7, <2>9, <1>1
    <3> QED
      BY <3>2, <1>1 DEF k
  <2>11. slots \cup E \in SUBSET T /\ slots \subseteq slots \cup E
    BY <2>4
  <2> HIDE DEF E
  <2> QED
    BY <2>10, <2>11, <1>1
<1> QED
  BY <1>1, <1>4, <1>5

(* After select: what was removed from the maps has been woken, the open   *)
(* lists are filled together, and the signals that nobody awaits are kept. *)
LEMMA AfterSelectKeeps ==
    ASSUME IInv, Running,
           NEW result \in {"EINTR", "EBADF", "ok"},
           NEW r \in SUBSET Fd, NEW w \in SUBSET Fd, NEW C \in SUBSET Signal,
           AfterSelect(result, r, w, C),
           IsFiniteSet(C), Cardinality(C) <= Slots,
           arrived' \in {arrived, {}},
           UNCHANGED <<op, guard, stuck, files, budget, owed, now, shared>>
    PROVE  IInv'
<1> USE DEF IInv
<1> DEFINE filled == C # {} /\ Awaited
           rested == {t \in DOMAIN timeouts : timeouts[t] <= now}
           removed == IF result = "EINTR" THEN {} ELSE Woken(reads, r) \cup Woken(writes, w)
           woken == removed \cup rested \cup (IF filled THEN catches ELSE {})
<1>1. /\ DOMAIN timeouts' = DOMAIN timeouts \ rested
      /\ \A t \in DOMAIN timeouts \ rested : timeouts'[t] = timeouts[t]
  BY DEF AfterSelect
<1>2. /\ list' \in [Task -> Lists]
      /\ \A t \in Task : list'[t] = NoList <=> list[t] = NoList
      /\ ~filled => list' = list
  <2>1. CASE ~filled
    BY <2>1 DEF AfterSelect, TypeOK
  <2>2. CASE filled
    <3>1. list' = [t \in Task |-> IF Open(t) THEN List("filled", C) ELSE list[t]]
      BY <2>2 DEF AfterSelect
    <3>2. \A t \in Task : list[t] \in Lists
      BY DEF TypeOK
    <3>3. ASSUME NEW t \in Task
          PROVE  list'[t] \in Lists /\ (list'[t] = NoList <=> list[t] = NoList)
      <4>1. CASE Open(t)
        BY <4>1, <3>1, <3>2, MadeLists, ListFields DEF Open
      <4>2. CASE ~Open(t)
        BY <4>2, <3>1, <3>2
      <4> QED
        BY <4>1, <4>2
    <3> QED
      BY <3>1, <3>3, <2>2
  <2> QED
    BY <2>1, <2>2
<1>3. /\ due' = due \cup (woken \cap cell) /\ cell' = cell \ woken
      /\ catches' = IF filled THEN {} ELSE catches
      /\ slots' = IF Awaited THEN {} ELSE C
  BY DEF AfterSelect
<1>4. /\ reads' \in Map /\ writes' \in Map
      /\ \A fd \in Fd : /\ reads'.wakers[fd] \subseteq reads.wakers[fd]
                        /\ writes'.wakers[fd] \subseteq writes.wakers[fd]
      /\ \A fd \in reads.keys, t \in Task : t \in reads.wakers[fd] /\ t \notin removed =>
            fd \in reads'.keys /\ t \in reads'.wakers[fd]
      /\ \A fd \in writes.keys, t \in Task : t \in writes.wakers[fd] /\ t \notin removed =>
            fd \in writes'.keys /\ t \in writes'.wakers[fd]
  <2>0. /\ reads \in Map /\ writes \in Map
        /\ reads.keys \subseteq Fd /\ writes.keys \subseteq Fd
    BY DEF TypeOK, Map
  <2>1. CASE result = "EINTR"
    <3>1. reads' = reads /\ writes' = writes
      BY <2>1 DEF AfterSelect
    <3> QED
      BY <3>1, <2>0
  <2>2. CASE result # "EINTR"
    <3>1. reads' = Kept(reads, r) /\ writes' = Kept(writes, w)
      BY <2>2 DEF AfterSelect
    <3>2. removed = Woken(reads, r) \cup Woken(writes, w)
      BY <2>2
    <3> HIDE DEF removed
    <3>3. /\ reads' \in Map /\ reads'.keys = reads.keys \ r
          /\ \A fd \in r : reads'.wakers[fd] = {}
          /\ \A fd \in Fd \ r : reads'.wakers[fd] = reads.wakers[fd]
      BY <2>0, <3>1, KeptMap
    <3>4. /\ writes' \in Map /\ writes'.keys = writes.keys \ w
          /\ \A fd \in w : writes'.wakers[fd] = {}
          /\ \A fd \in Fd \ w : writes'.wakers[fd] = writes.wakers[fd]
      BY <2>0, <3>1, KeptMap
    <3>5. /\ \A fd \in reads.keys \cap r, t \in Task : t \in reads.wakers[fd] => t \in removed
          /\ \A fd \in writes.keys \cap w, t \in Task : t \in writes.wakers[fd] => t \in removed
      BY <2>0, <3>2, WokenMap
    <3> QED
      BY <2>0, <3>3, <3>4, <3>5
  <2> QED
    BY <2>1, <2>2
<1>5. woken \cap cell \subseteq Task
  BY DEF TypeOK
<1> HIDE DEF removed
<1>6. TypeOK'
  BY <1>1, <1>2, <1>3, <1>4, <1>5 DEF TypeOK, files
<1>7. Registered'
  <2> SUFFICES ASSUME NEW u \in Task, op'[u] # Idle, u \notin due'
               PROVE  LeftWaker(u)'
    BY DEF Registered
  <2>1. u \notin due /\ op'[u] = op[u] /\ LeftWaker(u)
    BY <1>3 DEF Registered
  <2>2. u \in cell' /\ u \notin woken
    BY <2>1, <1>3 DEF LeftWaker
  <2>3. op[u].kind = "sleep" => u \in DOMAIN timeouts' /\ timeouts'[u] = op[u].until
    BY <2>1, <2>2, <1>1 DEF LeftWaker
  <2>4. op[u].kind = "signals" => u \in catches' /\ list'[u].st = "open"
    BY <2>1, <2>2, <1>2, <1>3 DEF LeftWaker, Open
  <2>5. u \notin removed
    BY <2>2
  <2> QED
    BY <2>1, <2>2, <2>3, <2>4, <2>5, <1>4 DEF LeftWaker, Open
<1>8. Owned'
  <2> SUFFICES ASSUME NEW u \in Task PROVE Owns(u)'
    BY DEF Owned
  <2>1. Owns(u) /\ op'[u] = op[u] /\ guard'[u] = guard[u]
    BY DEF Owned
  <2>2. u \in catches' => u \in catches
    BY <1>3
  <2>3. u \notin cell => u \notin cell'
    BY <1>3
  <2>4. u \notin cell /\ u \notin due => u \notin due'
    BY <1>3
  <2> QED
    BY <2>1, <2>2, <2>3, <2>4, <1>1, <1>2, <1>4 DEF Owns
<1>9. ModeRestored' /\ Guarded' /\ BlocksOnlyIfShared'
  <2>0. /\ op' = op /\ guard' = guard /\ stuck' = stuck
        /\ nonblock' = nonblock /\ shared' = shared
    BY DEF files
  <2>1. \A t, file : Uses(t, file)' <=> Uses(t, file)
    BY <2>0 DEF Uses
  <2>2. ModeRestored'
    BY <2>0, <2>1 DEF ModeRestored
  <2>3. Guarded'
    BY <2>0, <2>1 DEF Guarded
  <2>4. BlocksOnlyIfShared'
    BY <2>0 DEF BlocksOnlyIfShared
  <2> QED
    BY <2>2, <2>3, <2>4
<1>10. SlotsFit'
  BY <1>3, FS_EmptySet, ConcurrentAssumption DEF SlotsFit
<1> QED
  BY <1>6, <1>7, <1>8, <1>9, <1>10

(* The three ways in which the call returns.                               *)
LEMMA SelectCases ==
    ASSUME IInv, NEW peek \in BOOLEAN, Select(peek)
    PROVE  \E result \in {"EINTR", "EBADF", "ok"}, r, w \in SUBSET Fd, C \in SUBSET Signal :
             /\ AfterSelect(result, r, w, C)
             /\ IsFiniteSet(C) /\ Cardinality(C) <= Slots
             /\ \/ Awaited /\ C = Delivered(arrived) /\ arrived' = {}
                \/ C = slots /\ arrived' = arrived
<1> DEFINE P(result, r, w, C) ==
             /\ AfterSelect(result, r, w, C)
             /\ IsFiniteSet(C) /\ Cardinality(C) <= Slots
             /\ \/ Awaited /\ C = Delivered(arrived) /\ arrived' = {}
                \/ C = slots /\ arrived' = arrived
<1>1. /\ reads.keys \in SUBSET Fd /\ writes.keys \in SUBSET Fd
      /\ slots \in SUBSET Signal /\ arrived \in SUBSET Signal
      /\ IsFiniteSet(slots) /\ Cardinality(slots) <= Slots
  BY DEF IInv, TypeOK, Map, SlotsFit
<1>2. CASE /\ Awaited /\ arrived' = {}
           /\ AfterSelect("EINTR", {}, {}, Delivered(arrived))
  <2>1. P("EINTR", {}, {}, Delivered(arrived)) /\ Delivered(arrived) \in SUBSET Signal
    BY <1>1, <1>2, DeliveredFits
  <2> QED
    BY <2>1
<1>3. CASE AfterSelect("EBADF", reads.keys, writes.keys, slots) /\ UNCHANGED arrived
  <2>1. P("EBADF", reads.keys, writes.keys, slots)
    BY <1>1, <1>3
  <2> QED
    BY <1>1, <2>1
<1>4. CASE /\ AfterSelect("ok", On(reads.keys, readable), On(writes.keys, writable), slots)
           /\ UNCHANGED arrived
  <2>1. P("ok", On(reads.keys, readable), On(writes.keys, writable), slots)
    BY <1>1, <1>4
  <2>2. On(reads.keys, readable) \in SUBSET Fd /\ On(writes.keys, writable) \in SUBSET Fd
    BY <1>1 DEF On
  <2> QED
    BY <1>1, <2>1, <2>2
<1> QED
  BY <1>2, <1>3, <1>4 DEF Select

LEMMA SelectKeeps ==
    ASSUME IInv, NEW peek \in BOOLEAN, Select(peek)
    PROVE  IInv'
<1>1. PICK result \in {"EINTR", "EBADF", "ok"}, r \in SUBSET Fd, w \in SUBSET Fd,
          C \in SUBSET Signal :
             /\ AfterSelect(result, r, w, C)
             /\ IsFiniteSet(C) /\ Cardinality(C) <= Slots
             /\ arrived' \in {arrived, {}}
  BY SelectCases
<1>2. Running /\ UNCHANGED <<op, guard, stuck, files, budget, owed, now, shared>>
  BY DEF Select
<1> QED
  BY <1>1, <1>2, AfterSelectKeeps

(* Every step of a task, of select and of the world keeps the invariant.   *)
LEMMA NextIInv == IInv /\ [Next]_vars => IInv'
<1> SUFFICES ASSUME IInv, [Next]_vars PROVE IInv'
  OBVIOUS
<1>1. ASSUME NEW t \in Task, NEW fd \in Fd, NEW kind \in Kinds, StartIO(t, kind, fd)
      PROVE  IInv'
  BY <1>1, StartIOKeeps
<1>2. ASSUME NEW t \in Task, StartWait(t) \/ \E until \in Time : StartSleep(t, until)
      PROVE  IInv'
  BY <1>2, StartOtherKeeps
<1>3. ASSUME NEW t \in Task, Poll(t)
      PROVE  IInv'
  BY <1>3, PollIOKeeps, PollSleepKeeps, PollWaitKeeps DEF Poll
<1>4. ASSUME NEW t \in Task, Block(t) \/ Cancel(t)
      PROVE  IInv'
  BY <1>4, BlockKeeps, CancelKeeps
<1>5. ASSUME NEW peek \in BOOLEAN, Select(peek)
      PROVE  IInv'
  BY <1>5, SelectKeeps
<1>6. CASE \/ \E s \in Signal : Arrive(s)
           \/ \E file \in File : Change(file)
           \/ \E fd \in Fd : Close(fd)
           \/ Unblock \/ Tick
  BY <1>6, WorldKeeps
<1>8. ASSUME NEW file \in File, Meddle(file)
      PROVE  IInv'
  BY <1>8, MeddleKeeps
<1>7. CASE UNCHANGED vars
  <2>1. UNCHANGED <<op, cell, list, due, guard, stuck, maps, files, signals, now, shared>>
    BY <1>7 DEF vars, tasks
  <2>2. Registered' /\ ModeRestored' /\ Owned' /\ Guarded'
    BY <2>1, FrameKeeps DEF files
  <2> QED
    BY <2>1, <2>2 DEF IInv, TypeOK, BlocksOnlyIfShared, SlotsFit, maps, files, signals
<1> QED
  BY <1>1, <1>2, <1>3, <1>4, <1>5, <1>6, <1>7, <1>8 DEF Next

-----------------------------------------------------------------------------
(* The inductive invariant of the concurrent system: what the futures own, *)
(* where their wakers are, and what the guards have done to descriptors.   *)
THEOREM Invariant == Spec => []IInv
BY InitIInv, NextIInv, PTL DEF Spec

(* Select never forgets a task: one that is not about to be polled has a   *)
(* waker where select looks for what the task awaits.                      *)
THEOREM NoLostWaker == Spec => []Registered
BY Invariant, PTL DEF IInv

(* TemporaryNonBlockingGuard: an open file description that no other       *)
(* process has a hand in is in non-blocking mode only as long as the task  *)
(* that put it there uses it.                                              *)
THEOREM NonBlockingOnlyInUse == Spec => []ModeRestored
BY Invariant, PTL DEF IInv

(* A read or a write blocks the whole process only if two tasks have used  *)
(* the same open file description at once, or another process has changed  *)
(* its mode.                                                               *)
THEOREM Blocking == Spec => []BlocksOnlyIfShared
BY Invariant, PTL DEF IInv

(* With a slot for every signal, the handler stores all that come.         *)
LEMMA DeliveredAll ==
    ASSUME IInv, IsFiniteSet(Signal), Cardinality(Signal) <= Slots
    PROVE  Delivered(arrived) = slots \cup arrived
<1> DEFINE D == Delivered(arrived)
           T == slots \cup arrived
<1>1. /\ D \in SUBSET T /\ IsFiniteSet(D)
      /\ D = T \/ Cardinality(D) = Slots
  BY DeliveredFits
<1>2. T \in SUBSET Signal
  BY DEF IInv, TypeOK
<1>3. IsFiniteSet(T) /\ Cardinality(T) <= Cardinality(Signal)
  BY <1>2, FS_Subset
<1>4. Cardinality(D) <= Cardinality(T) /\ (Cardinality(T) = Cardinality(D) => T = D)
  BY <1>1, <1>3, FS_Subset
<1>5. Cardinality(T) \in Nat /\ Cardinality(D) \in Nat /\ Cardinality(Signal) \in Nat /\ Slots \in Nat
  BY <1>1, <1>3, FS_CardinalityType, ConcurrentAssumption
<1>6. Cardinality(D) = Slots => Cardinality(T) = Cardinality(D)
  BY <1>3, <1>4, <1>5
<1> QED
  BY <1>1, <1>4, <1>6

(* A step that completes or drops the future of a task that holds no       *)
(* signals loses none.                                                     *)
LEMMA FinishLoses ==
    ASSUME IInv, NoneLost, NEW t \in Task, Finish(t), list[t].caught = {}, UNCHANGED signals
    PROVE  NoneLost'
<1>1. /\ list'[t].caught = {}
      /\ \A u \in Task \ {t} : list'[u] = list[u]
  BY MadeLists DEF Finish, IInv, TypeOK
<1> QED
  BY <1>1 DEF NoneLost, signals

(* select hands what was caught to a task that waits, or keeps it.         *)
LEMMA SelectLoses ==
    ASSUME IInv, NoneLost, IsFiniteSet(Signal), Cardinality(Signal) <= Slots,
           NEW peek \in BOOLEAN, Select(peek)
    PROVE  NoneLost'
<1>1. PICK result \in {"EINTR", "EBADF", "ok"}, r \in SUBSET Fd, w \in SUBSET Fd,
          C \in SUBSET Signal :
             /\ AfterSelect(result, r, w, C)
             /\ \/ Awaited /\ C = Delivered(arrived) /\ arrived' = {}
                \/ C = slots /\ arrived' = arrived
  BY SelectCases
<1>2. owed' = owed
  BY DEF Select
<1>3. slots \cup arrived = C \cup arrived'
  BY <1>1, DeliveredAll
<1>4. ASSUME NEW s \in Signal, \E t \in Task : s \in list[t].caught
      PROVE  \E t \in Task : s \in list'[t].caught
  <2>1. PICK t \in Task : s \in list[t].caught
    BY <1>4
  <2>2. ~Open(t)
    BY <2>1, ListFields DEF Open, IInv, TypeOK
  <2>3. list'[t] = list[t]
    BY <1>1, <2>2 DEF AfterSelect
  <2> QED
    BY <2>1, <2>3
<1>5. ASSUME NEW s \in C
      PROVE  s \in slots' \/ \E t \in Task : s \in list'[t].caught
  <2>1. CASE ~Awaited
    BY <1>1, <1>5, <2>1 DEF AfterSelect
  <2>2. CASE Awaited
    <3>1. PICK t \in Task : Open(t)
      BY <2>2 DEF Awaited
    <3>2. C # {}
      BY <1>5
    <3>3. list'[t] = List("filled", C)
      BY <1>1, <2>2, <3>1, <3>2 DEF AfterSelect
    <3> QED
      BY <1>5, <3>3, MadeLists
  <2> QED
    BY <2>1, <2>2
<1>6. \A s \in owed : s \in Signal
  BY DEF IInv, TypeOK
<1> QED
  BY <1>2, <1>3, <1>4, <1>5, <1>6 DEF NoneLost

(* With a slot for every signal that may come, no signal is lost between   *)
(* the kernel and a task: whichever way select returns, whether or not     *)
(* anybody waits, and whichever futures are dropped on the way.            *)
THEOREM SignalsReachTasks ==
    ASSUME IsFiniteSet(Signal), Cardinality(Signal) <= Slots
    PROVE  Spec => []NoneLost
<1>1. Init => NoneLost
  BY DEF Init, NoneLost
<1>2. IInv /\ NoneLost /\ [Next]_vars => NoneLost'
  <2> SUFFICES ASSUME IInv, NoneLost, [Next]_vars PROVE NoneLost'
    OBVIOUS
  <2>1. ASSUME NEW t \in Task, NEW fd \in Fd, NEW kind \in Kinds, StartIO(t, kind, fd)
        PROVE  NoneLost'
    BY <2>1 DEF StartIO, NoneLost, signals
  <2>2. ASSUME NEW t \in Task, NEW until \in Time, StartSleep(t, until)
        PROVE  NoneLost'
    BY <2>2 DEF StartSleep, NoneLost, signals
  <2>3. ASSUME NEW t \in Task, StartWait(t)
        PROVE  NoneLost'
    <3>1. list[t] = NoList
      BY <2>3, NewOps DEF StartWait, IInv, Owned, Owns
    <3>2. \A u \in Task : list'[u].caught = list[u].caught
      BY <2>3, <3>1, MadeLists DEF StartWait, IInv, TypeOK
    <3> QED
      BY <2>3, <3>2 DEF StartWait, NoneLost, signals
  <2>4. ASSUME NEW t \in Task, PollIO(t) \/ PollSleep(t)
        PROVE  NoneLost'
    <3>1. list[t].caught = {}
      BY <2>4, MadeLists DEF PollIO, PollSleep, IInv, Owned, Owns, Kinds
    <3>2. (Finish(t) /\ UNCHANGED signals) \/ Pend(t)
      BY <2>4 DEF PollIO, PollSleep
    <3> QED
      BY <3>1, <3>2, FinishLoses DEF Pend, NoneLost, signals
  <2>5. ASSUME NEW t \in Task, PollWait(t)
        PROVE  NoneLost'
    <3>1. CASE /\ Finish(t) /\ owed' = owed \ list[t].caught
               /\ UNCHANGED <<arrived, slots, budget>>
      <4>1. \A u \in Task \ {t} : list'[u] = list[u]
        BY <3>1 DEF Finish, IInv, TypeOK
      <4> QED
        BY <3>1, <4>1 DEF NoneLost
    <3>2. CASE Pend(t)
      BY <3>2 DEF Pend, NoneLost, signals
    <3> QED
      BY <2>5, <3>1, <3>2 DEF PollWait
  <2>6. ASSUME NEW t \in Task, Cancel(t)
        PROVE  NoneLost'
    <3>1. list[t].caught = {}
      BY <2>6, ListFields DEF Cancel, IInv, TypeOK
    <3> QED
      BY <2>6, <3>1, FinishLoses DEF Cancel
  <2>7. ASSUME NEW t \in Task, Block(t)
        PROVE  NoneLost'
    BY <2>7 DEF Block, NoneLost, signals
  <2>8. ASSUME NEW peek \in BOOLEAN, Select(peek)
        PROVE  NoneLost'
    BY <2>8, SelectLoses
  <2>9. ASSUME NEW s \in Signal, Arrive(s)
        PROVE  NoneLost'
    BY <2>9 DEF Arrive, NoneLost, tasks
  <2>10. CASE \/ \E file \in File : Change(file) \/ Meddle(file)
              \/ \E fd \in Fd : Close(fd)
              \/ Unblock \/ Tick \/ UNCHANGED vars
    BY <2>10 DEF Change, Meddle, Close, Unblock, Tick, vars, NoneLost, tasks, signals
  <2> QED
    BY <2>1, <2>2, <2>3, <2>4, <2>5, <2>6, <2>7, <2>8, <2>9, <2>10 DEF Next, Poll
<1> QED
  BY <1>1, <1>2, Invariant, PTL DEF Spec

=============================================================================
