------------------------------ MODULE LvMemProofs -------------------------------
(***************************************************************************)
(* The pool allocator, for every size of the pool, any number of tasks and *)
(* sizes of blocks, with and without joining freed blocks: no order of the *)
(* calls, nor a block cut outside the mutex, breaks the chain of entries   *)
(* or lets two blocks overlap.                                             *)
(***************************************************************************)
EXTENDS LvMem, TLAPS

(* Tiled and BlocksIntact in parts. *)
Chained == /\ 0 \in heads
           /\ \A h \in heads : /\ cells[h].by = 0
                               /\ h + 1 + cells[h].size \in heads \cup {Words}
Apart   == \A h, g \in heads : h < g => h + cells[h].size < g
Walking == {"walk", "merge", "seek", "join", "count"}
OnHeads == \A t \in Tasks : task[t].pc \in Walking => task[t].cur \in heads

Given   == \A t \in Tasks : \A h \in owned[t] :
              /\ h \in heads /\ cells[h].used
              /\ \A u \in Tasks \ {t} : h \notin owned[u]
Filled  == \A t \in Tasks : \A h \in owned[t] :
              \A i \in Kept(t, h) : cells[h + i] = Data(t)
InUse   == \A h \in heads : cells[h].used => \E t \in Tasks : h \in owned[t]

(* Who walks holds the mutex; what is joined is free; a block that is      *)
(* being cut has its new header inside it.                                 *)
Locked  == \A t \in Tasks : task[t].pc \in Walking => lock = t
Holder  == \A t \in Tasks : lock = t => task[t].pc \in Walking
Growing == \A t \in Tasks :
              /\ task[t].pc = "walk" => task[t].old = NULL \/ task[t].old \in owned[t]
              /\ task[t].pc = "drop" => task[t].old \in owned[t]
Joining == \A t \in Tasks : task[t].pc \in {"merge", "join"} =>
              /\ ~cells[task[t].cur].used
              /\ task[t].nxt # NULL =>
                   /\ task[t].nxt = task[t].cur + 1 + cells[task[t].cur].size
                   /\ task[t].nxt \in heads
Cutting == \A t \in Tasks : task[t].pc = "shrink" =>
              /\ task[t].cur \in owned[t]
              /\ task[t].n + 1 < cells[task[t].cur].size
              /\ cells[task[t].cur + 1 + task[t].n] = Rest(task[t].cur, task[t].n)

IInv == /\ TypeOK /\ Chained /\ Apart /\ OnHeads /\ Given /\ Filled /\ InUse
        /\ Locked /\ Holder /\ Growing /\ Joining /\ Cutting

-------------------------------------------------------------------------------
(* An entry and its data are in the pool and in no other entry.            *)
LEMMA Region ==
  ASSUME IInv, NEW g \in heads, NEW i \in 0 .. cells[g].size
  PROVE  /\ g \in Place /\ cells[g].size \in Nat /\ g + i \in Place
         /\ \A h \in heads : h # g => g + i \notin h .. h + cells[h].size
  <1>1. /\ Words \in Nat /\ heads \subseteq 0 .. Words - 1
        /\ \A h \in heads : cells[h].size \in 0 .. Words
    BY PoolAssumption DEF IInv, TypeOK, Place, Word
  <1>2. g + 1 + cells[g].size \in heads \cup {Words}
    BY DEF IInv, Chained
  <1>3. g + 1 + cells[g].size =< Words
    BY <1>1, <1>2
  <1>4. \A h \in heads : /\ h < g => h + cells[h].size < g
                         /\ g < h => g + cells[g].size < h
    BY DEF IInv, Apart
  <1> QED
    BY <1>1, <1>3, <1>4 DEF Place

LEMMA Sized ==
  ASSUME IInv, NEW h \in heads
  PROVE  /\ h \in Nat /\ h \in Place /\ cells[h].size \in Nat
         /\ h \in h .. h + cells[h].size
  BY PoolAssumption DEF IInv, TypeOK, Place, Word

(* The entry found next is the one where this one ends.                    *)
LEMMA NextHead ==
  ASSUME IInv, NEW h \in heads, ent_get_next(h) # NULL
  PROVE  ent_get_next(h) = h + 1 + cells[h].size /\ ent_get_next(h) \in heads
  <1>1. /\ Words \in Nat /\ h \in 0 .. Words - 1 /\ cells[h].size \in 0 .. Words
    BY PoolAssumption DEF IInv, TypeOK, Place, Word
  <1>2. /\ ~(h + 2 + cells[h].size >= Words)
        /\ ent_get_next(h) = h + 1 + cells[h].size
    BY DEF ent_get_next
  <1>3. h + 1 + cells[h].size \in heads \cup {Words}
    BY DEF IInv, Chained
  <1> QED
    BY <1>1, <1>2, <1>3

LEMMA NextPlace ==
  ASSUME IInv, NEW h \in heads
  PROVE  ent_get_next(h) \in Place \cup {NULL}
  BY NextHead DEF IInv, TypeOK

TaskRec == [pc : {"idle", "walk", "drop", "merge", "seek", "join", "shrink", "count"},
            cur : Place, nxt : Place \cup {NULL}, n : Nat, old : Place \cup {NULL}]

LEMMA IdleRec ==
  /\ Idle \in TaskRec /\ 0 \in Place /\ NULL \in Place \cup {NULL} /\ Words \in Nat
  /\ Idle.pc = "idle" /\ Idle.cur = 0 /\ Idle.old = NULL
  <1> Words \in Nat /\ Words >= 2
    BY PoolAssumption
  <1> QED
    BY DEF Idle, TaskRec, Place, NULL

(* What a task's record becomes. *)
ToWalk(q, n, old) == [q EXCEPT !.pc = "walk", !.n = n, !.old = old]
ToCount(q) == [q EXCEPT !.pc = "count"]
ToSeek(q) == [q EXCEPT !.pc = "seek"]
ToNext(q, c) == [q EXCEPT !.cur = c]
ToAfter(q, x) == [q EXCEPT !.nxt = x]
ToJoin(q, x) == [q EXCEPT !.pc = "join", !.nxt = x]
ToBehind(q, c) == [q EXCEPT !.pc = "seek", !.cur = c]
ToMerge(q, c, x) == [q EXCEPT !.pc = "merge", !.cur = c, !.nxt = x]
ToDrop(q, old) == [q EXCEPT !.pc = "drop", !.old = old]
ToShrink(q, c, n) == [q EXCEPT !.pc = "shrink", !.cur = c, !.n = n]

LEMMA ToWalkIs ==
  ASSUME NEW q \in TaskRec, NEW n \in Nat, NEW old \in Place \cup {NULL}
  PROVE  /\ ToWalk(q, n, old) \in TaskRec
         /\ ToWalk(q, n, old).pc = "walk"
         /\ ToWalk(q, n, old).cur = q.cur
         /\ ToWalk(q, n, old).old = old
  BY DEF ToWalk, TaskRec

LEMMA ToCountIs ==
  ASSUME NEW q \in TaskRec
  PROVE  /\ ToCount(q) \in TaskRec
         /\ ToCount(q).pc = "count"
         /\ ToCount(q).cur = q.cur
  BY DEF ToCount, TaskRec

LEMMA ToSeekIs ==
  ASSUME NEW q \in TaskRec
  PROVE  /\ ToSeek(q) \in TaskRec
         /\ ToSeek(q).pc = "seek"
         /\ ToSeek(q).cur = q.cur
  BY DEF ToSeek, TaskRec

LEMMA ToNextIs ==
  ASSUME NEW q \in TaskRec, NEW c \in Place
  PROVE  /\ ToNext(q, c) \in TaskRec
         /\ ToNext(q, c).pc = q.pc
         /\ ToNext(q, c).cur = c
         /\ ToNext(q, c).old = q.old
  BY DEF ToNext, TaskRec

LEMMA ToAfterIs ==
  ASSUME NEW q \in TaskRec, NEW x \in Place \cup {NULL}
  PROVE  /\ ToAfter(q, x) \in TaskRec
         /\ ToAfter(q, x).pc = q.pc
         /\ ToAfter(q, x).cur = q.cur
         /\ ToAfter(q, x).nxt = x
  BY DEF ToAfter, TaskRec

LEMMA ToJoinIs ==
  ASSUME NEW q \in TaskRec, NEW x \in Place \cup {NULL}
  PROVE  /\ ToJoin(q, x) \in TaskRec
         /\ ToJoin(q, x).pc = "join"
         /\ ToJoin(q, x).cur = q.cur
         /\ ToJoin(q, x).nxt = x
  BY DEF ToJoin, TaskRec

LEMMA ToBehindIs ==
  ASSUME NEW q \in TaskRec, NEW c \in Place
  PROVE  /\ ToBehind(q, c) \in TaskRec
         /\ ToBehind(q, c).pc = "seek"
         /\ ToBehind(q, c).cur = c
  BY DEF ToBehind, TaskRec

LEMMA ToMergeIs ==
  ASSUME NEW q \in TaskRec, NEW c \in Place, NEW x \in Place \cup {NULL}
  PROVE  /\ ToMerge(q, c, x) \in TaskRec
         /\ ToMerge(q, c, x).pc = "merge"
         /\ ToMerge(q, c, x).cur = c
         /\ ToMerge(q, c, x).nxt = x
  BY DEF ToMerge, TaskRec

LEMMA ToDropIs ==
  ASSUME NEW q \in TaskRec, NEW old \in Place \cup {NULL}
  PROVE  /\ ToDrop(q, old) \in TaskRec
         /\ ToDrop(q, old).pc = "drop"
         /\ ToDrop(q, old).old = old
  BY DEF ToDrop, TaskRec

LEMMA ToShrinkIs ==
  ASSUME NEW q \in TaskRec, NEW c \in Place, NEW n \in Nat
  PROVE  /\ ToShrink(q, c, n) \in TaskRec
         /\ ToShrink(q, c, n).pc = "shrink"
         /\ ToShrink(q, c, n).cur = c
         /\ ToShrink(q, c, n).n = n
  BY DEF ToShrink, TaskRec

-------------------------------------------------------------------------------
LEMMA InitInv == Init => IInv
  <1> SUFFICES ASSUME Init PROVE IInv
    OBVIOUS
  <1>1. /\ joining \in BOOLEAN /\ heads = {0} /\ lock = 0 /\ count = 0
        /\ cells = [i \in Place |-> Head(FALSE, Words - 1)]
        /\ task = [t \in Tasks |-> Idle] /\ owned = [t \in Tasks |-> {}]
    BY DEF Init
  <1>2. Words \in Nat /\ Words >= 2 /\ Tasks \subseteq Nat \ {0} /\ FullDefragCnt \in Nat \ {0}
    BY PoolAssumption
  <1>3. Head(FALSE, Words - 1) \in Word
    BY <1>2 DEF Head, Word
  <1>4. TypeOK
    <2>1. cells \in [Place -> Word]
      BY <1>1, <1>3
    <2>2. task \in [Tasks -> TaskRec]
      BY <1>1, IdleRec
    <2>3. owned \in [Tasks -> SUBSET Place] /\ heads \subseteq Place
      BY <1>1, IdleRec
    <2>4. count \in 0 .. FullDefragCnt - 1
      BY <1>1, <1>2
    <2> QED
      BY <1>1, <2>1, <2>2, <2>3, <2>4 DEF TypeOK, TaskRec
  <1>5. cells[0] = Head(FALSE, Words - 1)
    BY <1>1, IdleRec
  <1>6. cells[0].by = 0 /\ cells[0].size = Words - 1 /\ cells[0].used = FALSE
    BY <1>5 DEF Head
  <1>7. Chained /\ Apart /\ InUse
    <2>1. 0 + 1 + cells[0].size = Words /\ ~cells[0].used
      BY <1>2, <1>6
    <2>2. \A h \in heads : h = 0
      BY <1>1
    <2>3. Chained
      BY <1>1, <1>6, <2>1, <2>2 DEF Chained
    <2>4. Apart
      BY <2>2 DEF Apart
    <2> QED
      BY <2>1, <2>2, <2>3, <2>4 DEF InUse
  <1>8. \A t \in Tasks : task[t].pc = "idle" /\ owned[t] = {} /\ lock # t
    BY <1>1, <1>2, IdleRec
  <1>9. OnHeads /\ Given /\ Filled /\ Locked /\ Holder /\ Growing /\ Joining /\ Cutting
    BY <1>8 DEF OnHeads, Given, Filled, Locked, Holder, Growing, Joining, Cutting, Walking
  <1> QED
    BY <1>4, <1>7, <1>9 DEF IInv

(* Only where a task is and the mutex change. *)
LEMMA MoveInv ==
  ASSUME IInv, NEW t \in Tasks, NEW r \in TaskRec,
         cells' = cells, heads' = heads, owned' = owned, joining' = joining, count' = count,
         task' = [task EXCEPT ![t] = r],
         task[t].pc # "shrink", r.pc \notin {"shrink", "drop"},
         r.pc \in Walking => lock' = t /\ r.cur \in heads /\ (lock = t \/ lock = 0),
         r.pc \notin Walking => lock' = 0 /\ lock = t,
         r.pc = "walk" => r.old = NULL \/ r.old \in owned[t],
         r.pc \in {"merge", "join"} => /\ ~cells[r.cur].used
                                       /\ r.nxt # NULL => /\ r.nxt = r.cur + 1 + cells[r.cur].size
                                                          /\ r.nxt \in heads
  PROVE  IInv'
  <1> USE DEF IInv
  <1>1. task'[t] = r /\ \A u \in Tasks \ {t} : task'[u] = task[u]
    BY DEF TypeOK
  <1>2. Tasks \subseteq Nat \ {0}
    BY PoolAssumption
  <1>3. lock' \in {t, 0} /\ lock \in {t, 0}
    OBVIOUS
  <1>4. TypeOK'
    <2>1. task' \in [Tasks -> TaskRec]
      BY DEF TypeOK, TaskRec
    <2> QED
      BY <1>3, <2>1 DEF TypeOK, TaskRec
  <1>5. Chained' /\ Apart' /\ Given' /\ InUse'
    BY DEF Chained, Apart, Given, InUse
  <1>6. OnHeads' /\ Locked' /\ Holder'
    BY <1>1, <1>2, <1>3 DEF OnHeads, Locked, Holder
  <1>7. Filled'
    <2>1. \A u \in Tasks, h \in Place : Kept(u, h)' = Kept(u, h)
      BY <1>1 DEF Kept
    <2> QED
      BY <2>1 DEF Filled, TypeOK
  <1>8. Growing'
    BY <1>1 DEF Growing
  <1>9. Joining'
    BY <1>1 DEF Joining
  <1>10. Cutting'
    BY <1>1 DEF Cutting, Rest, Head
  <1> QED
    BY <1>4, <1>5, <1>6, <1>7, <1>8, <1>9, <1>10

-------------------------------------------------------------------------------
(* Calls begin, walks go on and end. *)
LEMMA WalksInv ==
  ASSUME IInv, NEW t \in Tasks,
         \/ \E n \in Sizes : lv_mem_alloc(t, n)
         \/ \E h \in owned[t], n \in Sizes : task[t].pc = "idle" /\ n > cells[h].size /\ AllocBegin(t, n, h)
         \/ lv_mem_monitor(t) \/ WalkOn(t) \/ Seek(t) \/ Count(t)
         \/ task[t].pc \in {"merge", "join"} /\ Blocked(t) /\ Ends(t)
         \/ /\ task[t].pc = "join" /\ Blocked(t) /\ task[t].nxt # NULL
            /\ Moves(t, [Idle EXCEPT !.pc = "seek", !.cur = task[t].nxt])
  PROVE  IInv'
  <1> DEFINE c == task[t].cur
             x == ent_get_next(c)
  <1>1. /\ Idle \in TaskRec /\ task[t] \in TaskRec /\ heads \subseteq Place /\ 0 \in heads
        /\ t # 0 /\ Idle.pc = "idle" /\ Idle.old = NULL
        /\ \A h \in owned[t] : h \in heads
        /\ task[t].pc \in Walking => lock = t /\ c \in heads
        /\ DOMAIN Idle = {"pc", "cur", "nxt", "n", "old"}
    BY IdleRec, PoolAssumption DEF IInv, TypeOK, TaskRec, Chained, Locked, OnHeads, Given, Idle
  <1>2. c \in heads => /\ x \in Place \cup {NULL}
                       /\ x # NULL => x = c + 1 + cells[c].size /\ x \in heads
    BY NextHead, NextPlace
  <1>3. CASE \E n \in Sizes, old \in owned[t] \cup {NULL} :
               task[t].pc = "idle" /\ AllocBegin(t, n, old)
    <2>1. PICK n \in Sizes, old \in owned[t] \cup {NULL} :
               task[t].pc = "idle" /\ AllocBegin(t, n, old)
      BY <1>3
    <2>2. PICK r \in TaskRec : /\ r = ToWalk(Idle, n, old)
                               /\ r.pc = "walk" /\ r.cur = 0 /\ r.old = old
      <3>1. n \in Nat /\ old \in Place \cup {NULL}
        BY <1>1, PoolAssumption
      <3> QED
        BY <3>1, IdleRec, ToWalkIs
    <2>3. /\ task' = [task EXCEPT ![t] = r] /\ lock = 0 /\ lock' = t
          /\ cells' = cells /\ heads' = heads /\ owned' = owned /\ joining' = joining
          /\ count' = count
      BY <2>1, <2>2 DEF AllocBegin, Takes, Goes, ToWalk
    <2> QED
      BY <1>1, <2>1, <2>2, <2>3, MoveInv DEF Walking
  <1>4. CASE lv_mem_monitor(t)
    <2>1. PICK r \in TaskRec : /\ r = ToCount(Idle)
                               /\ r.pc = "count" /\ r.cur = 0
      BY IdleRec, ToCountIs
    <2>2. /\ task' = [task EXCEPT ![t] = r] /\ lock = 0 /\ lock' = t /\ task[t].pc = "idle"
          /\ cells' = cells /\ heads' = heads /\ owned' = owned /\ joining' = joining
          /\ count' = count
      BY <1>4, <2>1 DEF lv_mem_monitor, Takes, Goes, ToCount
    <2> QED
      BY <1>1, <2>1, <2>2, MoveInv DEF Walking
  <1>5. CASE /\ task[t].pc \in Walking /\ task' = [task EXCEPT ![t] = Idle] /\ lock' = 0
             /\ cells' = cells /\ heads' = heads /\ owned' = owned /\ joining' = joining
             /\ count' = count
    BY <1>1, <1>5, MoveInv DEF Walking
  <1>6. CASE /\ task[t].pc \in {"walk", "seek", "count"} /\ x # NULL
             /\ task' = [task EXCEPT ![t] = [task[t] EXCEPT !.cur = x]] /\ lock' = lock
             /\ cells' = cells /\ heads' = heads /\ owned' = owned /\ joining' = joining
             /\ count' = count
    <2>1. c \in heads /\ lock = t /\ x \in heads
      BY <1>1, <1>2, <1>6 DEF Walking
    <2>2. PICK r \in TaskRec : /\ r = ToNext(task[t], x)
                               /\ r.pc = task[t].pc /\ r.cur = x /\ r.old = task[t].old
      <3>1. x \in Place
        BY <1>1, <2>1
      <3> HIDE DEF x
      <3> QED
        BY <1>1, <3>1, ToNextIs
    <2>3. r.pc = "walk" => r.old = NULL \/ r.old \in owned[t]
      BY <2>2 DEF IInv, Growing
    <2>4. task' = [task EXCEPT ![t] = r]
      BY <1>6, <2>2 DEF ToNext
    <2> HIDE DEF x
    <2> QED
      BY <1>6, <2>1, <2>2, <2>3, <2>4, MoveInv DEF Walking
  <1>7. CASE /\ task[t].pc = "seek" /\ ~cells[c].used
             /\ Moves(t, [task[t] EXCEPT !.pc = "join", !.nxt = x])
    <2>1. c \in heads /\ lock = t /\ lock' = t
      BY <1>1, <1>7 DEF Walking, Moves
    <2>2. PICK r \in TaskRec : /\ r = ToJoin(task[t], x)
                               /\ r.pc = "join" /\ r.cur = c /\ r.nxt = x
      <3>1. x \in Place \cup {NULL}
        BY <1>2, <2>1
      <3> HIDE DEF x
      <3> QED
        BY <1>1, <3>1, ToJoinIs
    <2>3. /\ task' = [task EXCEPT ![t] = r]
          /\ cells' = cells /\ heads' = heads /\ owned' = owned /\ joining' = joining
          /\ count' = count
      BY <1>7, <2>2 DEF Moves, Goes, ToJoin
    <2>4. r.nxt # NULL => r.nxt = r.cur + 1 + cells[r.cur].size /\ r.nxt \in heads
      BY <1>2, <2>1, <2>2
    <2>5. ~cells[r.cur].used
      BY <1>7, <2>2
    <2> HIDE DEF x, c
    <2> QED
      BY <1>7, <2>1, <2>2, <2>3, <2>4, <2>5, MoveInv DEF Walking
  <1>8. CASE /\ task[t].pc = "join" /\ task[t].nxt # NULL
             /\ Moves(t, [Idle EXCEPT !.pc = "seek", !.cur = task[t].nxt])
    <2>1. task[t].nxt \in heads /\ lock = t /\ lock' = t
      BY <1>1, <1>8 DEF Walking, Moves, IInv, Joining
    <2>2. PICK r \in TaskRec : /\ r = ToBehind(Idle, task[t].nxt)
                               /\ r.pc = "seek" /\ r.cur = task[t].nxt
      <3>1. task[t].nxt \in Place
        BY <1>1, <2>1
      <3> QED
        BY <1>1, <3>1, IdleRec, ToBehindIs
    <2>3. /\ task' = [task EXCEPT ![t] = r]
          /\ cells' = cells /\ heads' = heads /\ owned' = owned /\ joining' = joining
          /\ count' = count
      BY <1>8, <2>2 DEF Moves, Goes, ToBehind
    <2> QED
      BY <1>8, <2>1, <2>2, <2>3, MoveInv DEF Walking
  <1> QED
    BY <1>3, <1>4, <1>5, <1>6, <1>7, <1>8
       DEF lv_mem_alloc, WalkOn, Seek, Count, Ends, Moves, Goes, Walking

-------------------------------------------------------------------------------
(* A block is given back. *)
LEMMA FreeInv ==
  ASSUME IInv, NEW t \in Tasks, NEW h \in owned[t], task[t].pc \in {"idle", "drop"}, Free(t, h)
  PROVE  IInv'
  <1> USE DEF IInv
  <1>1. /\ h \in heads /\ h \in Place /\ cells \in [Place -> Word] /\ 0 \in heads
        /\ \A u \in Tasks \ {t} : h \notin owned[u]
        /\ t # 0 /\ \A u \in Tasks : u # 0
        /\ task \in [Tasks -> TaskRec] /\ owned \in [Tasks -> SUBSET Place]
    BY PoolAssumption DEF Given, TypeOK, TaskRec, Chained
  <1>2. /\ cells' = [cells EXCEPT ![h].used = FALSE]
        /\ owned' = [owned EXCEPT ![t] = @ \ {h}]
        /\ heads' = heads /\ joining' = joining /\ lock = 0
    BY DEF Free, FreeBegin, FreeOnly, Takes
  <1>3. /\ cells' \in [Place -> Word]
        /\ \A i \in Place : cells'[i].by = cells[i].by /\ cells'[i].size = cells[i].size
        /\ \A i \in Place : i # h => cells'[i] = cells[i]
        /\ ~cells'[h].used
    BY <1>1, <1>2 DEF Word
  <1>4. /\ owned' \in [Tasks -> SUBSET Place]
        /\ owned'[t] = owned[t] \ {h} /\ \A u \in Tasks \ {t} : owned'[u] = owned[u]
        /\ \A u \in Tasks : owned'[u] \subseteq owned[u] /\ h \notin owned'[u]
    BY <1>1, <1>2
  <1>5. PICK r \in TaskRec :
          /\ task' = [task EXCEPT ![t] = r]
          /\ \/ r.pc = "idle" /\ lock' = 0 /\ count' = count
             \/ /\ r.pc = "merge" /\ r.cur = h /\ r.nxt = ent_get_next(h) /\ lock' = t
                /\ ~Due /\ count' = count + 1
             \/ r.pc = "seek" /\ r.cur = 0 /\ lock' = t /\ count' = 0
    <2>1. CASE FreeOnly(t, h)
      BY <2>1, IdleRec DEF FreeOnly, Goes
    <2>2. CASE FreeBegin(t, h) /\ ~Due
      <3>1. ent_get_next(h) \in Place \cup {NULL}
        BY <1>1, NextPlace
      <3>2. /\ task' = [task EXCEPT ![t] = ToMerge(Idle, h, ent_get_next(h))]
            /\ lock' = t /\ count' = count + 1
        BY <2>2 DEF FreeBegin, Goes, Takes, ToMerge
      <3>3. /\ ToMerge(Idle, h, ent_get_next(h)) \in TaskRec
            /\ ToMerge(Idle, h, ent_get_next(h)).pc = "merge"
            /\ ToMerge(Idle, h, ent_get_next(h)).cur = h
            /\ ToMerge(Idle, h, ent_get_next(h)).nxt = ent_get_next(h)
        BY <1>1, <3>1, IdleRec, ToMergeIs
      <3> QED
        BY <2>2, <3>2, <3>3
    <2>3. CASE FreeBegin(t, h) /\ Due
      <3>1. task' = [task EXCEPT ![t] = ToSeek(Idle)] /\ lock' = t /\ count' = 0
        BY <2>3 DEF FreeBegin, Goes, Takes, ToSeek
      <3>2. ToSeek(Idle) \in TaskRec /\ ToSeek(Idle).pc = "seek" /\ ToSeek(Idle).cur = 0
        BY IdleRec, ToSeekIs
      <3> QED
        BY <3>1, <3>2
    <2> QED
      BY <2>1, <2>2, <2>3 DEF Free
  <1>6. /\ task'[t] = r /\ \A u \in Tasks \ {t} : task'[u] = task[u]
        /\ task' \in [Tasks -> TaskRec]
    BY <1>1, <1>5
  <1>7. TypeOK'
    <2>1. count' \in 0 .. FullDefragCnt - 1
      BY <1>5, PoolAssumption DEF TypeOK, Due
    <2>2. lock' \in Tasks \cup {0}
      BY <1>5
    <2> QED
      BY <1>2, <1>3, <1>4, <1>6, <2>1, <2>2 DEF TypeOK, TaskRec
  <1>8. Chained' /\ Apart'
    BY <1>2, <1>3 DEF Chained, Apart, TypeOK
  <1>9. OnHeads'
    BY <1>1, <1>2, <1>5, <1>6 DEF OnHeads, Walking
  <1>10. Given'
    <2>1. \A u \in Tasks : \A g \in owned'[u] : g \in owned[u] /\ g # h
      BY <1>4
    <2> QED
      BY <1>2, <1>3, <1>4, <2>1 DEF Given, TypeOK
  <1>11. Filled'
    <2>1. \A u \in Tasks : \A g \in owned'[u] :
            g \in owned[u] /\ g \in heads /\ g # h /\ cells'[g].size = cells[g].size
      BY <1>1, <1>3, <1>4 DEF Given, TypeOK
    <2>2. \A u \in Tasks : \A g \in owned'[u] : Kept(u, g)' = Kept(u, g)
      BY <1>5, <1>6, <2>1 DEF Kept
    <2>3. ASSUME NEW u \in Tasks, NEW g \in owned'[u], NEW i \in Kept(u, g)
          PROVE  cells'[g + i] = cells[g + i]
      <3>1. i \in 0 .. cells[g].size
        BY <2>1, <2>3 DEF Kept, Cutting, TypeOK, Word
      <3>2. g + i \in Place /\ g + i # h
        <4>1. g + i \in Place /\ g + i \notin h .. h + cells[h].size
          BY <1>1, <2>1, <3>1, Region
        <4>2. h \in h .. h + cells[h].size
          BY <1>1, Sized
        <4> QED
          BY <4>1, <4>2
      <3> QED
        BY <1>3, <3>2
    <2> QED
      BY <2>1, <2>2, <2>3 DEF Filled
  <1>12. InUse'
    <2> SUFFICES ASSUME NEW g \in heads, cells'[g].used PROVE \E u \in Tasks : g \in owned'[u]
      BY <1>2 DEF InUse
    <2>1. g # h /\ cells[g].used
      BY <1>3 DEF TypeOK
    <2>2. PICK u \in Tasks : g \in owned[u]
      BY <2>1 DEF InUse
    <2> QED
      BY <1>4, <2>1, <2>2
  <1>13. Locked' /\ Holder'
    BY <1>1, <1>2, <1>5, <1>6 DEF Locked, Holder, Walking
  <1>14. Growing'
    BY <1>4, <1>5, <1>6 DEF Growing, Locked, Holder, Walking
  <1>15. Joining'
    <2>1. \A u \in Tasks \ {t} : task'[u].pc \notin {"merge", "join"}
      BY <1>1, <1>2, <1>6 DEF Locked, Walking
    <2>2. r.pc = "merge" /\ r.nxt # NULL =>
            r.nxt = h + 1 + cells[h].size /\ r.nxt \in heads
      BY <1>1, <1>5, NextHead
    <2> QED
      BY <1>1, <1>2, <1>3, <1>5, <1>6, <2>1, <2>2 DEF Joining
  <1>16. Cutting'
    <2> SUFFICES ASSUME NEW u \in Tasks, task'[u].pc = "shrink"
                 PROVE  /\ task'[u].cur \in owned'[u]
                        /\ task'[u].n + 1 < cells'[task'[u].cur].size
                        /\ cells'[task'[u].cur + 1 + task'[u].n]
                             = Head(FALSE, cells'[task'[u].cur].size - task'[u].n - 1)
      BY DEF Cutting, Rest
    <2> DEFINE g == task[u].cur
               n == task[u].n
    <2>1. u # t /\ task'[u] = task[u]
      BY <1>5, <1>6
    <2>2. /\ g \in owned[u] /\ g \in heads /\ g # h /\ n \in Nat /\ n + 1 < cells[g].size
          /\ cells[g + 1 + n] = Rest(g, n) /\ g \in owned'[u]
      BY <1>1, <1>4, <2>1 DEF Cutting, Given, TypeOK, TaskRec
    <2> HIDE DEF g, n
    <2>3. g + (n + 1) \in Place /\ g + (n + 1) # h /\ cells'[g].size = cells[g].size
      <3>1. n + 1 \in 0 .. cells[g].size
        BY <2>2, Sized
      <3>2. g + (n + 1) \in Place /\ g + (n + 1) \notin h .. h + cells[h].size
        BY <1>1, <2>2, <3>1, Region
      <3>3. h \in h .. h + cells[h].size
        BY <1>1, Sized
      <3> QED
        BY <1>3, <2>2, <3>2, <3>3 DEF TypeOK
    <2>4. g + 1 + n = g + (n + 1)
      BY <2>2, Sized
    <2>5. cells'[g + 1 + n] = Head(FALSE, cells'[g].size - n - 1)
      BY <1>3, <2>2, <2>3, <2>4 DEF Rest
    <2>6. task'[u].cur = g /\ task'[u].n = n
      BY <2>1 DEF g, n
    <2> QED
      BY <2>2, <2>3, <2>5, <2>6
  <1> QED
    BY <1>7, <1>8, <1>9, <1>10, <1>11, <1>12, <1>13, <1>14, <1>15, <1>16

-------------------------------------------------------------------------------
(* What is done within one entry leaves the blocks of the others alone.    *)
LEMMA Elsewhere ==
  ASSUME IInv, NEW h \in heads, NEW C,
         \A i \in Place : i \notin h .. h + cells[h].size => C[i] = cells[i]
  PROVE  /\ \A g \in heads \ {h} : C[g] = cells[g]
         /\ \A u \in Tasks : \A g \in owned[u] \ {h} : \A i \in Kept(u, g) : C[g + i] = Data(u)
         /\ \A u \in Tasks : task[u].pc = "shrink" /\ task[u].cur # h =>
              C[task[u].cur + 1 + task[u].n] = Rest(task[u].cur, task[u].n)
  <1>1. \A g \in heads \ {h} : \A i \in 0 .. cells[g].size : C[g + i] = cells[g + i]
    BY Region
  <1>2. \A g \in heads : g \in Nat /\ cells[g].size \in Nat
    BY Sized
  <1>3. \A g \in heads \ {h} : C[g] = cells[g]
    <2> SUFFICES ASSUME NEW g \in heads \ {h} PROVE C[g] = cells[g]
      OBVIOUS
    <2>1. 0 \in 0 .. cells[g].size /\ g + 0 = g
      BY <1>2
    <2> QED
      BY <1>1, <2>1
  <1>4. ASSUME NEW u \in Tasks, task[u].pc = "shrink", task[u].cur # h
        PROVE  C[task[u].cur + 1 + task[u].n] = Rest(task[u].cur, task[u].n)
    <2> DEFINE g == task[u].cur
               n == task[u].n
    <2>1. /\ g \in owned[u] /\ g \in heads /\ n \in Nat /\ n + 1 < cells[g].size
          /\ cells[g + 1 + n] = Rest(g, n) /\ g # h
      BY <1>4 DEF IInv, Cutting, Given, TypeOK
    <2> HIDE DEF g, n
    <2>2. n + 1 \in 0 .. cells[g].size /\ g + (n + 1) = g + 1 + n
      BY <1>2, <2>1
    <2>3. C[g + 1 + n] = cells[g + 1 + n]
      BY <1>1, <2>1, <2>2
    <2> QED
      BY <2>1, <2>3 DEF g, n
  <1>5. ASSUME NEW u \in Tasks, NEW g \in owned[u] \ {h}, NEW i \in Kept(u, g)
        PROVE  C[g + i] = Data(u)
    <2>1. g \in heads \ {h} /\ cells[g + i] = Data(u)
      BY DEF IInv, Given, Filled
    <2>2. i \in 0 .. cells[g].size
      BY <1>2, <2>1 DEF Kept, IInv, Cutting, TypeOK
    <2> QED
      BY <1>1, <2>1, <2>2
  <1> QED
    BY <1>3, <1>4, <1>5

(* The size of an entry and where it ends. *)
LEMMA EntryEnd ==
  ASSUME IInv, NEW h \in heads
  PROVE  h + 1 + cells[h].size =< Words /\ h < Words
  BY PoolAssumption, Sized DEF IInv, Chained, TypeOK, Place

(* A free entry is joined to the one before it. *)
LEMMA JoinsInv ==
  ASSUME IInv, NEW t \in Tasks, task[t].pc \in {"merge", "join"}, Joins(t)
  PROVE  IInv'
  <1> USE DEF IInv
  <1> DEFINE h == task[t].cur
             x == task[t].nxt
             y == ent_get_next(x)
  <1>1. /\ x # NULL /\ ~cells[x].used
        /\ cells' = [cells EXCEPT ![h].size = @ + cells[x].size + 1]
        /\ heads' = heads \ {x}
        /\ task' = [task EXCEPT ![t].nxt = y]
        /\ joining' = joining /\ lock' = lock /\ count' = count /\ owned' = owned
    BY DEF Joins
  <1>2. /\ h \in heads /\ ~cells[h].used /\ x = h + 1 + cells[h].size /\ x \in heads
        /\ lock = t
    BY <1>1 DEF OnHeads, Joining, Locked, Walking
  <1>3. y \in Place \cup {NULL} /\ (y # NULL => y = x + 1 + cells[x].size /\ y \in heads)
    BY <1>2, NextHead, NextPlace
  <1>4. /\ task'[t] = ToAfter(task[t], y) /\ ToAfter(task[t], y) \in TaskRec
        /\ task'[t].pc = task[t].pc /\ task'[t].cur = h /\ task'[t].nxt = y
        /\ \A u \in Tasks \ {t} : task'[u] = task[u]
        /\ task' \in [Tasks -> TaskRec]
    <2>1. task \in [Tasks -> TaskRec] /\ task[t] \in TaskRec
      BY DEF TypeOK, TaskRec
    <2>2. task' = [task EXCEPT ![t] = ToAfter(task[t], y)]
      BY <1>1, <2>1 DEF ToAfter
    <2>3. /\ ToAfter(task[t], y) \in TaskRec /\ ToAfter(task[t], y).pc = task[t].pc
          /\ ToAfter(task[t], y).cur = h /\ ToAfter(task[t], y).nxt = y
      BY <1>3, <2>1, ToAfterIs
    <2> QED
      BY <2>1, <2>2, <2>3
  <1> HIDE DEF h, x, y
  <1>5. /\ h \in Nat /\ cells[h].size \in Nat /\ x \in Nat /\ cells[x].size \in Nat
        /\ h \in Place /\ Words \in Nat /\ h < x /\ x + 1 + cells[x].size =< Words
        /\ cells \in [Place -> Word] /\ heads \subseteq Place
    BY <1>2, Sized, EntryEnd, PoolAssumption DEF TypeOK
  <1>6. /\ cells' \in [Place -> Word]
        /\ \A i \in Place : i # h => cells'[i] = cells[i]
        /\ cells'[h].by = cells[h].by /\ cells'[h].used = cells[h].used
        /\ cells'[h].size = cells[h].size + cells[x].size + 1
        /\ h + cells'[h].size = x + cells[x].size
    <2>1. cells[h].size + cells[x].size + 1 \in 0 .. Words
      BY <1>2, <1>5
    <2> QED
      BY <1>1, <1>2, <1>5, <2>1 DEF Word
  <1>7. TypeOK'
    BY <1>1, <1>4, <1>5, <1>6 DEF TypeOK, TaskRec
  <1>8. Chained'
    <2>1. 0 \in heads'
      BY <1>1, <1>2, <1>5 DEF Chained
    <2>2. ASSUME NEW g \in heads'
          PROVE  cells'[g].by = 0 /\ g + 1 + cells'[g].size \in heads' \cup {Words}
      <3>1. g \in heads /\ g # x
        BY <1>1
      <3>2. CASE g = h
        <4>1. g + 1 + cells'[g].size = x + 1 + cells[x].size
          BY <1>5, <1>6, <3>2
        <4>2. x + 1 + cells[x].size \in heads \cup {Words}
          BY <1>2 DEF Chained
        <4>3. x + 1 + cells[x].size # x
          BY <1>5
        <4> QED
          BY <1>1, <1>2, <1>6, <3>2, <4>1, <4>2, <4>3 DEF Chained
      <3>3. CASE g # h
        <4>1. cells'[g] = cells[g]
          BY <1>5, <1>6, <3>1, <3>3
        <4>2. cells[g].by = 0 /\ g + 1 + cells[g].size \in heads \cup {Words}
          BY <3>1 DEF Chained
        <4>3. /\ h < g => h + cells[h].size < g
              /\ g < h => g + cells[g].size < h
              /\ g \in Nat /\ cells[g].size \in Nat
          BY <1>2, <3>1, Sized DEF Apart
        <4>4. g + 1 + cells[g].size # x
          BY <1>2, <1>5, <3>3, <4>3
        <4> QED
          <5> DEFINE e == g + 1 + cells[g].size
          <5>1. e \in heads \cup {Words} /\ e # x
            BY <4>2, <4>4
          <5>2. g + 1 + cells'[g].size = e
            BY <4>1
          <5> HIDE DEF e
          <5>3. e \in heads' \cup {Words}
            BY <1>1, <5>1
          <5> QED
            BY <4>1, <4>2, <5>2, <5>3
      <3> QED
        BY <3>2, <3>3
    <2> QED
      BY <2>1, <2>2 DEF Chained
  <1>9. Apart'
    <2> SUFFICES ASSUME NEW g \in heads', NEW k \in heads', g < k
                 PROVE  g + cells'[g].size < k
      BY DEF Apart
    <2>1. g \in heads /\ k \in heads /\ k # x /\ k \in Nat /\ g \in Nat
      BY <1>1, Sized
    <2>2. CASE g = h
      <3>1. h + cells[h].size < k
        BY <1>2, <2>1, <2>2 DEF Apart
      <3>2. x < k
        BY <1>2, <1>5, <2>1, <3>1
      <3>3. x + cells[x].size < k
        BY <1>2, <2>1, <3>2 DEF Apart
      <3> QED
        BY <1>6, <2>2, <3>3
    <2>3. CASE g # h
      BY <1>5, <1>6, <2>1, <2>3 DEF Apart
    <2> QED
      BY <2>2, <2>3
  <1>10. OnHeads' /\ Locked' /\ Holder'
    BY <1>1, <1>2, <1>4, <1>5 DEF OnHeads, Locked, Holder
  <1>11. \A u \in Tasks : \A g \in owned[u] : g \in heads \ {h, x} /\ cells'[g] = cells[g]
    BY <1>1, <1>2, <1>5, <1>6 DEF Given
  <1>12. Given'
    BY <1>1, <1>11 DEF Given
  <1>13. \A u \in Tasks : task[u].pc = "shrink" => task'[u] = task[u] /\ task[u].cur \in owned[u]
    BY <1>4 DEF Cutting
  <1>14. \A i \in Place : i \notin h .. h + cells[h].size => cells'[i] = cells[i]
    BY <1>5, <1>6
  <1>15. Filled'
    <2>1. \A u \in Tasks : \A g \in owned[u] : Kept(u, g)' = Kept(u, g)
      BY <1>4, <1>11 DEF Kept
    <2>2. \A u \in Tasks : \A g \in owned[u] : \A i \in Kept(u, g) : cells'[g + i] = Data(u)
      BY <1>2, <1>11, <1>14, Elsewhere
    <2> QED
      BY <1>1, <2>1, <2>2 DEF Filled
  <1>16. InUse'
    BY <1>1, <1>2, <1>5, <1>6 DEF InUse
  <1>17. Growing'
    <2>1. task'[t].pc \notin {"walk", "drop"}
      BY <1>4
    <2> QED
      BY <1>1, <1>4, <2>1 DEF Growing
  <1>18. Joining'
    <2>1. \A u \in Tasks \ {t} : task'[u].pc \notin {"merge", "join"}
      BY <1>2, <1>4 DEF Locked, Walking
    <2>2. y # NULL => y = h + 1 + cells'[h].size /\ y \in heads'
      BY <1>1, <1>3, <1>5, <1>6
    <2> QED
      BY <1>2, <1>4, <1>6, <2>1, <2>2 DEF Joining
  <1>19. Cutting'
    <2> SUFFICES ASSUME NEW u \in Tasks, task'[u].pc = "shrink"
                 PROVE  /\ task'[u].cur \in owned'[u]
                        /\ task'[u].n + 1 < cells'[task'[u].cur].size
                        /\ cells'[task'[u].cur + 1 + task'[u].n]
                             = Head(FALSE, cells'[task'[u].cur].size - task'[u].n - 1)
      BY DEF Cutting, Rest
    <2>1. u # t /\ task'[u] = task[u]
      BY <1>4
    <2>2. task[u].cur \in owned[u] /\ task[u].n + 1 < cells[task[u].cur].size
      BY <2>1 DEF Cutting
    <2>3. task[u].cur # h /\ cells'[task[u].cur] = cells[task[u].cur]
      BY <1>11, <2>2
    <2>4. cells'[task[u].cur + 1 + task[u].n] = Rest(task[u].cur, task[u].n)
      BY <1>2, <1>14, <2>1, <2>3, Elsewhere
    <2> QED
      BY <1>1, <2>1, <2>2, <2>3, <2>4 DEF Rest
  <1> QED
    BY <1>7, <1>8, <1>9, <1>10, <1>12, <1>15, <1>16, <1>17, <1>18, <1>19

-------------------------------------------------------------------------------
(* An entry is marked as being in use. *)
Taken(d, h) == [d EXCEPT ![h].used = TRUE]

LEMMA TakenIs ==
  ASSUME NEW d \in [Place -> Word], NEW h \in Place, NEW c, c = Taken(d, h)
  PROVE  /\ c \in [Place -> Word] /\ c[h].by = d[h].by /\ c[h].size = d[h].size /\ c[h].used
         /\ \A i \in Place : i # h => c[i] = d[i]
  <1>1. d[h] \in Word /\ [d[h] EXCEPT !.used = TRUE] \in Word
    BY DEF Word
  <1>2. c = [d EXCEPT ![h] = [d[h] EXCEPT !.used = TRUE]]
    BY DEF Taken
  <1>3. c[h] = [d[h] EXCEPT !.used = TRUE] /\ c \in [Place -> Word]
    BY <1>1, <1>2
  <1> QED
    BY <1>1, <1>2, <1>3 DEF Word

(* An entry is given out, cut down to the size asked for. *)
LEMMA AllocInv ==
  ASSUME IInv, NEW t \in Tasks, ent_alloc(t)
  PROVE  IInv'
  <1> USE DEF IInv
  <1> DEFINE h == task[t].cur
             n == task[t].n
             size == IF Splits(h, n) THEN n ELSE cells[h].size
             c == [ent_trunc(h, n) EXCEPT ![h].used = TRUE]
  <1>1. /\ task[t].pc = "walk" /\ ~cells[h].used /\ cells[h].size >= n
        /\ cells' = [i \in Place |-> IF i \in h + 1 .. h + c[h].size THEN Data(t) ELSE c[i]]
        /\ heads' = HeadsAfter(h, n)
        /\ owned' = [owned EXCEPT ![t] = @ \cup {h}]
        /\ lock' = 0 /\ joining' = joining /\ count' = count
        /\ Goes(t, IF task[t].old = NULL THEN Idle
                   ELSE [Idle EXCEPT !.pc = "drop", !.old = task[t].old])
    BY DEF ent_alloc, Serves
  <1>2. /\ h \in heads /\ lock = t /\ n \in Nat /\ task[t] \in TaskRec
        /\ task \in [Tasks -> TaskRec] /\ t # 0 /\ \A u \in Tasks : u # 0
        /\ owned \in [Tasks -> SUBSET Place]
        /\ task[t].old = NULL \/ task[t].old \in owned[t]
        /\ task[t].old \in Place \cup {NULL}
    BY <1>1, PoolAssumption DEF OnHeads, Locked, Walking, TypeOK, TaskRec, Growing
  <1>3. /\ h \in Nat /\ cells[h].size \in Nat /\ h \in Place /\ Words \in Nat
        /\ h + 1 + cells[h].size =< Words
        /\ cells \in [Place -> Word] /\ heads \subseteq Place /\ cells[h].by = 0
    BY <1>2, Sized, EntryEnd, PoolAssumption DEF TypeOK, Chained
  <1>4. /\ task'[t].pc \in {"idle", "drop"}
        /\ task'[t].pc = "drop" => task'[t].old \in owned[t]
        /\ task' \in [Tasks -> TaskRec]
        /\ \A u \in Tasks \ {t} : task'[u] = task[u]
    <2>1. CASE task[t].old = NULL
      BY <1>1, <1>2, <2>1, IdleRec DEF Goes
    <2>2. CASE task[t].old # NULL
      <3>1. task' = [task EXCEPT ![t] = ToDrop(Idle, task[t].old)]
        BY <1>1, <2>2 DEF Goes, ToDrop
      <3>2. /\ ToDrop(Idle, task[t].old) \in TaskRec /\ ToDrop(Idle, task[t].old).pc = "drop"
            /\ ToDrop(Idle, task[t].old).old = task[t].old
        BY <1>2, IdleRec, ToDropIs
      <3> QED
        BY <1>2, <2>2, <3>1, <3>2
    <2> QED
      BY <2>1, <2>2
  <1>5. Splits(h, n) => n + 1 < cells[h].size
    BY <1>1, <1>2, <1>3 DEF Splits
  <1>6. size \in Nat /\ size =< cells[h].size
    BY <1>1, <1>2, <1>3
  <1>7. /\ c[h].by = 0 /\ c[h].used /\ c[h].size = size /\ c[h] \in Word
        /\ \A i \in Place : i # h /\ ~(Splits(h, n) /\ i = h + 1 + n) => c[i] = cells[i]
        /\ Splits(h, n) => c[h + 1 + n] = Rest(h, n)
        /\ \A i \in Place : c[i] \in Word
    <2>1. CASE Splits(h, n)
      <3>1. h + 1 + n \in Place /\ h + 1 + n # h
        BY <1>2, <1>3, <1>5, <2>1 DEF Place
      <3>2. Rest(h, n) \in Word
        <4>1. cells[h].size - n - 1 \in 0 .. Words
          BY <1>2, <1>3, <1>5, <2>1
        <4> QED
          BY <4>1 DEF Rest, Head, Word
      <3> DEFINE b == [cells EXCEPT ![h + 1 + n] = Rest(h, n)]
                 d == [b EXCEPT ![h].size = n]
      <3>3. b \in [Place -> Word] /\ b[h] = cells[h] /\ b[h + 1 + n] = Rest(h, n)
            /\ \A i \in Place : i # h + 1 + n => b[i] = cells[i]
        BY <1>3, <3>1, <3>2
      <3>4. ent_trunc(h, n) = d
        BY <2>1, Zenon DEF ent_trunc
      <3> HIDE DEF b
      <3>5. n \in 0 .. Words
        BY <1>2, <1>3, <1>5, <2>1
      <3>6. /\ d \in [Place -> Word] /\ d[h].by = 0 /\ d[h].size = n
            /\ \A i \in Place : i # h => d[i] = b[i]
        BY <1>3, <3>3, <3>5 DEF Word
      <3>7. c = [d EXCEPT ![h].used = TRUE]
        BY <3>4
      <3> HIDE DEF c, d
      <3>8. /\ c \in [Place -> Word] /\ c[h].by = 0 /\ c[h].size = n /\ c[h].used
            /\ \A i \in Place : i # h => c[i] = d[i]
        <4>1. h \in Place /\ d \in [Place -> Word] /\ d[h].by = 0 /\ d[h].size = n
          BY <1>3, <3>6
        <4>2. c = Taken(d, h)
          BY <3>7, Zenon DEF Taken
        <4> QED
          BY <4>1, <4>2, TakenIs
      <3> QED
        BY <1>3, <2>1, <3>1, <3>3, <3>6, <3>8
    <2>2. CASE ~Splits(h, n)
      <3>1. c = [cells EXCEPT ![h].used = TRUE]
        BY <2>2 DEF ent_trunc
      <3> HIDE DEF c
      <3> QED
        BY <1>3, <2>2, <3>1 DEF Word
    <2> QED
      BY <2>1, <2>2
  <1> HIDE DEF h, n, c, size
  <1>8. /\ cells' \in [Place -> Word]
        /\ cells'[h].by = 0 /\ cells'[h].used /\ cells'[h].size = size
        /\ \A i \in 1 .. size : cells'[h + i] = Data(t)
        /\ \A i \in Place : i \notin h .. h + cells[h].size => cells'[i] = cells[i]
        /\ Splits(h, n) => cells'[h + 1 + n] = Rest(h, n)
    <2>1. cells' = [i \in Place |-> IF i \in h + 1 .. h + size THEN Data(t) ELSE c[i]]
      <3>1. cells' = [i \in Place |-> IF i \in h + 1 .. h + c[h].size THEN Data(t) ELSE c[i]]
        BY <1>1, Zenon DEF h, c, n
      <3>2. c[h].size = size
        BY <1>7
      <3> QED
        BY <3>1, <3>2, Zenon
    <2>2. Data(t) \in Word
      BY <1>3 DEF Data, Word
    <2>3. cells' \in [Place -> Word]
      BY <1>7, <2>1, <2>2
    <2>4. h \notin h + 1 .. h + size
      BY <1>3, <1>6
    <2>5. cells'[h] = c[h]
      BY <1>3, <2>1, <2>4
    <2>6. \A i \in 1 .. size : h + i \in Place /\ h + i \in h + 1 .. h + size
      BY <1>3, <1>6 DEF Place
    <2>7. \A i \in 1 .. size : cells'[h + i] = Data(t)
      BY <2>1, <2>6
    <2>8. ASSUME NEW i \in Place, i \notin h .. h + cells[h].size
          PROVE  cells'[i] = cells[i]
      <3>1. i \in Nat /\ i # h /\ i \notin h + 1 .. h + size
        BY <1>3, <1>6, <2>8 DEF Place
      <3>2. Splits(h, n) => i # h + 1 + n
        BY <1>2, <1>3, <1>5, <2>8, <3>1 DEF n
      <3> QED
        BY <1>7, <2>1, <3>1, <3>2
    <2>9. ASSUME Splits(h, n) PROVE cells'[h + 1 + n] = Rest(h, n)
      <3>1. h + 1 + n \in Place /\ h + 1 + n \notin h + 1 .. h + size
        BY <1>2, <1>3, <1>5, <2>9 DEF Place, size, n
      <3> QED
        BY <1>7, <2>1, <2>9, <3>1
    <2> QED
      BY <1>7, <2>3, <2>5, <2>7, <2>8, <2>9
  <1>9. /\ heads' = IF Splits(h, n) THEN heads \cup {h + 1 + n} ELSE heads
        /\ heads \subseteq heads' /\ (Splits(h, n) => h + 1 + n \in heads')
    BY <1>1 DEF HeadsAfter, h, n
  <1>10. /\ Splits(h, n) => /\ size = n /\ n \in Nat /\ n + 1 < cells[h].size
                            /\ h + 1 + n \in Place
                            /\ cells'[h + 1 + n].by = 0 /\ ~cells'[h + 1 + n].used
                            /\ cells'[h + 1 + n].size = cells[h].size - n - 1
         /\ ~Splits(h, n) => size = cells[h].size
    <2>1. Splits(h, n) => /\ size = n /\ n \in Nat /\ n + 1 < cells[h].size
                          /\ h + 1 + n \in Place
      BY <1>2, <1>3, <1>5 DEF size, n, Place
    <2>2. Rest(h, n).by = 0 /\ ~Rest(h, n).used /\ Rest(h, n).size = cells[h].size - n - 1
      BY DEF Rest, Head
    <2> QED
      BY <1>8, <2>1, <2>2 DEF size
  <1>11. h \in heads /\ task[t].pc = "walk" /\ ~cells[h].used
    BY <1>1, <1>2 DEF h
  <1>12. /\ \A g \in heads \ {h} : cells'[g] = cells[g]
         /\ \A u \in Tasks : \A g \in owned[u] \ {h} : \A i \in Kept(u, g) : cells'[g + i] = Data(u)
         /\ \A u \in Tasks : task[u].pc = "shrink" /\ task[u].cur # h =>
               cells'[task[u].cur + 1 + task[u].n] = Rest(task[u].cur, task[u].n)
    BY <1>8, <1>11, Elsewhere
  <1>13. /\ owned' \in [Tasks -> SUBSET Place]
         /\ owned'[t] = owned[t] \cup {h}
         /\ \A u \in Tasks \ {t} : owned'[u] = owned[u]
         /\ \A u \in Tasks : h \notin owned[u]
    BY <1>1, <1>2, <1>3, <1>11 DEF h, Given
  <1>14. TypeOK'
    <2>1. heads' \subseteq Place
      BY <1>3, <1>9, <1>10
    <2> QED
      BY <1>1, <1>4, <1>8, <1>13, <2>1 DEF TypeOK, TaskRec
  <1>15. Chained'
    <2>1. 0 \in heads'
      BY <1>9 DEF Chained
    <2>2. ASSUME NEW g \in heads'
          PROVE  cells'[g].by = 0 /\ g + 1 + cells'[g].size \in heads' \cup {Words}
      <3>1. CASE g \in heads \ {h}
        BY <1>9, <1>12, <3>1 DEF Chained
      <3>2. CASE g = h /\ Splits(h, n)
        <4>1. g + 1 + cells'[g].size = h + 1 + n
          BY <1>8, <1>10, <3>2
        <4> QED
          BY <1>8, <1>9, <3>2, <4>1
      <3>3. CASE g = h /\ ~Splits(h, n)
        BY <1>8, <1>9, <1>10, <1>11, <3>3 DEF Chained
      <3>4. CASE g = h + 1 + n /\ Splits(h, n)
        <4>1. g + 1 + cells'[g].size = h + 1 + cells[h].size
          BY <1>3, <1>10, <3>4
        <4> QED
          BY <1>9, <1>10, <1>11, <3>4, <4>1 DEF Chained
      <3> QED
        BY <1>9, <3>1, <3>2, <3>3, <3>4
    <2> QED
      BY <2>1, <2>2 DEF Chained
  <1>16. \A g \in heads \ {h} : /\ g \in Nat /\ cells[g].size \in Nat
                                /\ g < h => g + cells[g].size < h
                                /\ h < g => h + cells[h].size < g
    BY <1>11, Sized DEF Apart
  <1>17. Apart'
    <2> SUFFICES ASSUME NEW g \in heads', NEW k \in heads', g < k
                 PROVE  g + cells'[g].size < k
      BY DEF Apart
    <2>1. CASE g \in heads \ {h} /\ k \in heads
      BY <1>12, <2>1 DEF Apart
    <2>2. CASE g = h /\ k \in heads \ {h}
      BY <1>3, <1>6, <1>8, <1>16, <2>2
    <2>3. CASE Splits(h, n) /\ g = h /\ k = h + 1 + n
      BY <1>3, <1>8, <1>10, <2>3
    <2>4. CASE Splits(h, n) /\ g \in heads \ {h} /\ k = h + 1 + n
      BY <1>3, <1>10, <1>12, <1>16, <2>4
    <2>5. CASE Splits(h, n) /\ g = h + 1 + n /\ k \in heads
      <3>1. k # h
        BY <1>3, <1>10, <2>5
      <3>2. h < k
        BY <1>3, <1>10, <1>16, <2>5, <3>1
      <3> QED
        BY <1>3, <1>10, <1>16, <2>5, <3>1, <3>2
    <2>6. ~(k = h /\ g = h) /\ ~(g = h + 1 + n /\ k = h + 1 + n /\ Splits(h, n))
      BY <1>3, <1>10
    <2> QED
      BY <1>9, <2>1, <2>2, <2>3, <2>4, <2>5, <2>6
  <1>18. \A u \in Tasks : task'[u].pc \notin Walking /\ (task'[u].pc = "shrink" => u # t)
    BY <1>2, <1>4 DEF Locked, Walking
  <1>19. OnHeads' /\ Locked' /\ Holder' /\ Joining'
    BY <1>1, <1>2, <1>18 DEF OnHeads, Locked, Holder, Joining, Walking
  <1>20. Given'
    <2>1. ASSUME NEW u \in Tasks, NEW g \in owned'[u]
          PROVE  g \in heads' /\ cells'[g].used /\ \A v \in Tasks \ {u} : g \notin owned'[v]
      <3>1. CASE g = h
        <4>1. u = t
          BY <1>13, <3>1
        <4> QED
          BY <1>8, <1>9, <1>11, <1>13, <3>1, <4>1
      <3>2. CASE g # h
        <4>1. g \in owned[u]
          BY <1>13, <3>2
        <4>2. /\ g \in heads /\ cells[g].used /\ \A v \in Tasks \ {u} : g \notin owned[v]
          BY <4>1 DEF Given
        <4> QED
          BY <1>9, <1>12, <1>13, <3>2, <4>2
      <3> QED
        BY <3>1, <3>2
    <2> QED
      BY <2>1 DEF Given
  <1>21. Filled'
    <2>1. ASSUME NEW u \in Tasks, NEW g \in owned'[u], NEW i \in Kept(u, g)'
          PROVE  cells'[g + i] = Data(u)
      <3>1. CASE g = h
        <4>1. u = t
          BY <1>13, <3>1
        <4>2. Kept(u, g)' = 1 .. cells'[h].size
          BY <1>4, <3>1, <4>1 DEF Kept
        <4> QED
          BY <1>8, <2>1, <3>1, <4>1, <4>2
      <3>2. CASE g # h
        <4>1. g \in owned[u] /\ g \in heads
          BY <1>13, <3>2 DEF Given
        <4>2. task[u].pc = "shrink" => task'[u] = task[u]
          BY <1>4, <1>11
        <4>3. task'[u].pc = "shrink" => task'[u] = task[u]
          BY <1>4, <1>18
        <4>4. Kept(u, g)' = Kept(u, g)
          BY <1>12, <3>2, <4>1, <4>2, <4>3 DEF Kept
        <4> QED
          BY <1>12, <2>1, <3>2, <4>1, <4>4
      <3> QED
        BY <3>1, <3>2
    <2> QED
      BY <2>1 DEF Filled
  <1>22. InUse'
    <2> SUFFICES ASSUME NEW g \in heads', cells'[g].used PROVE \E u \in Tasks : g \in owned'[u]
      BY DEF InUse
    <2>1. CASE g = h
      BY <1>13, <2>1
    <2>2. CASE g # h
      <3>1. g \in heads /\ cells[g].used
        BY <1>9, <1>10, <1>12, <2>2
      <3>2. PICK u \in Tasks : g \in owned[u]
        BY <3>1 DEF InUse
      <3> QED
        BY <1>13, <3>2
    <2> QED
      BY <2>1, <2>2
  <1>23. Growing'
    <2>1. \A u \in Tasks : task'[u].pc = "drop" => task'[u].old \in owned'[u]
      BY <1>4, <1>13 DEF Growing
    <2> QED
      BY <1>18, <2>1 DEF Growing, Walking
  <1>24. Cutting'
    <2> SUFFICES ASSUME NEW u \in Tasks, task'[u].pc = "shrink"
                 PROVE  /\ task'[u].cur \in owned'[u]
                        /\ task'[u].n + 1 < cells'[task'[u].cur].size
                        /\ cells'[task'[u].cur + 1 + task'[u].n]
                             = Head(FALSE, cells'[task'[u].cur].size - task'[u].n - 1)
      BY DEF Cutting, Rest
    <2>1. u # t /\ task'[u] = task[u]
      BY <1>4, <1>18
    <2>2. task[u].cur \in owned[u] /\ task[u].n + 1 < cells[task[u].cur].size
      BY <2>1 DEF Cutting
    <2>3. task[u].cur # h /\ task[u].cur \in heads
      BY <1>13, <2>2 DEF Given
    <2>4. cells'[task[u].cur] = cells[task[u].cur] /\ owned'[u] = owned[u]
      BY <1>12, <1>13, <2>1, <2>3
    <2>5. cells'[task[u].cur + 1 + task[u].n] = Rest(task[u].cur, task[u].n)
      BY <1>12, <2>1, <2>3
    <2> QED
      BY <2>1, <2>2, <2>4, <2>5 DEF Rest
  <1> QED
    BY <1>14, <1>15, <1>17, <1>19, <1>20, <1>21, <1>22, <1>23, <1>24
-------------------------------------------------------------------------------
(* The first store of a block that is cut: a header, inside its data.      *)
Cuts(t, h, n) ==
  /\ task[t].pc = "idle" /\ n < cells[h].size /\ Splits(h, n)
  /\ cells' = [cells EXCEPT ![h + 1 + n] = Rest(h, n)]
  /\ Goes(t, ToShrink(Idle, h, n))
  /\ UNCHANGED <<joining, lock, count, owned, heads>>

LEMMA CutInv ==
  ASSUME IInv, NEW t \in Tasks, NEW h \in owned[t], NEW n \in Sizes, Cuts(t, h, n)
  PROVE  IInv'
  <1> USE DEF IInv
  <1>1. /\ h \in heads /\ h \in Place /\ h \in Nat /\ n \in Nat /\ cells[h].size \in Nat
        /\ heads \subseteq Place /\ cells \in [Place -> Word] /\ Words \in Nat
        /\ task \in [Tasks -> TaskRec] /\ lock # t /\ owned \in [Tasks -> SUBSET Place]
        /\ \A u \in Tasks \ {t} : h \notin owned[u]
        /\ h + 1 + cells[h].size =< Words
        /\ joining' = joining /\ lock' = lock /\ count' = count /\ owned' = owned /\ heads' = heads
        /\ n < cells[h].size /\ Splits(h, n) /\ task[t].pc = "idle"
    BY Sized, EntryEnd, PoolAssumption DEF Given, TypeOK, TaskRec, Holder, Walking, Cuts
  <1>2. n + 1 < cells[h].size /\ h + 1 + n \in Place /\ h + 1 + n # h
    BY <1>1 DEF Splits, Place
  <1>3. Rest(h, n) \in Word
    <2>1. cells[h].size - n - 1 \in 0 .. Words
      BY <1>1, <1>2
    <2> QED
      BY <2>1 DEF Rest, Head, Word
  <1>4. /\ cells' \in [Place -> Word] /\ cells'[h + 1 + n] = Rest(h, n) /\ cells'[h] = cells[h]
        /\ \A i \in Place : i # h + 1 + n => cells'[i] = cells[i]
    BY <1>1, <1>2, <1>3 DEF Cuts
  <1>5. \A i \in Place : i \notin h .. h + cells[h].size => cells'[i] = cells[i]
    BY <1>1, <1>2, <1>4
  <1>6. /\ \A g \in heads : cells'[g] = cells[g]
        /\ \A u \in Tasks : \A g \in owned[u] \ {h} : \A i \in Kept(u, g) : cells'[g + i] = Data(u)
        /\ \A u \in Tasks : task[u].pc = "shrink" /\ task[u].cur # h =>
              cells'[task[u].cur + 1 + task[u].n] = Rest(task[u].cur, task[u].n)
    <2>1. h \in heads
      BY <1>1
    <2>2. /\ \A g \in heads \ {h} : cells'[g] = cells[g]
          /\ \A u \in Tasks : \A g \in owned[u] \ {h} : \A i \in Kept(u, g) : cells'[g + i] = Data(u)
          /\ \A u \in Tasks : task[u].pc = "shrink" /\ task[u].cur # h =>
                cells'[task[u].cur + 1 + task[u].n] = Rest(task[u].cur, task[u].n)
      BY <1>5, <2>1, Elsewhere
    <2> QED
      BY <1>4, <2>2
  <1>7. PICK r \in TaskRec : /\ task' = [task EXCEPT ![t] = r]
                             /\ r.pc = "shrink" /\ r.cur = h /\ r.n = n
    <2>1. task' = [task EXCEPT ![t] = ToShrink(Idle, h, n)]
      BY DEF Goes, Cuts
    <2>2. /\ ToShrink(Idle, h, n) \in TaskRec /\ ToShrink(Idle, h, n).pc = "shrink"
          /\ ToShrink(Idle, h, n).cur = h /\ ToShrink(Idle, h, n).n = n
      <3>1. h \in Place /\ n \in Nat /\ Idle \in TaskRec
        BY <1>1, IdleRec
      <3> QED
        BY <3>1, ToShrinkIs
    <2> QED
      BY <2>1, <2>2
  <1>8. /\ task'[t] = r /\ \A u \in Tasks \ {t} : task'[u] = task[u]
        /\ task' \in [Tasks -> TaskRec]
    BY <1>1, <1>7
  <1>9. TypeOK'
    BY <1>1, <1>4, <1>8 DEF TypeOK, TaskRec
  <1>10. Chained' /\ Apart' /\ InUse'
    BY <1>1, <1>6 DEF Chained, Apart, InUse
  <1>11. Given'
    BY <1>1, <1>6 DEF Given
  <1>12. OnHeads' /\ Locked' /\ Holder'
    BY <1>1, <1>7, <1>8 DEF OnHeads, Locked, Holder, Walking
  <1>13. Growing'
    BY <1>1, <1>7, <1>8 DEF Growing
  <1>14. Joining'
    <2>1. \A u \in Tasks : task'[u].pc \in {"merge", "join"} =>
            task'[u] = task[u] /\ task[u].cur \in heads
      BY <1>7, <1>8 DEF OnHeads, Walking
    <2>2. heads' = heads
      BY <1>1
    <2>3. \A g \in heads : cells'[g] = cells[g]
      BY <1>6
    <2> QED
      BY <2>1, <2>2, <2>3 DEF Joining
  <1>15. Filled'
    <2>1. ASSUME NEW u \in Tasks, NEW g \in owned[u], NEW i \in Kept(u, g)'
          PROVE  cells'[g + i] = Data(u)
      <3>1. CASE g = h
        <4>1. u = t
          BY <1>1, <3>1
        <4>2. i \in 1 .. n
          BY <1>7, <1>8, <2>1, <3>1, <4>1 DEF Kept
        <4>3. i \in Kept(t, h) /\ h + i \in Place /\ h + i # h + 1 + n
          BY <1>1, <1>2, <4>2 DEF Kept, Place
        <4>4. cells[h + i] = Data(t)
          BY <4>3 DEF Filled
        <4> QED
          BY <1>4, <3>1, <4>1, <4>3, <4>4
      <3>2. CASE g # h
        <4>1. g \in heads
          BY DEF Given
        <4>2. Kept(u, g)' = Kept(u, g)
          <5>1. cells'[g] = cells[g] /\ task[t].pc # "shrink"
            BY <1>1, <1>6, <4>1
          <5> QED
            BY <1>7, <1>8, <3>2, <5>1 DEF Kept
        <4> QED
          BY <1>6, <2>1, <3>2, <4>2
      <3> QED
        BY <3>1, <3>2
    <2> QED
      BY <1>1, <2>1 DEF Filled
  <1>16. Cutting'
    <2> SUFFICES ASSUME NEW u \in Tasks, task'[u].pc = "shrink"
                 PROVE  /\ task'[u].cur \in owned'[u]
                        /\ task'[u].n + 1 < cells'[task'[u].cur].size
                        /\ cells'[task'[u].cur + 1 + task'[u].n]
                             = Head(FALSE, cells'[task'[u].cur].size - task'[u].n - 1)
      BY DEF Cutting, Rest
    <2>1. CASE u = t
      BY <1>1, <1>2, <1>4, <1>7, <1>8, <2>1 DEF Rest
    <2>2. CASE u # t
      <3>1. task'[u] = task[u]
        BY <1>8, <2>2
      <3>2. task[u].cur \in owned[u] /\ task[u].n + 1 < cells[task[u].cur].size
        BY <3>1 DEF Cutting
      <3>3. task[u].cur # h /\ cells'[task[u].cur] = cells[task[u].cur]
        BY <1>1, <1>6, <2>2, <3>2 DEF Given
      <3>4. cells'[task[u].cur + 1 + task[u].n] = Rest(task[u].cur, task[u].n)
        BY <1>6, <3>1, <3>3
      <3> QED
        BY <1>1, <3>1, <3>2, <3>3, <3>4 DEF Rest
    <2> QED
      BY <2>1, <2>2
  <1> QED
    BY <1>9, <1>10, <1>11, <1>12, <1>13, <1>14, <1>15, <1>16

(* The second store: the block ends before that header, now an entry's. *)
LEMMA ShrinkInv ==
  ASSUME IInv, NEW t \in Tasks, Shrink(t)
  PROVE  IInv'
  <1> USE DEF IInv
  <1> DEFINE h == task[t].cur
             n == task[t].n
             k == h + 1 + n
  <1>1. /\ task[t].pc = "shrink" /\ h \in owned[t] /\ h \in heads /\ n + 1 < cells[h].size
        /\ cells[k] = Rest(h, n) /\ n \in Nat /\ cells[h].used
        /\ cells' = [cells EXCEPT ![h].size = n]
        /\ heads' = heads \cup {k}
        /\ task' = [task EXCEPT ![t] = Idle]
        /\ joining' = joining /\ lock' = lock /\ count' = count /\ owned' = owned
        /\ \A u \in Tasks \ {t} : h \notin owned[u]
    BY DEF Shrink, Goes, Cutting, Given, TypeOK, TaskRec
  <1>2. /\ task \in [Tasks -> TaskRec] /\ task' \in [Tasks -> TaskRec]
        /\ task'[t].pc = "idle" /\ \A u \in Tasks \ {t} : task'[u] = task[u]
        /\ \A u \in Tasks \ {t} : task[u].pc = "shrink" => task[u].cur # h
    <2>1. task \in [Tasks -> TaskRec]
      BY DEF TypeOK, TaskRec
    <2> QED
      BY <1>1, <2>1, IdleRec DEF Cutting
  <1>3. \A u \in Tasks : task[u].pc = "shrink" /\ task[u].cur = h => u = t /\ task[u].n = n
    BY <1>2
  <1> HIDE DEF h, n, k
  <1>4. /\ h \in Nat /\ cells[h].size \in Nat /\ h \in Place /\ Words \in Nat
        /\ h + 1 + cells[h].size =< Words
        /\ cells \in [Place -> Word] /\ heads \subseteq Place /\ cells[h].by = 0
    BY <1>1, Sized, EntryEnd, PoolAssumption DEF TypeOK, Chained
  <1>5. k = h + 1 + n /\ k \in Place /\ k # h
    BY <1>1, <1>4 DEF k, Place
  <1>6. /\ cells' \in [Place -> Word]
        /\ cells'[h].by = 0 /\ cells'[h].used = cells[h].used /\ cells'[h].size = n
        /\ \A i \in Place : i # h => cells'[i] = cells[i]
    <2>1. n \in 0 .. Words
      BY <1>1, <1>4
    <2> QED
      BY <1>1, <1>4, <2>1 DEF Word
  <1>7. cells'[k].by = 0 /\ ~cells'[k].used /\ cells'[k].size = cells[h].size - n - 1
    BY <1>1, <1>5, <1>6 DEF Rest, Head
  <1>8. \A i \in Place : i \notin h .. h + cells[h].size => cells'[i] = cells[i]
    BY <1>4, <1>6
  <1>9. /\ \A g \in heads \ {h} : cells'[g] = cells[g]
        /\ \A u \in Tasks : \A g \in owned[u] \ {h} : \A i \in Kept(u, g) : cells'[g + i] = Data(u)
        /\ \A u \in Tasks : task[u].pc = "shrink" /\ task[u].cur # h =>
              cells'[task[u].cur + 1 + task[u].n] = Rest(task[u].cur, task[u].n)
    <2>1. h \in heads
      BY <1>1
    <2> QED
      BY <1>8, <2>1, Elsewhere
  <1>10. TypeOK'
    BY <1>1, <1>2, <1>4, <1>5, <1>6 DEF TypeOK, TaskRec
  <1>11. Chained'
    <2>1. 0 \in heads'
      BY <1>1 DEF Chained
    <2>2. ASSUME NEW g \in heads'
          PROVE  cells'[g].by = 0 /\ g + 1 + cells'[g].size \in heads' \cup {Words}
      <3>1. CASE g \in heads \ {h}
        BY <1>1, <1>9, <3>1 DEF Chained
      <3>2. CASE g = h
        <4>1. g + 1 + cells'[g].size = k
          BY <1>5, <1>6, <3>2
        <4> QED
          BY <1>1, <1>6, <3>2, <4>1
      <3>3. CASE g = k
        <4>1. g + 1 + cells'[g].size = h + 1 + cells[h].size
          BY <1>1, <1>4, <1>5, <1>7, <3>3
        <4> QED
          BY <1>1, <1>7, <3>3, <4>1 DEF Chained
      <3> QED
        BY <1>1, <3>1, <3>2, <3>3
    <2> QED
      BY <2>1, <2>2 DEF Chained
  <1>12. \A g \in heads \ {h} : /\ g \in Nat /\ cells[g].size \in Nat
                                /\ g < h => g + cells[g].size < h
                                /\ h < g => h + cells[h].size < g
    BY <1>1, Sized DEF Apart
  <1>13. Apart'
    <2> SUFFICES ASSUME NEW g \in heads', NEW j \in heads', g < j
                 PROVE  g + cells'[g].size < j
      BY DEF Apart
    <2>1. CASE g \in heads \ {h} /\ j \in heads
      BY <1>9, <2>1 DEF Apart
    <2>2. CASE g = h /\ j \in heads \ {h}
      BY <1>1, <1>4, <1>6, <1>12, <2>2
    <2>3. CASE g = h /\ j = k
      BY <1>1, <1>4, <1>5, <1>6, <2>3
    <2>4. CASE g \in heads \ {h} /\ j = k
      BY <1>1, <1>4, <1>5, <1>9, <1>12, <2>4
    <2>5. CASE g = k /\ j \in heads
      <3>1. j # h
        BY <1>1, <1>4, <1>5, <2>5
      <3>2. h < j
        BY <1>1, <1>4, <1>5, <1>12, <2>5, <3>1
      <3>3. h + cells[h].size < j
        BY <1>12, <2>5, <3>1, <3>2
      <3>4. k + cells'[k].size = h + cells[h].size
        BY <1>1, <1>4, <1>5, <1>7
      <3> QED
        BY <2>5, <3>3, <3>4
    <2>6. g # j
      BY <1>1, <1>4, <1>5, <1>12
    <2> QED
      BY <1>1, <2>1, <2>2, <2>3, <2>4, <2>5, <2>6
  <1>14. OnHeads' /\ Locked' /\ Holder'
    BY <1>1, <1>2 DEF OnHeads, Locked, Holder, Walking
  <1>15. Given'
    BY <1>1, <1>6, <1>9 DEF Given
  <1>16. InUse'
    BY <1>1, <1>7, <1>6, <1>9 DEF InUse
  <1>17. Growing'
    BY <1>1, <1>2 DEF Growing
  <1>18. Joining'
    <2>1. \A u \in Tasks : task'[u].pc \in {"merge", "join"} =>
            task'[u] = task[u] /\ task[u].cur \in heads \ {h}
      BY <1>1, <1>2 DEF OnHeads, Walking, Joining
    <2> QED
      BY <1>1, <1>9, <2>1 DEF Joining
  <1>19. Filled'
    <2>1. ASSUME NEW u \in Tasks, NEW g \in owned[u], NEW i \in Kept(u, g)'
          PROVE  cells'[g + i] = Data(u)
      <3>1. CASE g = h
        <4>1. u = t
          BY <1>1, <3>1
        <4>2. i \in 1 .. n
          BY <1>2, <1>6, <2>1, <3>1, <4>1 DEF Kept
        <4>3. i \in Kept(t, h) /\ h + i \in Place /\ h + i # h
          <5>1. n \in Nat /\ n + 1 < cells[h].size /\ task[t].pc = "shrink"
            BY <1>1
          <5>2. i \in Kept(t, h)
            BY <4>2, <5>1 DEF Kept, h, n
          <5> QED
            BY <1>4, <4>2, <5>1, <5>2 DEF Place
        <4>4. cells[h + i] = Data(t)
          BY <1>1, <4>3 DEF Filled
        <4> QED
          BY <1>6, <3>1, <4>1, <4>3, <4>4
      <3>2. CASE g # h
        <4>1. g \in heads
          BY DEF Given
        <4>2. Kept(u, g)' = Kept(u, g)
          BY <1>2, <1>3, <1>9, <3>2, <4>1 DEF Kept, h
        <4> QED
          BY <1>9, <2>1, <3>2, <4>2
      <3> QED
        BY <3>1, <3>2
    <2> QED
      BY <1>1, <2>1 DEF Filled
  <1>20. Cutting'
    <2> SUFFICES ASSUME NEW u \in Tasks, task'[u].pc = "shrink"
                 PROVE  /\ task'[u].cur \in owned'[u]
                        /\ task'[u].n + 1 < cells'[task'[u].cur].size
                        /\ cells'[task'[u].cur + 1 + task'[u].n]
                             = Head(FALSE, cells'[task'[u].cur].size - task'[u].n - 1)
      BY DEF Cutting, Rest
    <2>1. u # t /\ task'[u] = task[u]
      BY <1>2
    <2>2. task[u].cur \in owned[u] /\ task[u].n + 1 < cells[task[u].cur].size
      BY <2>1 DEF Cutting
    <2>3. task[u].cur # h /\ task[u].cur \in heads
      BY <1>2, <2>1, <2>2 DEF Given
    <2>4. cells'[task[u].cur] = cells[task[u].cur]
      BY <1>9, <2>3
    <2>5. cells'[task[u].cur + 1 + task[u].n] = Rest(task[u].cur, task[u].n)
      BY <1>9, <2>1, <2>3
    <2> QED
      BY <1>1, <2>1, <2>2, <2>4, <2>5 DEF Rest
  <1> QED
    BY <1>10, <1>11, <1>13, <1>14, <1>15, <1>16, <1>17, <1>18, <1>19, <1>20

(* The whole pool is one free entry again. *)
LEMMA DeinitInv ==
  ASSUME IInv, _lv_mem_deinit
  PROVE  IInv'
  <1> USE DEF IInv
  <1>1. /\ \A t \in Tasks : task[t] = Idle /\ task[t].pc = "idle"
        /\ cells' = [cells EXCEPT ![0] = Head(FALSE, Words - 1)]
        /\ owned' = [t \in Tasks |-> {}] /\ heads' = {0}
        /\ joining' = joining /\ lock' = lock /\ count' = count /\ task' = task
    BY IdleRec DEF _lv_mem_deinit
  <1>2. /\ cells \in [Place -> Word] /\ 0 \in Place /\ Words \in Nat /\ Words >= 2
    BY IdleRec, PoolAssumption DEF TypeOK
  <1>3. /\ Head(FALSE, Words - 1) \in Word /\ Head(FALSE, Words - 1).by = 0
        /\ Head(FALSE, Words - 1).size = Words - 1 /\ ~Head(FALSE, Words - 1).used
    BY <1>2 DEF Head, Word
  <1>4. /\ cells' \in [Place -> Word] /\ cells'[0].by = 0 /\ ~cells'[0].used
        /\ 0 + 1 + cells'[0].size = Words
    <2> DEFINE w == Head(FALSE, Words - 1)
    <2>1. w \in Word /\ w.by = 0 /\ ~w.used /\ w.size = Words - 1
      BY <1>3
    <2>2. cells' = [cells EXCEPT ![0] = w]
      BY <1>1
    <2> HIDE DEF w
    <2>3. cells' \in [Place -> Word] /\ cells'[0] = w
      BY <1>2, <2>1, <2>2
    <2> QED
      BY <1>2, <2>1, <2>3
  <1>5. TypeOK'
    BY <1>1, <1>2, <1>4 DEF TypeOK
  <1>6. Chained' /\ Apart' /\ InUse'
    <2>1. \A g \in heads' : g = 0
      BY <1>1
    <2>2. Chained'
      BY <1>1, <1>4, <2>1 DEF Chained
    <2>3. Apart'
      BY <2>1 DEF Apart
    <2> QED
      BY <1>4, <2>1, <2>2, <2>3 DEF InUse
  <1>7. \A t \in Tasks : owned'[t] = {} /\ task'[t].pc = "idle"
    BY <1>1
  <1>8. OnHeads' /\ Given' /\ Filled' /\ Locked' /\ Growing' /\ Joining' /\ Cutting'
    BY <1>7 DEF OnHeads, Given, Filled, Locked, Growing, Joining, Cutting, Walking
  <1>9. Holder'
    BY <1>1 DEF Holder
  <1> QED
    BY <1>5, <1>6, <1>8, <1>9

-------------------------------------------------------------------------------
LEMMA NextInv ==
  ASSUME IInv, [Next]_vars
  PROVE  IInv'
  <1>1. ASSUME NEW t \in Tasks, Calls(t) PROVE IInv'
    <2>1. CASE \E n \in Sizes : lv_mem_alloc(t, n)
      BY <2>1, WalksInv
    <2>2. CASE \E h \in owned[t] : lv_mem_free(t, h)
      BY <2>2, FreeInv DEF lv_mem_free
    <2>3. CASE \E h \in owned[t], n \in Sizes : lv_mem_realloc(t, h, n)
      <3>1. PICK h \in owned[t], n \in Sizes : lv_mem_realloc(t, h, n)
        BY <2>3
      <3>2. CASE n > cells[h].size /\ AllocBegin(t, n, h)
        BY <3>1, <3>2, WalksInv DEF lv_mem_realloc
      <3>3. CASE ~(n > cells[h].size /\ AllocBegin(t, n, h))
        <4>1. Cuts(t, h, n)
          BY <3>1, <3>3, Zenon DEF lv_mem_realloc, Cuts, ToShrink
        <4> QED
          BY <4>1, CutInv
      <3> QED
        BY <3>2, <3>3
    <2>4. CASE lv_mem_monitor(t)
      BY <2>4, WalksInv
    <2> QED
      BY <1>1, <2>1, <2>2, <2>3, <2>4 DEF Calls
  <1>2. ASSUME NEW t \in Tasks, Step(t) PROVE IInv'
    <2>1. CASE ent_alloc(t)
      BY <2>1, AllocInv
    <2>2. CASE WalkOn(t) \/ Seek(t) \/ Count(t)
      BY <2>2, WalksInv
    <2>3. CASE Drop(t)
      <3>1. task[t].pc = "drop" /\ task[t].old \in owned[t] /\ Free(t, task[t].old)
        BY <2>3 DEF Drop, IInv, Growing
      <3> QED
        BY <3>1, FreeInv
    <2>4. CASE Merge(t)
      BY <2>4, JoinsInv, WalksInv DEF Merge
    <2>5. CASE Join(t)
      BY <2>5, JoinsInv, WalksInv DEF Join
    <2>6. CASE Shrink(t)
      BY <2>6, ShrinkInv
    <2> QED
      BY <1>2, <2>1, <2>2, <2>3, <2>4, <2>5, <2>6 DEF Step
  <1>3. CASE _lv_mem_deinit
    BY <1>3, DeinitInv
  <1>4. CASE UNCHANGED vars
    BY <1>4 DEF vars, IInv, TypeOK, Chained, Apart, OnHeads, Given, Filled, InUse, Locked,
                Holder, Growing, Joining, Cutting, Kept, Rest, Head
  <1> QED
    BY <1>1, <1>2, <1>3, <1>4 DEF Next

(* The entries and the tasks' blocks, wherever each call has got to.       *)
THEOREM Invariance == Spec => []IInv
  <1>1. IInv /\ [Next]_vars => IInv'
    BY NextInv
  <1> QED
    BY InitInv, <1>1, PTL DEF Spec

(* No order of allocating, freeing, joining and cutting breaks the chain   *)
(* the walks of lv_mem.c follow.                                           *)
THEOREM AlwaysTiled == Spec => []Tiled
  <1>1. IInv => Tiled
    BY DEF IInv, Chained, Apart, OnHeads, Walking, Tiled
  <1> QED
    BY <1>1, Invariance, PTL

(* No block is given to two tasks, and none is written by another.         *)
THEOREM AlwaysIntact == Spec => []BlocksIntact
  <1>1. IInv => BlocksIntact
    BY DEF IInv, Given, Filled, InUse, BlocksIntact
  <1> QED
    BY <1>1, Invariance, PTL
===============================================================================
