--------------------------------- MODULE LvMem ---------------------------------
(***************************************************************************)
(* The pool allocator of src/components/heap/lv_mem/lv_mem.c, behind       *)
(* m_malloc and m_free when the pool is in external RAM.                   *)
(*                                                                         *)
(* The pool is an array of words.  An entry is a header word (in use, size *)
(* of the data) and its data; the next entry starts where the data end.    *)
(* Allocating, freeing and monitoring walk the entries holding a mutex;    *)
(* lv_mem_realloc cuts a block short without it.                           *)
(***************************************************************************)
EXTENDS Integers

CONSTANTS
    Words,          \* LV_MEM_SIZE, in words
    Tasks,          \* the tasks that allocate
    Sizes,          \* sizes asked for, rounded up to words
    FullDefragCnt   \* LV_MEM_FULL_DEFRAG_CNT

ASSUME PoolAssumption ==
    /\ Words \in Nat /\ Words >= 2
    /\ Tasks \subseteq Nat \ {0}
    /\ Sizes \subseteq Nat
    /\ FullDefragCnt \in Nat \ {0}

VARIABLES
    joining,    \* was it built with LV_MEM_AUTO_DEFRAG
    cells,      \* the words of the pool
    lock,       \* who holds memLock, or 0
    count,      \* full_defrag_cnt
    task,       \* what each task is doing
    owned,      \* the entries each task has been given
    heads       \* history: the entries a walk reaches

vars == <<joining, cells, lock, count, task, owned, heads>>

Place == 0 .. Words - 1
NULL  == Words

(* Who wrote a word is known: 0 is the allocator, its word a header.       *)
Word         == [by : Tasks \cup {0}, used : BOOLEAN, size : 0 .. Words]
Head(u, n)   == [by |-> 0, used |-> u, size |-> n]
Data(t)      == [by |-> t, used |-> FALSE, size |-> 0]

Idle == [pc |-> "idle", cur |-> 0, nxt |-> 0, n |-> 0, old |-> NULL]

Init ==
    /\ joining \in BOOLEAN
    /\ cells = [i \in Place |-> Head(FALSE, Words - 1)]
    /\ lock = 0 /\ count = 0
    /\ task = [t \in Tasks |-> Idle]
    /\ owned = [t \in Tasks |-> {}]
    /\ heads = {0}

-------------------------------------------------------------------------------
(* An entry is looked for where the last one ends; a header without room   *)
(* for data after it is none.                                              *)
ent_get_next(h) == IF h + 2 + cells[h].size >= Words THEN NULL
                   ELSE h + 1 + cells[h].size

(* Cutting entry h down to n words, when more than a header would be left: *)
(* a header for the rest is written, then the size of the entry.           *)
Splits(h, n)  == cells[h].size \notin {n, n + 1}
Rest_Bug(h, n) == Head(FALSE, cells[h].size - n)
Rest(h, n)    == Head(FALSE, cells[h].size - n - 1)

ent_trunc(h, n) ==
    IF Splits(h, n)
    THEN [cells EXCEPT ![h + 1 + n] = Rest(h, n), ![h].size = n]
    ELSE cells
HeadsAfter(h, n) == IF Splits(h, n) THEN heads \cup {h + 1 + n} ELSE heads

Goes(t, r) == task' = [task EXCEPT ![t] = r]
Takes(t)   == lock = 0 /\ lock' = t

-------------------------------------------------------------------------------
(* lv_mem_alloc, for itself or for lv_mem_realloc of the block old.        *)
AllocBegin(t, n, old) ==
    /\ Takes(t)
    /\ Goes(t, [Idle EXCEPT !.pc = "walk", !.n = n, !.old = old])
    /\ UNCHANGED <<joining, cells, count, owned, heads>>

lv_mem_alloc(t, n) ==
    /\ task[t].pc = "idle" /\ n > 0
    /\ AllocBegin(t, n, NULL)

(* ent_alloc: the first free entry with room is given out.  The caller     *)
(* fills it; a block that grew is then freed.                              *)
Serves_Bug(t) == cells[task[t].cur].size >= task[t].n
Serves(t) == ~cells[task[t].cur].used /\ cells[task[t].cur].size >= task[t].n

ent_alloc(t) ==
    LET h == task[t].cur
        c == [ent_trunc(h, task[t].n) EXCEPT ![h].used = TRUE] IN
    /\ task[t].pc = "walk" /\ Serves(t)
    /\ cells' = [i \in Place |-> IF i \in h + 1 .. h + c[h].size THEN Data(t)
                                 ELSE c[i]]
    /\ heads' = HeadsAfter(h, task[t].n)
    /\ owned' = [owned EXCEPT ![t] = @ \cup {h}]
    /\ lock' = 0
    /\ Goes(t, IF task[t].old = NULL THEN Idle
               ELSE [Idle EXCEPT !.pc = "drop", !.old = task[t].old])
    /\ UNCHANGED <<joining, count>>

WalkOn_Bug(t) ==
    LET h == ent_get_next(task[t].cur) IN
    /\ task[t].pc = "walk" /\ ~Serves(t)
    /\ task' = [task EXCEPT ![t].cur = IF h = NULL THEN 0 ELSE h]
    /\ UNCHANGED <<joining, cells, lock, count, owned, heads>>
WalkOn(t) ==
    LET h == ent_get_next(task[t].cur) IN
    /\ task[t].pc = "walk" /\ ~Serves(t)
    /\ IF h = NULL THEN Goes(t, Idle) /\ lock' = 0
       ELSE task' = [task EXCEPT ![t].cur = h] /\ UNCHANGED lock
    /\ UNCHANGED <<joining, cells, count, owned, heads>>

-------------------------------------------------------------------------------
(* lv_mem_free.  The free entries after the block are joined to it, and    *)
(* every FullDefragCnt-th time those of the whole pool to one another, but *)
(* only where LV_MEM_AUTO_DEFRAG is set, which lv_config.h does not do:    *)
(* entries are then split and never joined.                                *)
Due == count + 1 >= FullDefragCnt

FreeBegin(t, h) ==
    /\ Takes(t)
    /\ cells' = [cells EXCEPT ![h].used = FALSE]
    /\ owned' = [owned EXCEPT ![t] = @ \ {h}]
    /\ IF ~Due
       THEN /\ count' = count + 1
            /\ Goes(t, [Idle EXCEPT !.pc = "merge", !.cur = h,
                                    !.nxt = ent_get_next(h)])
       ELSE /\ count' = 0
            /\ Goes(t, [Idle EXCEPT !.pc = "seek"])
    /\ UNCHANGED <<joining, heads>>

FreeOnly(t, h) ==
    /\ lock = 0
    /\ cells' = [cells EXCEPT ![h].used = FALSE]
    /\ owned' = [owned EXCEPT ![t] = @ \ {h}]
    /\ Goes(t, Idle)
    /\ UNCHANGED <<joining, lock, count, heads>>

Free(t, h) == IF joining THEN FreeBegin(t, h) ELSE FreeOnly(t, h)

lv_mem_free(t, h) == task[t].pc = "idle" /\ h \in owned[t] /\ Free(t, h)
Drop(t)           == task[t].pc = "drop" /\ Free(t, task[t].old)

(* One more entry joined to cur.                                           *)
Joins(t) ==
    LET h == task[t].cur
        x == task[t].nxt IN
    /\ x # NULL /\ ~cells[x].used
    /\ cells' = [cells EXCEPT ![h].size = @ + cells[x].size + 1]
    /\ heads' = heads \ {x}
    /\ task' = [task EXCEPT ![t].nxt = ent_get_next(x)]
    /\ UNCHANGED <<joining, lock, count, owned>>

Ends(t) == lock' = 0 /\ Goes(t, Idle) /\ UNCHANGED <<joining, cells, count, owned, heads>>

Blocked(t) == task[t].nxt # NULL => cells[task[t].nxt].used

Merge(t) ==
    /\ task[t].pc = "merge"
    /\ Joins(t) \/ (Blocked(t) /\ Ends(t))

(* lv_mem_defrag: look for a free entry, join those after it, go on behind *)
(* them.                                                                   *)
Moves(t, r) == Goes(t, r) /\ UNCHANGED <<joining, cells, lock, count, owned, heads>>

Seek(t) ==
    LET h == task[t].cur
        x == ent_get_next(h) IN
    /\ task[t].pc = "seek"
    /\ IF ~cells[h].used THEN Moves(t, [task[t] EXCEPT !.pc = "join", !.nxt = x])
       ELSE IF x # NULL THEN Moves(t, [task[t] EXCEPT !.cur = x])
       ELSE Ends(t)

Join(t) ==
    /\ task[t].pc = "join"
    /\ \/ Joins(t)
       \/ /\ Blocked(t)
          /\ IF task[t].nxt = NULL THEN Ends(t)
             ELSE Moves(t, [Idle EXCEPT !.pc = "seek", !.cur = task[t].nxt])

-------------------------------------------------------------------------------
(* lv_mem_realloc of a block the task owns.  The sizes are compared and    *)
(* the block is cut without the lock, by two stores.                       *)
lv_mem_realloc(t, h, n) ==
    /\ task[t].pc = "idle" /\ h \in owned[t]
    /\ \/ /\ n > cells[h].size
          /\ AllocBegin(t, n, h)
       \/ /\ n < cells[h].size /\ Splits(h, n)
          /\ cells' = [cells EXCEPT ![h + 1 + n] = Rest(h, n)]
          /\ Goes(t, [Idle EXCEPT !.pc = "shrink", !.cur = h, !.n = n])
          /\ UNCHANGED <<joining, lock, count, owned, heads>>

Shrink(t) ==
    LET h == task[t].cur IN
    /\ task[t].pc = "shrink"
    /\ cells' = [cells EXCEPT ![h].size = task[t].n]
    /\ heads' = heads \cup {h + 1 + task[t].n}
    /\ Goes(t, Idle)
    /\ UNCHANGED <<joining, lock, count, owned>>

(* lv_mem_monitor walks all entries and changes none.                      *)
lv_mem_monitor(t) ==
    /\ task[t].pc = "idle"
    /\ Takes(t)
    /\ Goes(t, [Idle EXCEPT !.pc = "count"])
    /\ UNCHANGED <<joining, cells, count, owned, heads>>

Count(t) ==
    LET x == ent_get_next(task[t].cur) IN
    /\ task[t].pc = "count"
    /\ IF x = NULL THEN Ends(t) ELSE Moves(t, [task[t] EXCEPT !.cur = x])

(* _lv_mem_deinit takes the pool back from everybody.                      *)
_lv_mem_deinit ==
    /\ \A t \in Tasks : task[t] = Idle
    /\ cells' = [cells EXCEPT ![0] = Head(FALSE, Words - 1)]
    /\ owned' = [t \in Tasks |-> {}]
    /\ heads' = {0}
    /\ UNCHANGED <<joining, lock, count, task>>

-------------------------------------------------------------------------------
Calls(t) ==
    \/ \E n \in Sizes : lv_mem_alloc(t, n)
    \/ \E h \in owned[t] : lv_mem_free(t, h)
    \/ \E h \in owned[t], n \in Sizes : lv_mem_realloc(t, h, n)
    \/ lv_mem_monitor(t)

Step(t) == \/ ent_alloc(t) \/ WalkOn(t) \/ Drop(t) \/ Merge(t)
           \/ Seek(t) \/ Join(t) \/ Shrink(t) \/ Count(t)

Next == (\E t \in Tasks : Calls(t) \/ Step(t)) \/ _lv_mem_deinit

(* A call that has begun goes on; the mutex lets a waiting task in at last.*)
Fairness == \A t \in Tasks : WF_vars(Step(t)) /\ SF_vars(Drop(t))

Spec == Init /\ [][Next]_vars /\ Fairness

-------------------------------------------------------------------------------
TypeOK ==
    /\ joining \in BOOLEAN
    /\ cells \in [Place -> Word]
    /\ lock \in Tasks \cup {0}
    /\ count \in 0 .. FullDefragCnt - 1
    /\ task \in [Tasks -> [pc : {"idle", "walk", "drop", "merge", "seek",
                                 "join", "shrink", "count"},
                           cur : Place, nxt : Place \cup {NULL}, n : Nat,
                           old : Place \cup {NULL}]]
    /\ owned \in [Tasks -> SUBSET Place]
    /\ heads \subseteq Place

(* The entries tile the pool, at every step of every call, also of those   *)
(* that cut a block without the lock: each ends where the next begins or   *)
(* the pool ends, and none reaches into another.  Every walk, now and      *)
(* later, is on headers, and never on data.  (And every variable has its   *)
(* type.)                                                                  *)
Tiled ==
    /\ TypeOK
    /\ 0 \in heads
    /\ \A h \in heads : /\ cells[h].by = 0
                        /\ h + 1 + cells[h].size \in heads \cup {Words}
    /\ \A h, g \in heads : h < g => h + cells[h].size < g
    /\ \A t \in Tasks : task[t].pc \in {"walk", "merge", "seek", "join", "count"}
                            => task[t].cur \in heads

(* What a task has been given is in use, is given to nobody else, and      *)
(* holds what the task wrote there; and what is in use somebody owns.      *)
Kept(t, h) == IF task[t].pc = "shrink" /\ task[t].cur = h THEN 1 .. task[t].n
              ELSE 1 .. cells[h].size

BlocksIntact ==
    /\ \A t \in Tasks : \A h \in owned[t] :
        /\ h \in heads /\ cells[h].used
        /\ \A i \in Kept(t, h) : cells[h + i] = Data(t)
        /\ \A u \in Tasks \ {t} : h \notin owned[u]
    /\ \A h \in heads : cells[h].used => \E t \in Tasks : h \in owned[t]

(* Every call returns, and so the mutex is given back.                     *)
CallsReturn == \A t \in Tasks : task[t].pc # "idle" ~> task[t].pc = "idle"
===============================================================================
