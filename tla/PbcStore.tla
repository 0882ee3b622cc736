------------------------------ MODULE PbcStore ------------------------------
(***************************************************************************)
(* The storage under pbc: the growing array (pbc/src/array.c), the string  *)
(* pool (stringpool.c) and the heap a message lives in (alloc.c).  What is *)
(* stored is a numbered element, string or block; a place is an interval   *)
(* [page, from, to) of a page.                                             *)
(***************************************************************************)
EXTENDS Naturals, Sequences, FiniteSets

CONSTANTS InnerFields,  \* values of INNER_FIELD, elements kept in the array itself
          POOL_PAGE,    \* PAGE_SIZE of stringpool.c
          HEAP_PAGE,    \* the smallest page of a heap, 1024 in _pbcH_new
          StringSizes,  \* lengths of strings
          BlockSizes,   \* sizes asked from the heap
          MaxStored     \* bound: strings and blocks stored, four times as many elements

ASSUME StoreAssumption ==
  /\ InnerFields \subseteq Nat \ {0}
  /\ POOL_PAGE \in Nat \ {0} /\ HEAP_PAGE \in Nat \ {0}
  /\ StringSizes \subseteq Nat /\ BlockSizes \subseteq Nat
  /\ MaxStored \in Nat

VARIABLES
  inner,  \* INNER_FIELD of this build
  arr,    \* an array: number, and the elements in cells of a block
  pool,   \* pages of a string pool, and its strings
  heap    \* pages of a heap, and its blocks

storeVars == <<inner, arr, pool, heap>>

----------------------------------------------------------------------------
(***************************************************************************)
(* _pbcA_push.  cap is what the block a->a points to can hold; the cells   *)
(* hold the elements written, by index.                                    *)
(***************************************************************************)
PowerOfTwo(n) ==
  LET pow[k \in 0 .. n] == IF k = 0 THEN 1 ELSE 2 * pow[k - 1]
  IN  \E k \in 0 .. n : pow[k] = n

\* (size + 1) ^ size > size
CarryOut(size) == PowerOfTwo(size + 1)

\* Doubled as long as it is not above number + 1, which takes fewer rounds than that.
FirstOuterCap(number) ==
  LET cap[i \in 0 .. number + 2] ==
        IF i = 0 THEN 1
        ELSE LET c == cap[i - 1] IN IF c <= number + 1 THEN 2 * c ELSE c
  IN  cap[number + 2]

\* Mutant of Regrow: leaving the inner field is like any other growth.
RegrowCarryOnly(a) ==
  IF a.number < inner THEN inner
  ELSE IF CarryOut(a.number) THEN 2 * (a.number + 1) ELSE a.cap

Regrow(a) ==
  CASE a.number < inner -> inner
    [] a.number = inner -> FirstOuterCap(a.number)
    [] OTHER -> IF CarryOut(a.number) THEN 2 * (a.number + 1) ELSE a.cap

Push ==
  /\ arr.number < 4 * MaxStored
  /\ LET cap  == Regrow(arr)
         kept == IF arr.number = inner THEN inner ELSE arr.number
     IN  arr' = [number |-> arr.number + 1, cap |-> cap,
                 cell |-> [i \in 0 .. arr.number |->
                             IF i < kept THEN arr.cell[i] ELSE arr.number]]
  /\ UNCHANGED <<inner, pool, heap>>

----------------------------------------------------------------------------
Interval(p, from, to) == [page |-> p, from |-> from, to |-> to]

\* _pbcS_build: a string of sz characters and its zero byte.
Build(sz) ==
  LET s == sz + 1
      new == Len(pool.pages) + 1
  IN
  /\ Len(pool.strings) < MaxStored
  /\ \/ /\ s < POOL_PAGE - pool.len
        /\ pool' = [pool EXCEPT
             !.strings = Append(@, Interval(pool.buffer, pool.len, pool.len + s)),
             !.len = @ + s]
     \/ /\ s >= POOL_PAGE - pool.len /\ s > POOL_PAGE
        /\ pool' = [pool EXCEPT
             !.pages = Append(@, s),
             !.strings = Append(@, Interval(new, 0, s))]
     \/ /\ s >= POOL_PAGE - pool.len /\ s <= POOL_PAGE
        /\ pool' = [pool EXCEPT
             !.pages = Append(@, POOL_PAGE),
             !.strings = Append(@, Interval(new, 0, s)),
             !.buffer = new,
             !.len = s]
  /\ UNCHANGED <<inner, arr, heap>>

----------------------------------------------------------------------------
RoundUp(size) == ((size + 3) \div 4) * 4

\* _pbcH_alloc
Alloc(sz) ==
  LET size == RoundUp(sz)
      new  == Len(heap.pages) + 1
      fits == heap.used + size <= heap.size
  IN
  /\ Len(heap.blocks) < MaxStored
  /\ \/ /\ fits
        /\ heap' = [heap EXCEPT
             !.blocks = Append(@, Interval(heap.current, heap.used, heap.used + size)),
             !.used = @ + size]
     \/ /\ ~fits
        /\ heap' = [heap EXCEPT
             !.pages = Append(@, IF size < heap.size THEN heap.size ELSE size),
             !.blocks = Append(@, Interval(new, 0, size)),
             !.current = new,
             !.used = size]
  /\ UNCHANGED <<inner, arr, pool>>

----------------------------------------------------------------------------
\* _pbcA_open: the elements are in the array itself.
EmptyArray == [number |-> 0, cap |-> inner, cell |-> <<>>]

\* _pbcS_new
EmptyPool == [pages |-> <<POOL_PAGE>>, strings |-> <<>>, buffer |-> 1, len |-> 0]

\* _pbcH_new
EmptyHeap ==
  [pages |-> <<HEAP_PAGE>>, blocks |-> <<>>, current |-> 1, size |-> HEAP_PAGE, used |-> 0]

StoreInit ==
  /\ inner \in InnerFields
  /\ arr = EmptyArray /\ pool = EmptyPool /\ heap = EmptyHeap

StoreNext ==
  \/ Push
  \/ \E sz \in StringSizes : Build(sz)
  \/ \E sz \in BlockSizes : Alloc(sz)

StoreSpec == StoreInit /\ [][StoreNext]_storeVars

----------------------------------------------------------------------------
Disjoint(places, pages) ==
  /\ \A i \in DOMAIN places :
       places[i].page \in DOMAIN pages /\ places[i].to <= pages[places[i].page]
  /\ \A i, j \in DOMAIN places :
       i # j /\ places[i].page = places[j].page =>
         places[i].to <= places[j].from \/ places[j].to <= places[i].from

(***************************************************************************)
(* What is stored stays where it is and lies inside the memory it was      *)
(* given: every element of an array within its capacity and unchanged by   *)
(* the moves to a larger block, no two strings of a pool and no two blocks *)
(* of a heap overlapping, whatever the sizes and the order.                *)
(***************************************************************************)
StoredApart ==
  /\ arr.number <= arr.cap
  /\ \A i \in 0 .. arr.number - 1 : arr.cell[i] = i
  /\ Disjoint(pool.strings, pool.pages)
  /\ Disjoint(heap.blocks, heap.pages)
=============================================================================
