-------------------------------- MODULE Memory --------------------------------
(***************************************************************************)
(* Sizes and statistics of src/src/core/mem.c, and the bounded draws of    *)
(* src/src/core/rand.c.  A size_t goes up to SIZE_MAX and a drawn number   *)
(* up to RAND_MAX, so that overflow and rejection happen on small ones.    *)
(***************************************************************************)
EXTENDS Integers, Sequences

CONSTANTS
  SIZE_MAX,
  RAND_MAX,        \* 0xFFFFFFFF in the code
  REJECT_LIMIT     \* XURY_RAND_REJECT_LIMIT, 64 in the code

ASSUME MemoryAssumption == SIZE_MAX \in Nat /\ RAND_MAX \in Nat /\ REJECT_LIMIT \in Nat \ {0}

OVERFLOW == -1

mem_size_mul(a, b) == IF a # 0 /\ b > SIZE_MAX \div a THEN OVERFLOW ELSE (a * b) % (SIZE_MAX + 1)
mem_size_add(a, b) == IF b > SIZE_MAX - a THEN OVERFLOW ELSE (a + b) % (SIZE_MAX + 1)
mem_size_add_mul(a, b, c) ==
  IF mem_size_mul(b, c) = OVERFLOW THEN OVERFLOW ELSE mem_size_add(a, mem_size_mul(b, c))

NoStats == [alloc |-> 0, realloc |-> 0, free |-> 0, live |-> 0, peak |-> 0]

mem_stats_on_alloc(stats, n) ==
  [stats EXCEPT !.alloc = @ + 1, !.live = @ + n,
                !.peak = IF stats.live + n > @ THEN stats.live + n ELSE @]

\* given says whether the allocator has the memory; a block is its size, 0
\* is NULL.
mem_alloc(stats, n, given) ==
  IF n = 0 \/ ~given THEN [block |-> 0, stats |-> stats]
  ELSE [block |-> n, stats |-> mem_stats_on_alloc(stats, n)]

mem_free(stats) == [block |-> 0, stats |-> [stats EXCEPT !.free = @ + 1]]

\* The old size is not known, so that the live bytes stay as they are.
mem_realloc(stats, block, n, given) ==
  IF block = 0 THEN mem_alloc(stats, n, given)
  ELSE IF n = 0 THEN mem_free(stats)
  ELSE IF given THEN [block |-> n, stats |-> [stats EXCEPT !.realloc = @ + 1]]
  ELSE [block |-> 0, stats |-> stats]

mem_alloc_array(stats, count, size, given) ==
  LET total == mem_size_mul(count, size)
      got   == mem_alloc(stats, total, given)
  IN  IF total = OVERFLOW THEN [rc |-> "OVERFLOW", block |-> 0, stats |-> stats]
      ELSE [rc    |-> IF got.block = 0 /\ total > 0 THEN "NOMEM" ELSE "OK",
            block |-> got.block, stats |-> got.stats]

mem_compare_null(a, b, n) ==
  IF n = 0 \/ (a = "NULL" /\ b = "NULL") THEN 0 ELSE IF a = "NULL" THEN -1 ELSE 1
-----------------------------------------------------------------------------
\* Numbers at or above the limit are drawn again: a multiple of the bound.
RejectFrom(bound) == RAND_MAX - (RAND_MAX % bound)

\* The draws up to the first that is accepted.
rand_fast_below(bound, draws) ==
  IF bound = 0 THEN 0
  ELSE LET accepted == SelectSeq(draws, LAMBDA v : v < RejectFrom(bound))
       IN  accepted[1] % bound

\* A draw is a number, or the code of a source that failed.
rand_secure_below(bound, draws) ==
  LET ends == {i \in 1..REJECT_LIMIT : draws[i].rc # "OK" \/ draws[i].value < RejectFrom(bound)}
      d == draws[CHOOSE i \in ends : \A j \in ends : i <= j]
  IN  IF bound = 0 THEN [rc |-> "INVAL", value |-> 0]
      ELSE IF ends = {} THEN [rc |-> "IO", value |-> 0]
      ELSE IF d.rc # "OK" THEN [rc |-> d.rc, value |-> 0]
      ELSE [rc |-> "OK", value |-> d.value % bound]
=============================================================================
