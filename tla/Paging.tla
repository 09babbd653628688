------------------------------- MODULE Paging -------------------------------
(***************************************************************************)
(* The page-replacement simulator of task2_memory_management/paging_sim.c. *)
(* main translates a pattern of pages to addresses and runs run_fifo and   *)
(* run_lru over them, once for each number of frames.  Those runs share no *)
(* state, so the model lets all of them take each access together: after   *)
(* any number of accesses it is in the state each run has at that point of *)
(* its loop, and their results can be compared.                            *)
(***************************************************************************)
EXTENDS Integers, Sequences, FiniteSetsExt

CONSTANTS
  Sizes,          \* the values of num_frames
  Pages,          \* the pages in the patterns
  PageSize,       \* page_size
  MaxRefs         \* bound: MAX_REFS

ASSUME SizesAssumption == Sizes \subseteq Nat \ {0}
ASSUME PagesAssumption == Pages \subseteq Nat
ASSUME PageSizeAssumption == PageSize \in Nat \ {0}
ASSUME MaxRefsAssumption == MaxRefs \in Nat

NoPage == -1      \* an empty frame

VARIABLES
  fifo,           \* run_fifo's locals, for each number of frames
  lru,            \* run_lru's locals, for each number of frames
  refs,           \* the pages accessed so far
  loads           \* the pages run_fifo loaded so far (a history variable)

vars == <<fifo, lru, refs, loads>>

Frame(n) == 0 .. n - 1

build_address(page) == page * PageSize + PageSize \div 2
address_to_page(address) == address \div PageSize

\* A lookup that misses the last frame.
find_page_short(frames, page) ==
  LET at == {f \in DOMAIN frames : frames[f] = page /\ f + 1 \in DOMAIN frames}
  IN  IF at = {} THEN -1 ELSE Min(at)

\* The first frame that holds the page, or -1.
find_page(frames, page) ==
  LET at == {f \in DOMAIN frames : frames[f] = page} IN IF at = {} THEN -1 ELSE Min(at)

Init ==
  /\ fifo = [n \in Sizes |-> [frames |-> [f \in Frame(n) |-> NoPage], fifo_queue_next |-> 0,
                              filled |-> 0, page_faults |-> 0, page_hits |-> 0]]
  /\ lru = [n \in Sizes |-> [frames |-> [f \in Frame(n) |-> NoPage],
                             last_used |-> [f \in Frame(n) |-> -1],
                             filled |-> 0, clock |-> 0, page_faults |-> 0, page_hits |-> 0]]
  /\ refs = << >>
  /\ loads = [n \in Sizes |-> << >>]

-----------------------------------------------------------------------------
(* One iteration of the loop of run_fifo.                                  *)

\* A pointer that is not wrapped round, and one that does not move.
NoWrap(i, n)  == i + 1
NoMove(i, n) == i
NextOldest(i, n) == (i + 1) % n

FifoAccess(s, n, page) ==
  IF find_page(s.frames, page) # -1 THEN [s EXCEPT !.page_hits = @ + 1]
  ELSE IF s.filled < n
  THEN [s EXCEPT !.page_faults = @ + 1, !.frames[s.filled] = page, !.filled = @ + 1]
  ELSE [s EXCEPT !.page_faults = @ + 1, !.frames[s.fifo_queue_next] = page,
                 !.fifo_queue_next = NextOldest(@, n)]

-----------------------------------------------------------------------------
(* One iteration of the loop of run_lru.                                   *)

\* The first of the frames with the smallest last_used value.
Victim(s, n) ==
  Min({f \in Frame(n) : \A g \in Frame(n) : s.last_used[f] <= s.last_used[g]})

\* A hit that does not refresh the time stamp.
HitOnly(s, f, clock) == [s EXCEPT !.page_hits = @ + 1]
Hit(s, f, clock) == [s EXCEPT !.page_hits = @ + 1, !.last_used[f] = clock]

LruAccess(s, n, page) ==
  LET idx == find_page(s.frames, page)
      t == [s EXCEPT !.clock = @ + 1] IN
  IF idx # -1 THEN Hit(t, idx, s.clock)
  ELSE IF s.filled < n
  THEN [t EXCEPT !.page_faults = @ + 1, !.frames[s.filled] = page,
                 !.last_used[s.filled] = s.clock, !.filled = @ + 1]
  ELSE [t EXCEPT !.page_faults = @ + 1, !.frames[Victim(s, n)] = page,
                 !.last_used[Victim(s, n)] = s.clock]

-----------------------------------------------------------------------------
\* The next address of the pattern, in every run.
Access(p) ==
  LET page == address_to_page(build_address(p)) IN
  /\ Len(refs) < MaxRefs
  /\ fifo' = [n \in Sizes |-> FifoAccess(fifo[n], n, page)]
  /\ lru' = [n \in Sizes |-> LruAccess(lru[n], n, page)]
  /\ refs' = Append(refs, p)
  /\ loads' = [n \in Sizes |-> IF find_page(fifo[n].frames, page) = -1
                                 THEN Append(loads[n], page) ELSE loads[n]]

\* The pattern is used up: the summaries are printed.
Done ==
  /\ Len(refs) = MaxRefs
  /\ UNCHANGED vars

Next == (\E p \in Pages : Access(p)) \/ Done

Spec == Init /\ [][Next]_vars

-----------------------------------------------------------------------------
(* Correctness.                                                            *)

Seen == {refs[i] : i \in DOMAIN refs}
Resident(s) == {s.frames[f] : f \in DOMAIN s.frames} \ {NoPage}

\* Every variable has its type; no subscript of an eviction leaves the frames
\* of its run.
TypeOK ==
  /\ \A n \in Sizes :
       /\ fifo[n].frames \in [Frame(n) -> Pages \cup {NoPage}]
       /\ fifo[n].fifo_queue_next \in Frame(n)
       /\ fifo[n].filled \in 0 .. n
       /\ lru[n].frames \in [Frame(n) -> Pages \cup {NoPage}]
       /\ lru[n].last_used \in [Frame(n) -> -1 .. MaxRefs]
       /\ lru[n].filled \in 0 .. n
  /\ refs \in Seq(Pages)

\* A frame table never holds a page twice, and its first `filled` frames are
\* exactly the occupied ones.
NoDuplicates ==
  \A n \in Sizes : \A s \in {[frames |-> fifo[n].frames, filled |-> fifo[n].filled],
                             [frames |-> lru[n].frames, filled |-> lru[n].filled]} :
    /\ \A f \in Frame(n) : s.frames[f] = NoPage <=> f >= s.filled
    /\ \A f, g \in Frame(n) : s.frames[f] = s.frames[g] /\ f # g => s.frames[f] = NoPage

\* FIFO: "the OLDEST loaded page is evicted", so the pages in the frames are
\* the ones of the last num_frames loads.
FifoKeepsLastLoaded ==
  \A n \in Sizes :
    Resident(fifo[n]) = {loads[n][i] : i \in {j \in DOMAIN loads[n] : j > Len(loads[n]) - n}}

\* LRU: the frames hold the num_frames most recently used pages, that is the
\* pages since whose last access fewer than num_frames others were accessed.
LruKeepsMostRecent ==
  LET last(p) == Max({i \in DOMAIN refs : refs[i] = p}) IN
  \A n \in Sizes :
    Resident(lru[n]) =
      {p \in Seen : Cardinality({q \in Seen : last(q) > last(p)}) < n}

\* LRU has no Belady anomaly: a run with more frames keeps every page that a
\* run with fewer keeps, so it never has more faults.
LruNoAnomaly ==
  \A m, n \in Sizes : m < n =>
    /\ Resident(lru[m]) \subseteq Resident(lru[n])
    /\ lru[n].page_faults <= lru[m].page_faults

=============================================================================
