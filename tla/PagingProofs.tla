---------------------------- MODULE PagingProofs ----------------------------
(***************************************************************************)
(* run_fifo and run_lru for any pages, any numbers of frames and patterns  *)
(* of any length: which pages the frames hold, and that more frames never  *)
(* cost LRU a fault.                                                       *)
(***************************************************************************)
EXTENDS Paging, SequenceTheorems, FiniteSetTheorems, WellFoundedInduction, TLAPS

USE SizesAssumption, PagesAssumption, PageSizeAssumption, MaxRefsAssumption

\* The locals of run_fifo and of run_lru with n frames.
FifoState(n) == [frames : [Frame(n) -> Pages \cup {NoPage}], fifo_queue_next : Frame(n),
                 filled : 0 .. n, page_faults : Nat, page_hits : Nat]
LruState(n)  == [frames : [Frame(n) -> Pages \cup {NoPage}], last_used : [Frame(n) -> Nat \cup {-1}],
                 filled : 0 .. n, clock : Nat, page_faults : Nat, page_hits : Nat]

\* A table of n frames of which the first `filled` are occupied, by different
\* pages.
Table(n, frames, filled) ==
  /\ \A f \in Frame(n) : frames[f] = NoPage <=> f >= filled
  /\ \A f, g \in Frame(n) : frames[f] = frames[g] /\ f # g => frames[f] = NoPage

-----------------------------------------------------------------------------
(* Facts about the operators.                                              *)

\* A set of naturals that is not empty has a least element.
LEMMA MinOfNaturals ==
  ASSUME NEW S \in SUBSET Nat, S # {}
  PROVE  Min(S) \in S /\ \A y \in S : Min(S) <= y
  <1>1. PICK x \in S : \A y \in S : ~(<<y, x>> \in OpToRel(<, Nat))
    BY NatLessThanWellFounded, WFMin
  <1>2. \A y \in S : x =< y
    <2> TAKE y \in S
    <2>1. x \in Nat /\ y \in Nat
      OBVIOUS
    <2>2. ~(y < x)
      BY <1>1, <2>1 DEF OpToRel
    <2>3. QED
      BY <2>1, <2>2
  <1>3. QED
    BY <1>2 DEF Min

\* The page of the address main builds for a page is that page.
LEMMA AddressOfPage ==
  ASSUME NEW p \in Nat
  PROVE  address_to_page(build_address(p)) = p
  <1>1. PageSize \div 2 \in Nat /\ PageSize \div 2 < PageSize
    OBVIOUS
  <1>2. ASSUME NEW r \in Nat, r < PageSize PROVE (p * PageSize + r) \div PageSize = p
    BY <1>2
  <1>3. QED
    BY <1>1, <1>2 DEF address_to_page, build_address

\* find_page finds a page that is in the table, and says -1 of any other.
LEMMA FindPage ==
  ASSUME NEW n \in Sizes, NEW frames, DOMAIN frames = Frame(n), NEW page
  PROVE  \/ /\ find_page(frames, page) \in Frame(n)
            /\ frames[find_page(frames, page)] = page
            /\ find_page(frames, page) # -1
         \/ find_page(frames, page) = -1 /\ \A f \in Frame(n) : frames[f] # page
  <1> DEFINE at == {f \in DOMAIN frames : frames[f] = page}
  <1>1. at \in SUBSET Nat
    BY DEF Frame
  <1>2. at # {} => Min(at) \in at
    BY <1>1, MinOfNaturals
  <1>3. QED
    BY <1>2 DEF find_page, Frame

\* One access in run_fifo, field by field.
LEMMA FifoFields ==
  ASSUME NEW n \in Sizes, NEW s \in FifoState(n), NEW page \in Pages,
         NEW t, t = FifoAccess(s, n, page)
  PROVE
    /\ t \in FifoState(n)
    /\ \/ /\ \E f \in Frame(n) : s.frames[f] = page
          /\ t.frames = s.frames /\ t.filled = s.filled
          /\ t.fifo_queue_next = s.fifo_queue_next
          /\ find_page(s.frames, page) # -1
       \/ /\ \A f \in Frame(n) : s.frames[f] # page
          /\ s.filled < n
          /\ t.frames = [s.frames EXCEPT ![s.filled] = page] /\ t.filled = s.filled + 1
          /\ t.fifo_queue_next = s.fifo_queue_next
          /\ find_page(s.frames, page) = -1
       \/ /\ \A f \in Frame(n) : s.frames[f] # page
          /\ s.filled = n /\ t.filled = n
          /\ t.frames = [s.frames EXCEPT ![s.fifo_queue_next] = page]
          /\ t.fifo_queue_next = IF s.fifo_queue_next + 1 = n THEN 0 ELSE s.fifo_queue_next + 1
          /\ find_page(s.frames, page) = -1
  <1> DEFINE next == s.fifo_queue_next
  <1>1. n \in Nat \ {0} /\ next \in Frame(n) /\ s.frames \in [Frame(n) -> Pages \cup {NoPage}]
        /\ s.filled \in 0 .. n
    BY DEF FifoState
  <1>2. (next + 1) % n = IF next + 1 = n THEN 0 ELSE next + 1
    BY <1>1 DEF Frame
  <1>3. CASE find_page(s.frames, page) # -1
    <2>1. FifoAccess(s, n, page) = [s EXCEPT !.page_hits = @ + 1]
      BY <1>3 DEF FifoAccess
    <2>2. \E f \in Frame(n) : s.frames[f] = page
      BY <1>1, <1>3, FindPage
    <2>3. [s EXCEPT !.page_hits = @ + 1] \in FifoState(n)
      BY DEF FifoState
    <2>4. QED
      BY <1>3, <2>1, <2>2, <2>3 DEF FifoState
  <1>4. CASE find_page(s.frames, page) = -1 /\ s.filled < n
    <2> DEFINE g == [s.frames EXCEPT ![s.filled] = page]
               c == s.filled + 1
               k == s.page_faults + 1
               w == [s EXCEPT !.page_faults = k, !.frames = g, !.filled = c]
    <2>1. FifoAccess(s, n, page) = w
      BY <1>4 DEF FifoAccess, FifoState
    <2>2. s.filled \in Frame(n) /\ c \in 0 .. n /\ k \in Nat
      BY <1>1, <1>4 DEF Frame, FifoState
    <2>3. \A f \in Frame(n) : s.frames[f] # page
      BY <1>1, <1>4, FindPage DEF Frame
    <2>4. g \in [Frame(n) -> Pages \cup {NoPage}]
      BY <1>1, <2>2
    <2> HIDE DEF g, c, k
    <2>5. /\ w \in FifoState(n) /\ w.frames = g /\ w.filled = c
          /\ w.fifo_queue_next = s.fifo_queue_next
      BY <2>2, <2>4 DEF FifoState
    <2> HIDE DEF w
    <2>6. QED
      BY <1>4, <2>1, <2>3, <2>5 DEF g, c
  <1>5. CASE find_page(s.frames, page) = -1 /\ ~(s.filled < n)
    <2> DEFINE g == [s.frames EXCEPT ![next] = page]
               x == (next + 1) % n
               k == s.page_faults + 1
               w == [s EXCEPT !.page_faults = k, !.frames = g, !.fifo_queue_next = x]
    <2>1. FifoAccess(s, n, page) = w
      BY <1>5 DEF FifoAccess, NextOldest, FifoState
    <2>2. s.filled = n /\ x \in Frame(n) /\ k \in Nat
      BY <1>1, <1>2, <1>5 DEF Frame, FifoState
    <2>3. \A f \in Frame(n) : s.frames[f] # page
      BY <1>1, <1>5, FindPage DEF Frame
    <2>4. g \in [Frame(n) -> Pages \cup {NoPage}]
      BY <1>1
    <2> HIDE DEF g, x, k
    <2>5. /\ w \in FifoState(n) /\ w.frames = g /\ w.filled = s.filled
          /\ w.fifo_queue_next = x
      BY <2>2, <2>4 DEF FifoState
    <2> HIDE DEF w
    <2>6. QED
      BY <1>2, <1>5, <2>1, <2>2, <2>3, <2>5 DEF g, x
  <1>6. QED
    BY <1>3, <1>4, <1>5

\* The frame run_lru evicts is one that was not used after any other.
LEMMA VictimIsOldest ==
  ASSUME NEW n \in Sizes, NEW s \in LruState(n)
  PROVE  /\ Victim(s, n) \in Frame(n)
         /\ \A g \in Frame(n) : s.last_used[Victim(s, n)] <= s.last_used[g]
  <1>1. n \in Nat \ {0} /\ s.last_used \in [Frame(n) -> Nat \cup {-1}]
    BY DEF LruState
  <1> DEFINE times == {s.last_used[f] + 1 : f \in Frame(n)}
             oldest == {f \in Frame(n) : \A g \in Frame(n) : s.last_used[f] <= s.last_used[g]}
  <1>2. times \in SUBSET Nat /\ times # {}
    <2>1. 0 \in Frame(n)
      BY <1>1 DEF Frame
    <2>2. QED
      BY <1>1, <2>1
  <1>3. Min(times) \in times /\ \A y \in times : Min(times) <= y
    BY <1>2, MinOfNaturals
  <1>4. PICK f \in Frame(n) : Min(times) = s.last_used[f] + 1
    BY <1>3
  <1>5. \A g \in Frame(n) : s.last_used[f] <= s.last_used[g]
    <2> TAKE g \in Frame(n)
    <2>1. s.last_used[f] + 1 <= s.last_used[g] + 1
      BY <1>3, <1>4
    <2>2. QED
      BY <1>1, <2>1
  <1>6. oldest \in SUBSET Nat /\ oldest # {}
    BY <1>5 DEF Frame
  <1>7. Min(oldest) \in oldest
    BY <1>6, MinOfNaturals
  <1>8. QED
    BY <1>7 DEF Victim

\* What an access in run_lru does to its locals: a hit, a fault that takes a free
\* frame, or a fault that evicts.
LruHit(s, n, page, t) ==
  /\ \E f \in Frame(n) : /\ s.frames[f] = page
                         /\ t.last_used = [s.last_used EXCEPT ![f] = s.clock]
  /\ t.frames = s.frames /\ t.filled = s.filled
  /\ t.page_faults = s.page_faults
LruFill(s, n, page, t) ==
  /\ \A f \in Frame(n) : s.frames[f] # page
  /\ s.filled < n /\ t.filled = s.filled + 1
  /\ t.frames = [s.frames EXCEPT ![s.filled] = page]
  /\ t.last_used = [s.last_used EXCEPT ![s.filled] = s.clock]
  /\ t.page_faults = s.page_faults + 1
LruEvict(s, n, page, t) ==
  /\ \A f \in Frame(n) : s.frames[f] # page
  /\ s.filled = n /\ t.filled = n
  /\ t.frames = [s.frames EXCEPT ![Victim(s, n)] = page]
  /\ t.last_used = [s.last_used EXCEPT ![Victim(s, n)] = s.clock]
  /\ t.page_faults = s.page_faults + 1

\* One access in run_lru is one of the three.
LEMMA LruFields ==
  ASSUME NEW n \in Sizes, NEW s \in LruState(n), NEW page \in Pages
  PROVE  /\ LruAccess(s, n, page) \in LruState(n)
         /\ LruAccess(s, n, page).clock = s.clock + 1
         /\ \/ LruHit(s, n, page, LruAccess(s, n, page))
            \/ LruFill(s, n, page, LruAccess(s, n, page))
            \/ LruEvict(s, n, page, LruAccess(s, n, page))
  <1> DEFINE found == find_page(s.frames, page)
             tick == s.clock + 1
  <1>1. /\ n \in Nat \ {0} /\ s.frames \in [Frame(n) -> Pages \cup {NoPage}]
        /\ s.last_used \in [Frame(n) -> Nat \cup {-1}] /\ s.filled \in 0 .. n
        /\ s.clock \in Nat /\ tick \in Nat /\ s.page_faults + 1 \in Nat /\ s.page_hits + 1 \in Nat
    BY DEF LruState
  <1>2. \/ found \in Frame(n) /\ s.frames[found] = page /\ found # -1
        \/ found = -1 /\ \A f \in Frame(n) : s.frames[f] # page
    BY <1>1, FindPage
  <1>3. CASE found # -1
    <2> DEFINE u == [s.last_used EXCEPT ![found] = s.clock]
               k == s.page_hits + 1
               w == [s EXCEPT !.clock = tick, !.page_hits = k, !.last_used = u]
    <2>1. LruAccess(s, n, page) = w
      BY <1>3 DEF LruAccess, Hit, LruState
    <2>2. u \in [Frame(n) -> Nat \cup {-1}] /\ k \in Nat
      BY <1>1, <1>2, <1>3
    <2> HIDE DEF u, k, tick
    <2>3. /\ w \in LruState(n) /\ w.clock = tick /\ w.last_used = u /\ w.frames = s.frames
          /\ w.filled = s.filled /\ w.page_faults = s.page_faults
      BY <1>1, <2>2 DEF LruState
    <2> HIDE DEF w
    <2>4. QED
      BY <1>2, <1>3, <2>1, <2>3 DEF u, tick, LruHit
  <1>4. CASE found = -1 /\ s.filled < n
    <2> DEFINE g == [s.frames EXCEPT ![s.filled] = page]
               u == [s.last_used EXCEPT ![s.filled] = s.clock]
               c == s.filled + 1
               k == s.page_faults + 1
               w == [s EXCEPT !.clock = tick, !.page_faults = k, !.frames = g,
                              !.last_used = u, !.filled = c]
    <2>1. LruAccess(s, n, page) = w
      BY <1>4 DEF LruAccess, LruState
    <2>2. s.filled \in Frame(n) /\ c \in 0 .. n /\ k \in Nat
      BY <1>1, <1>4 DEF Frame
    <2>3. g \in [Frame(n) -> Pages \cup {NoPage}] /\ u \in [Frame(n) -> Nat \cup {-1}]
      BY <1>1, <2>2
    <2> HIDE DEF g, u, c, k, tick
    <2>4. /\ w \in LruState(n) /\ w.clock = tick /\ w.last_used = u /\ w.frames = g
          /\ w.filled = c /\ w.page_faults = k
      BY <1>1, <2>2, <2>3 DEF LruState
    <2> HIDE DEF w
    <2>5. QED
      BY <1>2, <1>4, <2>1, <2>4 DEF g, u, c, k, tick, LruFill
  <1>5. CASE found = -1 /\ ~(s.filled < n)
    <2> DEFINE v == Victim(s, n)
               g == [s.frames EXCEPT ![v] = page]
               u == [s.last_used EXCEPT ![v] = s.clock]
               k == s.page_faults + 1
               w == [s EXCEPT !.clock = tick, !.page_faults = k, !.frames = g, !.last_used = u]
    <2>1. LruAccess(s, n, page) = w
      BY <1>5 DEF LruAccess, LruState
    <2>2. s.filled = n /\ v \in Frame(n) /\ k \in Nat
      BY <1>1, <1>5, VictimIsOldest DEF Frame
    <2> HIDE DEF v
    <2>3. g \in [Frame(n) -> Pages \cup {NoPage}] /\ u \in [Frame(n) -> Nat \cup {-1}]
      BY <1>1, <2>2
    <2> HIDE DEF g, u, k, tick
    <2>4. /\ w \in LruState(n) /\ w.clock = tick /\ w.last_used = u /\ w.frames = g
          /\ w.filled = s.filled /\ w.page_faults = k
      BY <1>1, <2>2, <2>3 DEF LruState
    <2> HIDE DEF w
    <2>5. QED
      BY <1>2, <1>5, <2>1, <2>2, <2>4 DEF g, u, v, k, tick, LruEvict
  <1>6. QED
    BY <1>3, <1>4, <1>5

-----------------------------------------------------------------------------
(* The invariants of the two runs.                                         *)

\* The load that put its page into frame f.
LoadOf(s, f, L) ==
  IF f < s.fifo_queue_next THEN L - s.fifo_queue_next + f + 1
  ELSE L - s.fifo_queue_next - s.filled + f + 1

\* The frames of run_fifo are the last loads, from fifo_queue_next round.
FifoInv(n) ==
  LET s == fifo[n]
      L == Len(loads[n]) IN
  /\ s \in FifoState(n)
  /\ Table(n, s.frames, s.filled)
  /\ loads[n] \in Seq(Pages)
  /\ IF s.filled < n THEN s.fifo_queue_next = 0 /\ L = s.filled ELSE L >= n
  /\ \A f \in Frame(n) : f < s.filled => s.frames[f] = loads[n][LoadOf(s, f, L)]

\* Access i was the last one of rs to page p.
LastUse(rs, i, p) ==
  /\ i \in DOMAIN rs /\ rs[i] = p
  /\ \A j \in DOMAIN rs : rs[j] = p => j <= i

\* last_used is the time of the last access to the page in the frame, and a page
\* is not resident only if the frames are full of pages used after it.
LruInv(n) ==
  LET s == lru[n] IN
  /\ s \in LruState(n)
  /\ Table(n, s.frames, s.filled)
  /\ s.clock = Len(refs)
  /\ \A f \in Frame(n) : IF f < s.filled THEN LastUse(refs, s.last_used[f] + 1, s.frames[f])
                         ELSE s.last_used[f] = -1
  /\ \A j \in DOMAIN refs : (\A f \in Frame(n) : s.frames[f] # refs[j]) =>
       s.filled = n /\ \A f \in Frame(n) : j <= s.last_used[f]

Inv ==
  /\ refs \in Seq(Pages) /\ Len(refs) <= MaxRefs
  /\ \A n \in Sizes : FifoInv(n) /\ LruInv(n)

-----------------------------------------------------------------------------
\* Empty frames.
LEMMA InitInv == Init => Inv
  <1> SUFFICES ASSUME Init PROVE Inv
    OBVIOUS
  <1>1. refs \in Seq(Pages) /\ Len(refs) <= MaxRefs /\ DOMAIN refs = {}
    BY DEF Init
  <1>2. ASSUME NEW n \in Sizes PROVE FifoInv(n) /\ LruInv(n)
    <2>1. n \in Nat \ {0} /\ 0 \in Frame(n) /\ \A f \in Frame(n) : f \in Nat
      BY DEF Frame
    <2>2. /\ fifo[n] \in FifoState(n) /\ fifo[n].frames = [f \in Frame(n) |-> NoPage]
          /\ fifo[n].filled = 0 /\ fifo[n].fifo_queue_next = 0 /\ loads[n] = << >>
      BY <2>1 DEF Init, FifoState
    <2>3. /\ lru[n] \in LruState(n) /\ lru[n].frames = [f \in Frame(n) |-> NoPage]
          /\ lru[n].last_used = [f \in Frame(n) |-> -1]
          /\ lru[n].filled = 0 /\ lru[n].clock = 0
      BY <2>1 DEF Init, LruState
    <2>4. FifoInv(n)
      BY <2>1, <2>2 DEF FifoInv, Table
    <2>5. LruInv(n)
      BY <1>1, <2>1, <2>3 DEF LruInv, Table, Init
    <2>6. QED
      BY <2>4, <2>5
  <1>3. QED
    BY <1>1, <1>2 DEF Inv

\* A free frame that gets a new page, and a frame whose page is replaced by one.
LEMMA TableGrows ==
  ASSUME NEW n \in Sizes, NEW frames \in [Frame(n) -> Pages \cup {NoPage}], NEW filled \in 0 .. n,
         Table(n, frames, filled), NEW page \in Pages, \A f \in Frame(n) : frames[f] # page
  PROVE  /\ filled < n => Table(n, [frames EXCEPT ![filled] = page], filled + 1)
         /\ \A v \in Frame(n) : filled = n => Table(n, [frames EXCEPT ![v] = page], n)
  <1>1. page # NoPage /\ n \in Nat
    BY DEF NoPage
  <1>2. CASE filled < n
    <2>1. filled \in Frame(n)
      BY <1>1, <1>2 DEF Frame
    <2>2. QED
      BY <1>1, <1>2, <2>1 DEF Table, Frame
  <1>3. ASSUME NEW v \in Frame(n), filled = n PROVE Table(n, [frames EXCEPT ![v] = page], n)
    BY <1>1, <1>3 DEF Table, Frame
  <1>4. QED
    BY <1>2, <1>3

\* An access in run_fifo: on a fault the oldest load is overwritten by the newest.
LEMMA FifoStep ==
  ASSUME Inv, NEW p \in Pages, Access(p), NEW n \in Sizes
  PROVE  FifoInv(n)'
  <1> DEFINE s == fifo[n]
             t == FifoAccess(s, n, p)
             L == Len(loads[n])
  <1>1. /\ fifo'[n] = t
        /\ loads'[n] = IF find_page(s.frames, p) = -1 THEN Append(loads[n], p) ELSE loads[n]
    <2>1. address_to_page(build_address(p)) = p
      BY AddressOfPage
    <2>2. QED
      BY <2>1 DEF Access
  <1>2. /\ s \in FifoState(n) /\ Table(n, s.frames, s.filled) /\ loads[n] \in Seq(Pages)
        /\ IF s.filled < n THEN s.fifo_queue_next = 0 /\ L = s.filled ELSE L >= n
        /\ \A f \in Frame(n) : f < s.filled => s.frames[f] = loads[n][LoadOf(s, f, L)]
    BY DEF Inv, FifoInv
  <1>3. /\ n \in Nat \ {0} /\ s.frames \in [Frame(n) -> Pages \cup {NoPage}]
        /\ s.filled \in 0 .. n /\ s.fifo_queue_next \in Frame(n) /\ L \in Nat
        /\ \A f \in Frame(n) : f \in Nat /\ f < n
    <2>1. L \in Nat
      BY <1>2
    <2>2. n \in Nat \ {0} /\ \A f \in Frame(n) : f \in Nat /\ f < n
      BY DEF Frame
    <2>3. /\ s.frames \in [Frame(n) -> Pages \cup {NoPage}]
          /\ s.filled \in 0 .. n /\ s.fifo_queue_next \in Frame(n)
      BY <1>2 DEF FifoState
    <2>4. QED
      BY <2>1, <2>2, <2>3
  <1>4. \A x \in 1 .. L : Append(loads[n], p)[x] = loads[n][x]
    BY <1>2
  <1>5. Append(loads[n], p)[L + 1] = p /\ Len(Append(loads[n], p)) = L + 1
        /\ Append(loads[n], p) \in Seq(Pages)
    BY <1>2
  <1>6. t \in FifoState(n)
    BY <1>2, FifoFields
  <1> HIDE DEF s, t, L
  <1>7. CASE /\ t.frames = s.frames /\ t.filled = s.filled
             /\ t.fifo_queue_next = s.fifo_queue_next
             /\ find_page(s.frames, p) # -1
    BY <1>1, <1>2, <1>6, <1>7 DEF FifoInv, LoadOf, L
  <1>8. CASE /\ \A f \in Frame(n) : s.frames[f] # p
             /\ s.filled < n
             /\ t.frames = [s.frames EXCEPT ![s.filled] = p] /\ t.filled = s.filled + 1
             /\ t.fifo_queue_next = s.fifo_queue_next
             /\ find_page(s.frames, p) = -1
    <2>1. Table(n, t.frames, t.filled)
      BY <1>2, <1>3, <1>8, TableGrows
    <2>2. loads'[n] = Append(loads[n], p) /\ Len(loads'[n]) = L + 1
      BY <1>1, <1>5, <1>8
    <2>3. ASSUME NEW f \in Frame(n), f < t.filled
          PROVE  t.frames[f] = loads'[n][LoadOf(t, f, L + 1)]
      <3>1. LoadOf(t, f, L + 1) = f + 1 /\ L = s.filled
        BY <1>2, <1>3, <1>8 DEF LoadOf
      <3>2. CASE f = s.filled
        BY <1>3, <1>5, <1>8, <2>2, <3>1, <3>2
      <3>3. CASE f # s.filled
        <4>1. s.frames[f] = loads[n][LoadOf(s, f, L)] /\ LoadOf(s, f, L) = f + 1
          <5>1. f < s.filled /\ s.fifo_queue_next = 0
            BY <1>2, <1>3, <1>8, <2>3, <3>3
          <5>2. LoadOf(s, f, L) = f + 1
            BY <1>3, <3>1, <5>1 DEF LoadOf
          <5>3. QED
            BY <1>2, <5>1, <5>2
        <4>2. f + 1 \in 1 .. L
          BY <1>3, <1>8, <2>3, <3>1, <3>3
        <4>3. QED
          BY <1>3, <1>4, <1>8, <2>2, <3>1, <3>3, <4>1, <4>2
      <3>4. QED
        BY <3>2, <3>3
    <2>4. IF t.filled < n THEN t.fifo_queue_next = 0 /\ L + 1 = t.filled ELSE L + 1 >= n
      BY <1>2, <1>3, <1>8
    <2>5. QED
      BY <1>1, <1>5, <1>6, <2>1, <2>2, <2>3, <2>4 DEF FifoInv
  <1>9. CASE /\ \A f \in Frame(n) : s.frames[f] # p
             /\ s.filled = n /\ t.filled = n
             /\ t.frames = [s.frames EXCEPT ![s.fifo_queue_next] = p]
             /\ t.fifo_queue_next = IF s.fifo_queue_next + 1 = n THEN 0
                                    ELSE s.fifo_queue_next + 1
             /\ find_page(s.frames, p) = -1
    <2>1. Table(n, t.frames, t.filled)
      <3>1. Table(n, [s.frames EXCEPT ![s.fifo_queue_next] = p], n)
        BY <1>2, <1>3, <1>9, TableGrows
      <3>2. QED
        BY <1>9, <3>1
    <2>2. loads'[n] = Append(loads[n], p) /\ Len(loads'[n]) = L + 1
      BY <1>1, <1>5, <1>9
    <2>3. ASSUME NEW f \in Frame(n)
          PROVE  t.frames[f] = loads'[n][LoadOf(t, f, L + 1)]
      <3>1. CASE f = s.fifo_queue_next
        <4>1. LoadOf(t, f, L + 1) = L + 1
          BY <1>3, <1>9, <3>1 DEF LoadOf
        <4>2. QED
          BY <1>3, <1>5, <1>9, <2>2, <3>1, <4>1
      <3>2. CASE f # s.fifo_queue_next
        <4>1. LoadOf(t, f, L + 1) = LoadOf(s, f, L) /\ LoadOf(s, f, L) \in 1 .. L
          <5> DEFINE x == s.fifo_queue_next
          <5>1. x \in 0 .. n - 1 /\ f \in 0 .. n - 1 /\ L >= n /\ f # x
            BY <1>2, <1>3, <1>9, <3>2 DEF Frame
          <5>2. LoadOf(s, f, L) = IF f < x THEN L - x + f + 1 ELSE L - x - n + f + 1
            BY <1>9 DEF LoadOf
          <5>3. LoadOf(t, f, L + 1) =
                  IF x + 1 = n THEN (L + 1) - 0 - n + f + 1
                  ELSE IF f < x + 1 THEN (L + 1) - (x + 1) + f + 1
                  ELSE (L + 1) - (x + 1) - n + f + 1
            BY <1>9, <5>1 DEF LoadOf
          <5> HIDE DEF x
          <5>4. QED
            BY <1>3, <5>1, <5>2, <5>3
        <4>2. t.frames[f] = s.frames[f] /\ s.frames[f] = loads[n][LoadOf(s, f, L)]
          BY <1>2, <1>3, <1>9, <3>2
        <4>3. QED
          BY <1>4, <2>2, <4>1, <4>2
      <3>3. QED
        BY <3>1, <3>2
    <2>4. L + 1 >= n
      BY <1>2, <1>3, <1>9
    <2>5. ~(t.filled < n) /\ Len(loads'[n]) >= n
      BY <1>3, <1>9, <2>2, <2>4
    <2>6. QED
      BY <1>1, <1>5, <1>6, <2>1, <2>2, <2>3, <2>5 DEF FifoInv
  <1>10. QED
    BY <1>2, <1>7, <1>8, <1>9, FifoFields DEF s, t

\* An access in run_lru: the page becomes the one used last, and the page that
\* loses its frame was used before all those that keep theirs.
LEMMA LruStep ==
  ASSUME Inv, NEW p \in Pages, Access(p), NEW n \in Sizes
  PROVE  LruInv(n)'
  <1> DEFINE s == lru[n]
             t == LruAccess(s, n, p)
             L == Len(refs)
  <1>1. lru'[n] = t /\ refs' = Append(refs, p)
    <2>1. address_to_page(build_address(p)) = p
      BY AddressOfPage
    <2>2. QED
      BY <2>1 DEF Access
  <1>2. /\ s \in LruState(n) /\ Table(n, s.frames, s.filled) /\ s.clock = L
        /\ \A f \in Frame(n) : IF f < s.filled THEN LastUse(refs, s.last_used[f] + 1, s.frames[f])
                               ELSE s.last_used[f] = -1
        /\ \A j \in DOMAIN refs : (\A f \in Frame(n) : s.frames[f] # refs[j]) =>
             s.filled = n /\ \A f \in Frame(n) : j <= s.last_used[f]
    BY DEF Inv, LruInv
  <1>3. /\ n \in Nat \ {0} /\ L \in Nat /\ DOMAIN refs = 1 .. L
        /\ \A f \in Frame(n) : f \in Nat /\ f < n
    BY DEF Inv, Frame
  <1>4. /\ s.frames \in [Frame(n) -> Pages \cup {NoPage}] /\ s.filled \in 0 .. n
        /\ s.last_used \in [Frame(n) -> Nat \cup {-1}]
    BY <1>2 DEF LruState
  <1>5. /\ Len(refs') = L + 1 /\ DOMAIN refs' = 1 .. L + 1 /\ refs'[L + 1] = p
        /\ \A j \in 1 .. L : refs'[j] = refs[j]
    BY <1>1, <1>3 DEF Inv
  <1>6. /\ Victim(s, n) \in Frame(n)
        /\ \A g \in Frame(n) : s.last_used[Victim(s, n)] <= s.last_used[g]
    BY <1>2, VictimIsOldest
  <1>7. /\ t \in LruState(n) /\ t.clock = s.clock + 1
        /\ LruHit(s, n, p, t) \/ LruFill(s, n, p, t) \/ LruEvict(s, n, p, t)
    BY <1>2, LruFields
  <1> HIDE DEF s, t, L
  <1>8. t \in LruState(n) /\ t.clock = L + 1
    BY <1>2, <1>7
  \* The page is now the one used last; the last use of any other stays.
  <1>9. LastUse(refs', L + 1, p)
    BY <1>3, <1>5 DEF LastUse
  <1>10. ASSUME NEW k, NEW q, q # p, LastUse(refs, k, q) PROVE LastUse(refs', k, q)
    BY <1>3, <1>5, <1>10 DEF LastUse
  \* A frame f0 takes the page, or has it, and the others stay as they are.
  <1> DEFINE Takes(f0) ==
        /\ t.last_used = [s.last_used EXCEPT ![f0] = L]
        /\ t.frames = [s.frames EXCEPT ![f0] = p]
        /\ \A f \in Frame(n) : f # f0 => s.frames[f] # p
        /\ Table(n, t.frames, t.filled) /\ f0 < t.filled
        /\ \A f \in Frame(n) : f # f0 => (f < t.filled <=> f < s.filled)
        /\ \/ t.filled = s.filled
           \/ t.filled = s.filled + 1 /\ s.filled < n
        /\ s.frames[f0] \notin {p, NoPage} =>
             s.filled = n /\ \A g \in Frame(n) : s.last_used[f0] <= s.last_used[g]
  <1>11. ASSUME NEW f0 \in Frame(n), Takes(f0) PROVE LruInv(n)'
    <2>1. ASSUME NEW f \in Frame(n)
          PROVE  IF f < t.filled THEN LastUse(refs', t.last_used[f] + 1, t.frames[f])
                 ELSE t.last_used[f] = -1
      <3>1. CASE f = f0
        <4>1. t.last_used[f] + 1 = L + 1 /\ t.frames[f] = p
          BY <1>4, <1>11, <3>1
        <4>2. QED
          BY <1>1, <1>9, <1>11, <3>1, <4>1
      <3>2. CASE f # f0
        <4>1. t.last_used[f] = s.last_used[f] /\ t.frames[f] = s.frames[f] /\ s.frames[f] # p
          BY <1>4, <1>11, <3>2
        <4>2. QED
          BY <1>2, <1>10, <1>11, <3>2, <4>1
      <3>3. QED
        BY <3>1, <3>2
    <2>2. ASSUME NEW j \in DOMAIN refs', \A f \in Frame(n) : t.frames[f] # refs'[j]
          PROVE  t.filled = n /\ \A f \in Frame(n) : j <= t.last_used[f]
      <3>1. j \in 1 .. L /\ refs'[j] = refs[j] /\ refs[j] # p
        <4>1. t.frames[f0] = p
          BY <1>4, <1>11
        <4>2. QED
          BY <1>3, <1>5, <2>2, <4>1
      <3>2. \A f \in Frame(n) : f # f0 => s.frames[f] # refs[j]
        BY <1>4, <1>11, <2>2, <3>1
      <3>3. CASE s.frames[f0] # refs[j]
        <4>1. s.filled = n /\ \A f \in Frame(n) : j <= s.last_used[f]
          BY <1>2, <1>3, <3>1, <3>2, <3>3
        <4>2. QED
          BY <1>3, <1>4, <1>11, <3>1, <4>1
      <3>4. CASE s.frames[f0] = refs[j]
        <4>1. s.frames[f0] \notin {p, NoPage}
          <5>1. refs[j] \in Pages
            BY <1>3, <3>1 DEF Inv
          <5>2. QED
            BY <3>1, <3>4, <5>1 DEF NoPage
        <4>2. s.filled = n /\ t.filled = n
          BY <1>3, <1>11, <4>1
        <4>3. ASSUME NEW g \in Frame(n) PROVE j <= t.last_used[g]
          <5>1. CASE g = f0
            BY <1>3, <1>4, <1>11, <3>1, <5>1
          <5>2. CASE g # f0
            <6>1. /\ LastUse(refs, s.last_used[f0] + 1, s.frames[f0])
                  /\ LastUse(refs, s.last_used[g] + 1, s.frames[g])
              BY <1>2, <1>3, <4>2
            <6>2. s.frames[g] # s.frames[f0]
              BY <3>2, <3>4, <5>2
            <6>3. j <= s.last_used[f0] + 1 /\ s.last_used[f0] # s.last_used[g]
              BY <1>3, <3>1, <3>4, <6>1, <6>2 DEF LastUse
            <6>4. s.last_used[f0] <= s.last_used[g]
              BY <1>11, <4>1
            <6>5. t.last_used[g] = s.last_used[g]
              BY <1>4, <1>11, <5>2
            <6>6. s.last_used[f0] \in Int /\ s.last_used[g] \in Int
              BY <1>4
            <6>7. QED
              BY <3>1, <6>3, <6>4, <6>5, <6>6
          <5>3. QED
            BY <5>1, <5>2
        <4>4. QED
          BY <4>2, <4>3
      <3>5. QED
        BY <3>3, <3>4
    <2>3. QED
      BY <1>1, <1>5, <1>8, <1>11, <2>1, <2>2 DEF LruInv

  <1>12. CASE /\ \E f \in Frame(n) : /\ s.frames[f] = p
                                     /\ t.last_used = [s.last_used EXCEPT ![f] = L]
              /\ t.frames = s.frames /\ t.filled = s.filled
    <2>1. PICK f0 \in Frame(n) : /\ s.frames[f0] = p
                                 /\ t.last_used = [s.last_used EXCEPT ![f0] = L]
      BY <1>12
    <2>2. p # NoPage
      BY DEF NoPage
    <2>3. \A f \in Frame(n) : f # f0 => s.frames[f] # p
      BY <1>2, <2>1, <2>2 DEF Table
    <2>4. f0 < t.filled
      BY <1>2, <1>3, <1>4, <1>12, <2>1, <2>2 DEF Table
    <2>5. t.frames = [s.frames EXCEPT ![f0] = p]
      BY <1>4, <1>12, <2>1
    <2>6. Table(n, t.frames, t.filled) /\ t.filled = s.filled
      BY <1>2, <1>12
    <2>7. /\ \A f \in Frame(n) : f # f0 => (f < t.filled <=> f < s.filled)
          /\ t.filled = s.filled
          /\ s.frames[f0] \in {p, NoPage}
      BY <2>1, <2>6
    <2>8. Takes(f0)
      BY <2>1, <2>3, <2>4, <2>5, <2>6, <2>7
    <2>9. QED
      BY <1>11, <2>8
  <1>13. CASE /\ \A f \in Frame(n) : s.frames[f] # p
              /\ s.filled < n /\ t.filled = s.filled + 1
              /\ t.frames = [s.frames EXCEPT ![s.filled] = p]
              /\ t.last_used = [s.last_used EXCEPT ![s.filled] = L]
    <2>1. s.filled \in Frame(n)
      BY <1>3, <1>4, <1>13 DEF Frame
    <2>2. Table(n, t.frames, t.filled)
      BY <1>2, <1>4, <1>13, TableGrows
    <2>3. s.frames[s.filled] = NoPage
      BY <1>2, <1>4, <2>1 DEF Table
    <2>4. s.filled < t.filled /\ \A f \in Frame(n) : f # s.filled => (f < t.filled <=> f < s.filled)
      BY <1>3, <1>4, <1>13
    <2>5. Takes(s.filled)
      BY <1>13, <2>2, <2>3, <2>4
    <2>6. QED
      BY <1>11, <2>1, <2>5
  <1>14. CASE /\ \A f \in Frame(n) : s.frames[f] # p
              /\ s.filled = n /\ t.filled = n
              /\ t.frames = [s.frames EXCEPT ![Victim(s, n)] = p]
              /\ t.last_used = [s.last_used EXCEPT ![Victim(s, n)] = L]
    <2>1. Table(n, [s.frames EXCEPT ![Victim(s, n)] = p], n)
      BY <1>2, <1>4, <1>6, <1>14, TableGrows
    <2>2. Table(n, t.frames, t.filled)
      BY <1>14, <2>1
    <2>3. \A f \in Frame(n) : f < t.filled /\ f < s.filled
      BY <1>3, <1>14
    <2>4. Takes(Victim(s, n))
      <3> DEFINE v == Victim(s, n)
      <3>1. /\ t.last_used = [s.last_used EXCEPT ![v] = L] /\ t.frames = [s.frames EXCEPT ![v] = p]
            /\ \A f \in Frame(n) : s.frames[f] # p
            /\ t.filled = s.filled /\ s.filled = n
        BY <1>14
      <3>2. v \in Frame(n) /\ \A g \in Frame(n) : s.last_used[v] <= s.last_used[g]
        BY <1>6
      <3> HIDE DEF v
      <3>3. Takes(v)
        BY <2>2, <2>3, <3>1, <3>2
      <3>4. QED
        BY <3>3 DEF v
    <2>5. QED
      BY <1>6, <1>11, <2>4
  <1>15. QED
    <2>1. s.clock = L
      BY <1>2
    <2>2. QED
      BY <1>12, <1>13, <1>14, <1>7, <2>1 DEF LruHit, LruFill, LruEvict

\* The invariant holds in every reachable state.
THEOREM Invariance == Spec => []Inv
  <1>1. Inv /\ [Next]_vars => Inv'
    <2> SUFFICES ASSUME Inv, [Next]_vars PROVE Inv'
      OBVIOUS
    <2>1. ASSUME NEW p \in Pages, Access(p) PROVE Inv'
      <3>1. refs' \in Seq(Pages) /\ Len(refs') <= MaxRefs
        BY <2>1 DEF Inv, Access
      <3>2. QED
        BY <2>1, <3>1, FifoStep, LruStep DEF Inv
    <2>2. CASE UNCHANGED vars
      BY <2>2 DEF vars, Inv, FifoInv, LruInv, LastUse
    <2>3. QED
      BY <2>1, <2>2 DEF Next, Done
  <1>2. QED
    BY InitInv, <1>1, PTL DEF Spec

\* Type correctness: no subscript leaves the frames of its run.
THEOREM TypeCorrect == Spec => []TypeOK
  <1>1. Inv => TypeOK
    <2> SUFFICES ASSUME Inv PROVE TypeOK
      OBVIOUS
    <2>1. ASSUME NEW n \in Sizes
          PROVE  /\ fifo[n].frames \in [Frame(n) -> Pages \cup {NoPage}]
                 /\ fifo[n].fifo_queue_next \in Frame(n)
                 /\ fifo[n].filled \in 0 .. n
                 /\ lru[n].frames \in [Frame(n) -> Pages \cup {NoPage}]
                 /\ lru[n].filled \in 0 .. n
      BY DEF Inv, FifoInv, LruInv, FifoState, LruState
    <2>2. ASSUME NEW n \in Sizes PROVE lru[n].last_used \in [Frame(n) -> -1 .. MaxRefs]
      <3>1. lru[n].last_used \in [Frame(n) -> Nat \cup {-1}]
        BY DEF Inv, LruInv, LruState
      <3>2. Len(refs) \in Nat /\ DOMAIN refs = 1 .. Len(refs) /\ Len(refs) <= MaxRefs
        BY DEF Inv
      <3>3. \A f \in Frame(n) : lru[n].last_used[f] = -1 \/ lru[n].last_used[f] + 1 \in DOMAIN refs
        BY DEF Inv, LruInv, LastUse
      <3>4. \A f \in Frame(n) : lru[n].last_used[f] \in -1 .. MaxRefs
        BY <3>1, <3>2, <3>3
      <3>5. QED
        BY <3>1, <3>4
    <2>3. QED
      BY <2>1, <2>2 DEF Inv, TypeOK
  <1>2. QED
    BY <1>1, Invariance, PTL

\* Neither algorithm ever has a page in two frames, and the occupied frames are
\* the first `filled` ones.
THEOREM NoDuplicatesCorrect == Spec => []NoDuplicates
  <1>1. Inv => NoDuplicates
    BY DEF Inv, FifoInv, LruInv, Table, NoDuplicates
  <1>2. QED
    BY <1>1, Invariance, PTL

\* run_fifo evicts the oldest loaded page: what it keeps are the last loads.
THEOREM FifoKeepsLastLoadedCorrect == Spec => []FifoKeepsLastLoaded
  <1>1. Inv => FifoKeepsLastLoaded
    <2> SUFFICES ASSUME Inv, NEW n \in Sizes
                 PROVE  Resident(fifo[n]) =
                          {loads[n][i] : i \in {j \in DOMAIN loads[n] : j > Len(loads[n]) - n}}
      BY DEF FifoKeepsLastLoaded
    <2> DEFINE s == fifo[n]
               L == Len(loads[n])
               x == s.fifo_queue_next
    <2>1. /\ s \in FifoState(n) /\ Table(n, s.frames, s.filled) /\ loads[n] \in Seq(Pages)
          /\ IF s.filled < n THEN x = 0 /\ L = s.filled ELSE L >= n
          /\ \A f \in Frame(n) : f < s.filled => s.frames[f] = loads[n][LoadOf(s, f, L)]
      BY DEF Inv, FifoInv
    <2>2. /\ n \in Nat \ {0} /\ s.frames \in [Frame(n) -> Pages \cup {NoPage}]
          /\ s.filled \in 0 .. n /\ x \in 0 .. n - 1
      BY <2>1 DEF FifoState, Frame
    <2>3. L \in Nat /\ DOMAIN loads[n] = 1 .. L
      BY <2>1
    <2>4. Resident(s) = {s.frames[f] : f \in {g \in Frame(n) : g < s.filled}}
      BY <2>1, <2>2 DEF Resident, Table, Frame
    <2>5. /\ n \in Nat \ {0} /\ L \in Nat /\ s.filled \in 0 .. n /\ x \in 0 .. n - 1
          /\ IF s.filled < n THEN x = 0 /\ L = s.filled ELSE L >= n
      BY <2>1, <2>2, <2>3
    <2>6. ASSUME NEW f \in Frame(n), f < s.filled
          PROVE  LoadOf(s, f, L) \in 1 .. L /\ LoadOf(s, f, L) > L - n
      <3>1. LoadOf(s, f, L) = IF f < x THEN L - x + f + 1 ELSE L - x - s.filled + f + 1
        BY DEF LoadOf
      <3>2. f \in 0 .. n - 1
        BY DEF Frame
      <3> HIDE DEF s, L, x
      <3>3. QED
        BY <2>6, <2>5, <3>1, <3>2
    <2>7. ASSUME NEW i \in 1 .. L, i > L - n
          PROVE  \E f \in Frame(n) : f < s.filled /\ LoadOf(s, f, L) = i
      <3> DEFINE f == IF i > L - x THEN i - L + x - 1 ELSE i - L + x + s.filled - 1
      <3>1. f \in Frame(n) /\ f < s.filled /\ LoadOf(s, f, L) = i
        <4>1. f \in 0 .. n - 1 /\ f < s.filled
          <5> HIDE DEF s, L, x
          <5>1. QED
            BY <2>7, <2>5
        <4>2. LoadOf(s, f, L) = IF f < x THEN L - x + f + 1 ELSE L - x - s.filled + f + 1
          BY DEF LoadOf
        <4> HIDE DEF s, L, x
        <4>3. QED
          BY <2>7, <2>5, <4>1, <4>2 DEF Frame
      <3>2. QED
        BY <3>1
    <2> HIDE DEF s, L, x
    <2>8. QED
      BY <2>1, <2>3, <2>4, <2>6, <2>7 DEF s, L
  <1>2. QED
    BY <1>1, Invariance, PTL

-----------------------------------------------------------------------------
(* LRU keeps the most recently used pages.                                 *)

\* A page that was accessed was accessed a last time, and Max finds that access.
LEMMA LastAccess ==
  ASSUME NEW rs \in Seq(Pages), NEW p, \E i \in DOMAIN rs : rs[i] = p
  PROVE  LastUse(rs, Max({i \in DOMAIN rs : rs[i] = p}), p)
  <1> DEFINE at == {i \in DOMAIN rs : rs[i] = p}
             L == Len(rs)
             left == {L - i : i \in at}
  <1>1. L \in Nat /\ at \subseteq 1 .. L /\ at # {}
    OBVIOUS
  <1>2. left \in SUBSET Nat /\ left # {}
    BY <1>1
  <1>3. Min(left) \in left /\ \A y \in left : Min(left) <= y
    BY <1>2, MinOfNaturals
  <1>4. PICK i \in at : Min(left) = L - i
    BY <1>3
  <1>5. \A j \in at : L - i <= L - j
    <2> TAKE j \in at
    <2>1. L - j \in left
      OBVIOUS
    <2>2. QED
      BY <1>4, <1>3, <2>1
  <1> HIDE DEF L, left
  <1>6. \A j \in at : i >= j
    BY <1>1, <1>5
  <1> HIDE DEF at
  <1>7. Max(at) \in at /\ \A j \in at : Max(at) >= j
    BY <1>6 DEF Max
  <1>8. QED
    BY <1>1, <1>7 DEF at, LastUse

\* A page has one last use.
LEMMA LastUseUnique ==
  ASSUME NEW rs \in Seq(Pages), NEW p, NEW i, NEW j, LastUse(rs, i, p), LastUse(rs, j, p)
  PROVE  i = j
  BY DEF LastUse

\* A table has as many pages as occupied frames.
LEMMA TableSize ==
  ASSUME NEW n \in Sizes, NEW s, s.frames \in [Frame(n) -> Pages \cup {NoPage}],
         s.filled \in 0 .. n, Table(n, s.frames, s.filled)
  PROVE  /\ IsFiniteSet(Resident(s)) /\ Cardinality(Resident(s)) = s.filled
         /\ Resident(s) = {s.frames[f] : f \in {g \in Frame(n) : g < s.filled}}
  <1> DEFINE D == 0 .. s.filled - 1
             R == Resident(s)
             h == [f \in D |-> s.frames[f]]
  <1>1. n \in Nat \ {0} /\ D = {g \in Frame(n) : g < s.filled}
    BY DEF Frame
  <1>2. IsFiniteSet(D) /\ Cardinality(D) = s.filled
    <2>1. \A a, b \in Int : /\ IsFiniteSet(a .. b)
                            /\ Cardinality(a .. b) = IF a > b THEN 0 ELSE b - a + 1
      BY FS_Interval
    <2>2. 0 \in Int /\ s.filled - 1 \in Int /\ s.filled \in Nat
      BY <1>1
    <2>3. /\ IsFiniteSet(0 .. s.filled - 1)
          /\ Cardinality(0 .. s.filled - 1) = IF 0 > s.filled - 1 THEN 0 ELSE s.filled - 1 - 0 + 1
      BY <2>1, <2>2, Zenon
    <2>4. QED
      BY <2>2, <2>3
  <1>3. R = {s.frames[f] : f \in D}
    BY <1>1 DEF Resident, Table, Frame
  <1>4. \A f, g \in D : s.frames[f] = s.frames[g] => f = g
    BY <1>1 DEF Table, Frame
  <1> HIDE DEF D, R
  <1>5. h \in Bijection(D, R)
    BY <1>3, <1>4 DEF Bijection, Injection, Surjection, IsInjective
  <1>6. IsFiniteSet(R) /\ Cardinality(R) = Cardinality(D)
    BY <1>2, <1>5, FS_Bijection DEF ExistsBijection
  <1>7. QED
    BY <1>1, <1>2, <1>3, <1>6 DEF R

\* The pages used after page p.
Later(p) == {q \in Seen : Max({i \in DOMAIN refs : refs[i] = q}) >
                          Max({i \in DOMAIN refs : refs[i] = p})}

\* What the frames of run_lru hold.
LEMMA MostRecent ==
  ASSUME Inv, NEW n \in Sizes
  PROVE  /\ \A p : Cardinality(Later(p)) \in Nat
         /\ Resident(lru[n]) = {p \in Seen : Cardinality(Later(p)) < n}
  <1> DEFINE s == lru[n]
             R == Resident(s)
             last(p) == Max({i \in DOMAIN refs : refs[i] = p})
  <1>1. /\ s \in LruState(n) /\ Table(n, s.frames, s.filled)
        /\ \A f \in Frame(n) : IF f < s.filled THEN LastUse(refs, s.last_used[f] + 1, s.frames[f])
                               ELSE s.last_used[f] = -1
        /\ \A j \in DOMAIN refs : (\A f \in Frame(n) : s.frames[f] # refs[j]) =>
             s.filled = n /\ \A f \in Frame(n) : j <= s.last_used[f]
    BY DEF Inv, LruInv
  <1>2. /\ refs \in Seq(Pages) /\ Len(refs) \in Nat /\ DOMAIN refs = 1 .. Len(refs)
        /\ n \in Nat \ {0} /\ \A f \in Frame(n) : f \in Nat /\ f < n
    BY DEF Inv, Frame
  <1>3. /\ s.frames \in [Frame(n) -> Pages \cup {NoPage}] /\ s.filled \in 0 .. n
        /\ s.last_used \in [Frame(n) -> Nat \cup {-1}]
    BY <1>1 DEF LruState
  <1>4. /\ IsFiniteSet(R) /\ Cardinality(R) = s.filled
        /\ R = {s.frames[f] : f \in {g \in Frame(n) : g < s.filled}}
    BY <1>1, <1>3, TableSize
  <1>5. IsFiniteSet(Seen)
    <2> DEFINE h == [i \in 1 .. Len(refs) |-> refs[i]]
    <2>1. h \in Surjection(1 .. Len(refs), Seen)
      BY <1>2 DEF Seen, Surjection
    <2>2. IsFiniteSet(1 .. Len(refs))
      BY <1>2, FS_Interval
    <2>3. QED
      BY <2>1, <2>2, FS_Surjection
  <1>6. ASSUME NEW p PROVE IsFiniteSet(Later(p)) /\ Cardinality(Later(p)) \in Nat
    <2>1. Later(p) \in SUBSET Seen
      BY DEF Later
    <2>2. QED
      BY <1>5, <2>1, FS_Subset, FS_CardinalityType
  <1>7. ASSUME NEW p \in Seen PROVE LastUse(refs, last(p), p) /\ last(p) \in 1 .. Len(refs)
    BY <1>2, LastAccess DEF Seen, LastUse
  <1>8. \A q : Later(q) = {r \in Seen : last(r) > last(q)}
    BY DEF Later
  <1> HIDE DEF s, last
  <1>9. ASSUME NEW f \in Frame(n), f < s.filled
        PROVE  s.frames[f] \in Seen /\ last(s.frames[f]) = s.last_used[f] + 1
    <2>1. LastUse(refs, s.last_used[f] + 1, s.frames[f])
      BY <1>1, <1>9
    <2>2. s.frames[f] \in Seen
      BY <2>1 DEF LastUse, Seen
    <2>3. QED
      BY <1>2, <1>7, <2>1, <2>2, LastUseUnique
  \* A resident page is followed by fewer than n others, which are resident too.
  <1>10. ASSUME NEW p \in R PROVE p \in Seen /\ Cardinality(Later(p)) < n
    <2>1. PICK f \in Frame(n) : f < s.filled /\ s.frames[f] = p
      BY <1>4
    <2>2. p \in Seen /\ last(p) = s.last_used[f] + 1
      BY <1>9, <2>1
    <2>3. ASSUME NEW q \in Later(p) PROVE q \in R \ {p}
      <3>1. q \in Seen /\ last(q) > last(p)
        BY <1>8
      <3>2. last(q) \in DOMAIN refs /\ refs[last(q)] = q /\ last(q) \in Int
        BY <1>2, <1>7, <3>1 DEF LastUse
      <3>3. q # p
        BY <2>2, <1>7, <3>1
      <3>4. ~(last(q) <= s.last_used[f])
        BY <1>3, <2>2, <3>1, <3>2
      <3>5. PICK g \in Frame(n) : s.frames[g] = q
        BY <1>1, <3>2, <3>4
      <3>6. q \in Pages
        BY <1>2, <3>2
      <3>7. g < s.filled
        BY <1>1, <1>2, <1>3, <3>5, <3>6 DEF Table, NoPage
      <3>8. QED
        BY <1>4, <3>3, <3>5, <3>7
    <2>4. Cardinality(Later(p)) <= Cardinality(R \ {p})
      <3>1. Later(p) \in SUBSET (R \ {p}) /\ IsFiniteSet(R \ {p})
        BY <1>4, <2>3, FS_RemoveElement
      <3>2. QED
        BY <3>1, FS_Subset
    <2>5. Cardinality(R \ {p}) = s.filled - 1
      BY <1>4, FS_RemoveElement
    <2>6. Cardinality(Later(p)) \in Nat
      BY <1>6
    <2>7. QED
      BY <1>2, <1>3, <2>2, <2>4, <2>5, <2>6
  \* Any other page that was seen is followed by all n resident ones.
  <1>11. ASSUME NEW p \in Seen, p \notin R PROVE ~(Cardinality(Later(p)) < n)
    <2>1. last(p) \in DOMAIN refs /\ refs[last(p)] = p /\ last(p) \in Int /\ p \in Pages
      BY <1>2, <1>7 DEF LastUse
    <2>2. \A f \in Frame(n) : s.frames[f] # p
      BY <1>1, <1>2, <1>3, <1>4, <1>11, <2>1 DEF Table, NoPage
    <2>3. s.filled = n /\ \A f \in Frame(n) : last(p) <= s.last_used[f]
      BY <1>1, <2>1, <2>2
    <2>4. ASSUME NEW q \in R PROVE q \in Later(p)
      <3>1. PICK f \in Frame(n) : f < s.filled /\ s.frames[f] = q
        BY <1>4
      <3>2. q \in Seen /\ last(q) = s.last_used[f] + 1
        BY <1>9, <3>1
      <3>3. s.last_used[f] \in Int /\ last(p) <= s.last_used[f]
        BY <1>3, <2>3
      <3>4. last(q) > last(p)
        BY <2>1, <3>2, <3>3
      <3>5. QED
        BY <1>8, <3>2, <3>4
    <2>5. Cardinality(R) <= Cardinality(Later(p))
      <3>1. R \in SUBSET Later(p) /\ IsFiniteSet(Later(p))
        BY <1>6, <2>4
      <3>2. QED
        BY <3>1, FS_Subset
    <2>6. QED
      BY <1>2, <1>4, <1>6, <2>3, <2>5
  <1>12. R = {p \in Seen : Cardinality(Later(p)) < n}
    BY <1>10, <1>11
  <1>13. QED
    BY <1>6, <1>12 DEF s

\* run_lru keeps the num_frames most recently used pages.
THEOREM LruKeepsMostRecentCorrect == Spec => []LruKeepsMostRecent
  <1>1. Inv => LruKeepsMostRecent
    BY MostRecent DEF LruKeepsMostRecent, Later
  <1>2. QED
    BY <1>1, Invariance, PTL

-----------------------------------------------------------------------------
(* LRU with more frames.                                                   *)

\* With more frames LRU keeps every page it keeps with fewer.
LEMMA Inclusion ==
  ASSUME Inv, NEW m \in Sizes, NEW n \in Sizes, m < n
  PROVE  Resident(lru[m]) \subseteq Resident(lru[n])
  <1>1. /\ Resident(lru[m]) = {p \in Seen : Cardinality(Later(p)) < m}
        /\ Resident(lru[n]) = {p \in Seen : Cardinality(Later(p)) < n}
        /\ \A p : Cardinality(Later(p)) \in Nat
    BY MostRecent
  <1>2. QED
    BY <1>1

\* The number of faults grows by one exactly when the page is not resident.
LEMMA FaultStep ==
  ASSUME Inv, NEW p \in Pages, Access(p), NEW n \in Sizes
  PROVE  /\ lru[n].page_faults \in Nat
         /\ p \in Resident(lru[n]) => lru'[n].page_faults = lru[n].page_faults
         /\ p \notin Resident(lru[n]) => lru'[n].page_faults = lru[n].page_faults + 1
  <1> DEFINE s == lru[n]
             t == LruAccess(s, n, p)
  <1>1. lru'[n] = t
    <2>1. address_to_page(build_address(p)) = p
      BY AddressOfPage
    <2>2. QED
      BY <2>1 DEF Access
  <1>2. s \in LruState(n)
    BY DEF Inv, LruInv
  <1>3. LruHit(s, n, p, t) \/ LruFill(s, n, p, t) \/ LruEvict(s, n, p, t)
    BY <1>2, LruFields
  <1> HIDE DEF s, t
  <1>4. s.page_faults \in Nat /\ DOMAIN s.frames = Frame(n)
    BY <1>2 DEF LruState
  <1>5. p \in Resident(s) <=> \E f \in Frame(n) : s.frames[f] = p
    BY <1>4 DEF Resident, NoPage
  <1>6. QED
    BY <1>1, <1>3, <1>4, <1>5 DEF LruHit, LruFill, LruEvict, s

\* More frames have not led to more faults so far.
NoMoreFaults == \A m, n \in Sizes : m < n => lru[n].page_faults <= lru[m].page_faults

\* LRU has no Belady anomaly: a page that faults with more frames faults with
\* fewer as well.
THEOREM LruNoAnomalyCorrect == Spec => []LruNoAnomaly
  <1>1. Init => NoMoreFaults
    BY DEF Init, NoMoreFaults
  <1>2. Inv /\ NoMoreFaults /\ [Next]_vars => NoMoreFaults'
    <2> SUFFICES ASSUME Inv, NoMoreFaults, [Next]_vars PROVE NoMoreFaults'
      OBVIOUS
    <2>1. ASSUME NEW p \in Pages, Access(p) PROVE NoMoreFaults'
      <3> SUFFICES ASSUME NEW m \in Sizes, NEW n \in Sizes, m < n
                   PROVE  lru'[n].page_faults <= lru'[m].page_faults
        BY DEF NoMoreFaults
      <3>1. lru[n].page_faults <= lru[m].page_faults
        BY DEF NoMoreFaults
      <3>2. p \notin Resident(lru[n]) => p \notin Resident(lru[m])
        BY Inclusion
      <3>3. \A k \in Sizes :
              /\ lru[k].page_faults \in Nat
              /\ p \in Resident(lru[k]) => lru'[k].page_faults = lru[k].page_faults
              /\ p \notin Resident(lru[k]) => lru'[k].page_faults = lru[k].page_faults + 1
        BY <2>1, FaultStep
      <3>4. QED
        BY <3>1, <3>2, <3>3
    <2>2. CASE UNCHANGED vars
      BY <2>2 DEF vars, NoMoreFaults
    <2>3. QED
      BY <2>1, <2>2 DEF Next, Done
  <1>3. Inv /\ NoMoreFaults => LruNoAnomaly
    BY Inclusion DEF NoMoreFaults, LruNoAnomaly
  <1>4. QED
    BY <1>1, <1>2, <1>3, Invariance, PTL DEF Spec

=============================================================================
