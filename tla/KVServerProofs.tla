--------------------------- MODULE KVServerProofs ---------------------------
(***************************************************************************)
(* The store and the sessions of KVServer, for any number of connections,  *)
(* slots and lines: no key is in two slots, a scan of store_put is never   *)
(* out of date, a session that used up its AUTH attempts is over, and the  *)
(* slots, the lock and the threads implement the atomic map of KVMap.      *)
(***************************************************************************)
EXTENDS KVServer, TLAPS, SequenceTheorems, FiniteSetTheorems, WellFoundedInduction

USE NoOneAssumption

Entry == [used : BOOLEAN, key : Words, value : Seq(Words)]

\* The types of what the invariants below speak about.
StoreTypes ==
  /\ store \in [Slot -> Entry]
  /\ store_lock \in Conn \cup {NoOne}
  /\ spc \in [Conn -> {"none", "recv", "put", "send", "closed"}]
  /\ req \in [Conn -> Lines \cup {NoLine}]
  /\ slot \in [Conn -> Slot \cup {NoSlot}]
  /\ after \in [Conn -> {"recv", "closed"}]
  /\ toServer \in [Conn -> Seq(Lines)]

\* A thread holds store_lock exactly while it is between the two halves of
\* store_put.
LockInv == \A c \in Conn : spc[c] = "put" <=> store_lock = c

\* The inductive invariant of the store.
StoreInv == StoreTypes /\ LockInv /\ UniqueKeys /\ ScanStillValid

-----------------------------------------------------------------------------
(* Facts about the operators.                                              *)

\* A set of slots that is not empty has a first one.
LEMMA FirstInSet ==
  ASSUME NEW S \in SUBSET Slot, S # {}
  PROVE  Min(S) \in S /\ \A y \in S : Min(S) =< y
  <1>1. S \subseteq Nat
    BY DEF Slot
  <1>2. PICK x \in S : \A y \in S : ~(<<y, x>> \in OpToRel(<, Nat))
    BY <1>1, NatLessThanWellFounded, WFMin
  <1>3. \A y \in S : x =< y
    <2> TAKE y \in S
    <2>1. x \in Nat /\ y \in Nat
      BY <1>1
    <2>2. ~(y < x)
      BY <1>2, <2>1 DEF OpToRel
    <2>3. QED
      BY <2>1, <2>2
  <1>4. QED
    BY <1>3 DEF Min

\* In particular it is one of them.
LEMMA MinInSet ==
  ASSUME NEW S \in SUBSET Slot, S # {}
  PROVE  Min(S) \in S
  BY FirstInSet

\* The key and the value that sscanf leaves have their types.
LEMMA ArgTypes ==
  ASSUME NEW l \in Lines \cup {NoLine}
  PROVE  arg1(l) \in Words /\ arg2(l) \in Seq(Words)
  <1>1. l.word \in Seq(Words) /\ l.rest \in Seq(Words)
    <2>1. CASE l \in Lines
      BY <2>1, LinesAssumption
    <2>2. CASE l = NoLine
      BY <2>2 DEF NoLine
    <2>3. QED
      BY <2>1, <2>2
  <1>2. arg1(l) \in Words
    <2>1. CASE l.word = << >>
      BY <2>1, LinesAssumption DEF arg1
    <2>2. CASE l.word # << >>
      BY <1>1, <2>2, HeadTailProperties DEF arg1
    <2>3. QED
      BY <2>1, <2>2
  <1> DEFINE all == IF l.word = << >> THEN << >> ELSE Tail(l.word) \o l.rest
  <1>3. all \in Seq(Words)
    <2>1. CASE l.word = << >>
      BY <2>1
    <2>2. CASE l.word # << >>
      BY <1>1, <2>2, HeadTailProperties, ConcatProperties
    <2>3. QED
      BY <2>1, <2>2
  <1> HIDE DEF all
  <1>4. \A n \in 0 .. Len(all) : SubSeq(all, 1, n) \in Seq(Words)
    BY <1>3, SubSeqProperties
  <1>5. (IF Len(all) < MaxValue THEN Len(all) ELSE MaxValue) \in 0 .. Len(all)
    BY <1>3, LenProperties, BoundsAssumption
  <1>6. arg2(l) \in Seq(Words)
    BY <1>4, <1>5 DEF arg2, all
  <1>7. QED
    BY <1>2, <1>6

\* The scan of store_put finds the key's slot, else a free slot, else nothing.
LEMMA PutSlotFinds ==
  ASSUME NEW k
  PROVE  /\ PutSlot(k) \in Slot \cup {NoSlot}
         /\ Holds(k) # {} => PutSlot(k) \in Holds(k)
         /\ Holds(k) = {} /\ PutSlot(k) # NoSlot => PutSlot(k) \in Slot \ Used
  <1>1. Holds(k) \subseteq Slot /\ Slot \ Used \subseteq Slot
    BY DEF Holds, Used
  <1>2. Holds(k) # {} => Min(Holds(k)) \in Holds(k)
    BY <1>1, MinInSet
  <1>3. Slot \ Used # {} => Min(Slot \ Used) \in Slot \ Used
    BY <1>1, MinInSet
  <1>4. QED
    BY <1>1, <1>2, <1>3 DEF PutSlot

-----------------------------------------------------------------------------
\* The empty store, with nobody in it.
LEMMA StoreInit == Init => StoreInv
  <1> SUFFICES ASSUME Init PROVE StoreInv
    OBVIOUS
  <1>1. StoreTypes
    BY LinesAssumption DEF Init, StoreTypes, Entry, NoSlot
  <1>2. LockInv /\ UniqueKeys /\ ScanStillValid
    BY DEF Init, LockInv, UniqueKeys, ScanStillValid
  <1>3. QED
    BY <1>1, <1>2 DEF StoreInv

\* What every step but those inside store_put and store_del does to the store.
Quiet ==
  /\ UNCHANGED <<store, store_lock, req, slot>>
  /\ spc' \in [Conn -> {"none", "recv", "put", "send", "closed"}]
  /\ \A d \in Conn : spc'[d] = "put" <=> spc[d] = "put"
  /\ after' \in [Conn -> {"recv", "closed"}]
  /\ toServer' \in [Conn -> Seq(Lines)]

\* Such steps preserve the invariant.
LEMMA QuietPreserves == StoreInv /\ Quiet => StoreInv'
  <1> SUFFICES ASSUME StoreInv, Quiet PROVE StoreInv'
    OBVIOUS
  <1>1. StoreTypes'
    BY DEF StoreInv, Quiet, StoreTypes
  <1>2. LockInv' /\ UniqueKeys'
    BY DEF StoreInv, Quiet, LockInv, UniqueKeys
  <1>3. ScanStillValid'
    BY DEF StoreInv, Quiet, ScanStillValid, PutSlot, Holds, Used
  <1>4. QED
    BY <1>1, <1>2, <1>3 DEF StoreInv

\* Receiving a line leaves a queue of lines.
LEMMA ReceiveTypes ==
  ASSUME NEW c \in Conn, StoreTypes, NEW cmd, Receive(c, cmd)
  PROVE  /\ toServer' \in [Conn -> Seq(Lines)]
         /\ Head(toServer[c]) \in Lines
         /\ spc[c] = "recv"
  BY HeadTailProperties DEF StoreTypes, Receive

\* The environment and the ends of a session leave the store alone.
LEMMA EnvironmentQuiet ==
  ASSUME NEW c \in Conn, StoreInv,
         Environment(c) \/ Accept(c) \/ AcceptWithoutThread(c)
           \/ ReceiveZero(c) \/ ReceiveError(c) \/ Send(c)
  PROVE  Quiet
  <1> USE DEF StoreInv, StoreTypes, Quiet, shared, putting, replies, network
  <1>0. << >> \in Seq(Lines)
    BY EmptySeq
  <1>1. ASSUME NEW l \in Lines, ClientSend(c, l) PROVE Quiet
    BY <1>1, AppendProperties DEF ClientSend
  <1>2. CASE ClientClose(c) \/ Reset(c)
    <2>1. UNCHANGED <<store, store_lock, req, slot, spc, after>>
      BY <1>2 DEF ClientClose, Reset
    <2>2. toServer' \in [Conn -> Seq(Lines)]
      BY <1>0, <1>2 DEF ClientClose, Reset
    <2>3. QED
      BY <2>1, <2>2
  <1>3. CASE Accept(c) \/ AcceptWithoutThread(c)
    <2>1. toServer' \in [Conn -> Seq(Lines)]
      BY <1>0, <1>3 DEF Accept, AcceptWithoutThread
    <2>2. QED
      BY <1>3, <2>1 DEF Accept, AcceptWithoutThread
  <1>4. CASE ReceiveZero(c)
    BY <1>0, <1>4 DEF ReceiveZero
  <1>5. CASE ReceiveError(c)
    <2>1. toServer' \in [Conn -> Seq(Lines)]
      <3>1. CASE UNCHANGED toServer
        BY <3>1
      <3>2. CASE toServer[c] # << >> /\ toServer' = [toServer EXCEPT ![c] = Tail(@)]
        <4>1. Tail(toServer[c]) \in Seq(Lines)
          BY <3>2, HeadTailProperties
        <4>2. QED
          BY <3>2, <4>1
      <3>3. QED
        BY <1>5, <3>1, <3>2 DEF ReceiveError
    <2>2. QED
      BY <1>5, <2>1 DEF ReceiveError, Answer
  <1>6. CASE Send(c)
    <2>1. toServer' \in [Conn -> Seq(Lines)]
      <3>1. CASE Len(out[c]) > 1
        BY <1>6, <3>1 DEF Send
      <3>2. CASE ~(Len(out[c]) > 1)
        <4>1. toServer' = [toServer EXCEPT ![c] = IF after[c] = "closed" THEN << >> ELSE @]
          BY <1>6, <3>2 DEF Send
        <4>2. QED
          BY <1>0, <4>1
      <3>3. QED
        BY <3>1, <3>2
    <2>2. QED
      BY <1>6, <2>1 DEF Send
  <1>7. QED
    BY <1>1, <1>2, <1>3, <1>4, <1>5, <1>6 DEF Environment

\* So do the commands that only read the store or do not reach it.
LEMMA CommandQuiet ==
  ASSUME NEW c \in Conn, StoreInv,
         Auth(c) \/ Reject(c) \/ InvalidInput(c) \/ Get(c) \/ List(c)
           \/ Quit(c) \/ Unknown(c)
  PROVE  Quiet
  <1>1. PICK cmd : Receive(c, cmd)
    BY DEF Auth, Reject, InvalidInput, Get, List, Quit, Unknown
  <1>2. toServer' \in [Conn -> Seq(Lines)] /\ spc[c] = "recv"
    BY <1>1, ReceiveTypes DEF StoreInv
  <1>3. spc' = [spc EXCEPT ![c] = "send"]
    BY DEF Auth, Reject, InvalidInput, Get, List, Quit, Unknown, Answer
  <1>4. \E next \in {"recv", "closed"} : after' = [after EXCEPT ![c] = next]
    BY DEF Auth, Reject, InvalidInput, Get, List, Quit, Unknown, Answer
  <1>5. UNCHANGED <<store, store_lock, req, slot>>
    BY DEF Auth, Reject, InvalidInput, Get, List, Quit, Unknown, shared, putting
  <1>6. QED
    BY <1>2, <1>3, <1>4, <1>5 DEF Quiet, StoreInv, StoreTypes

\* The first half of store_put.
LEMMA PutScanPreserves ==
  ASSUME NEW c \in Conn, StoreInv, PutScan(c)
  PROVE  StoreInv'
  <1> DEFINE l == Head(toServer[c])
  <1>1. /\ toServer' \in [Conn -> Seq(Lines)] /\ l \in Lines /\ spc[c] = "recv"
    BY ReceiveTypes DEF StoreInv, PutScan, LockIsFree
  <1> HIDE DEF l
  <1>2. /\ store_lock = NoOne /\ store_lock' = c /\ store' = store
        /\ req' = [req EXCEPT ![c] = l]
        /\ slot' = [slot EXCEPT ![c] = PutSlot(arg1(l))]
        /\ spc' = [spc EXCEPT ![c] = "put"] /\ after' = after
    BY DEF PutScan, LockIsFree, l
  <1>3. PutSlot(arg1(l)) \in Slot \cup {NoSlot}
    BY PutSlotFinds
  <1>4. StoreTypes'
    BY <1>1, <1>2, <1>3 DEF StoreInv, StoreTypes
  <1>5. \A d \in Conn : spc[d] # "put"
    BY <1>2 DEF StoreInv, LockInv
  <1>6. LockInv' /\ UniqueKeys'
    BY <1>2, <1>5 DEF StoreInv, StoreTypes, LockInv, UniqueKeys
  <1>7. PutSlot(arg1(l))' = PutSlot(arg1(l'))
    BY <1>2 DEF PutSlot, Holds, Used
  <1>8. ASSUME NEW d \in Conn, spc'[d] = "put"
        PROVE  slot'[d] = PutSlot(arg1(req[d]))'
    <2>1. d = c
      BY <1>2, <1>5, <1>8 DEF StoreInv, StoreTypes
    <2>2. slot'[c] = PutSlot(arg1(l)) /\ req'[c] = l
      BY <1>2 DEF StoreInv, StoreTypes
    <2>3. QED
      BY <1>2, <2>1, <2>2 DEF PutSlot, Holds, Used
  <1>9. QED
    BY <1>4, <1>6, <1>8 DEF StoreInv, ScanStillValid

\* The second half: it writes the key's own slot, or a free one when no slot
\* has the key.
LEMMA PutWritePreserves ==
  ASSUME NEW c \in Conn, StoreInv, PutWrite(c)
  PROVE  StoreInv'
  <1> DEFINE k == arg1(req[c])
             e == [used |-> TRUE, key |-> k, value |-> arg2(req[c])]
  <1>1. /\ spc[c] = "put" /\ store_lock' = NoOne
        /\ IF slot[c] = NoSlot THEN store' = store
           ELSE store' = [store EXCEPT ![slot[c]] = e]
        /\ req' = [req EXCEPT ![c] = NoLine]
        /\ slot' = [slot EXCEPT ![c] = NoSlot]
        /\ spc' = [spc EXCEPT ![c] = "send"]
        /\ toServer' = toServer /\ after' = [after EXCEPT ![c] = "recv"]
    BY DEF PutWrite, Unlocked, Answer, network
  <1>2. e \in Entry
    BY ArgTypes DEF StoreInv, StoreTypes, Entry
  <1>3. slot[c] = PutSlot(k) /\ slot[c] \in Slot \cup {NoSlot}
    BY <1>1 DEF StoreInv, StoreTypes, ScanStillValid
  <1> HIDE DEF k
  <1>4. StoreTypes'
    <2>1. store' \in [Slot -> Entry]
      <3> HIDE DEF e
      <3>1. QED
        BY <1>1, <1>2, <1>3 DEF StoreInv, StoreTypes
    <2>2. QED
      BY <1>1, <2>1 DEF StoreInv, StoreTypes
  <1>5. \A d \in Conn : spc'[d] # "put"
    BY <1>1 DEF StoreInv, StoreTypes, LockInv
  <1>6. UniqueKeys'
    <2>1. CASE slot[c] = NoSlot
      BY <1>1, <2>1 DEF StoreInv, UniqueKeys
    <2>2. CASE slot[c] # NoSlot
      <3>1. \A i \in Slot : i # slot[c] => ~(store[i].used /\ store[i].key = k)
        BY <1>3, <2>2, PutSlotFinds DEF StoreInv, UniqueKeys, Holds, Used
      <3>2. \A i \in Slot : store'[i] = IF i = slot[c] THEN e ELSE store[i]
        BY <1>1, <2>2 DEF StoreInv, StoreTypes
      <3>3. QED
        BY <3>1, <3>2 DEF StoreInv, UniqueKeys
    <2>3. QED
      BY <2>1, <2>2
  <1>7. LockInv' /\ ScanStillValid'
    BY <1>1, <1>5 DEF LockInv, ScanStillValid
  <1>8. QED
    BY <1>4, <1>6, <1>7 DEF StoreInv

\* Clearing a slot's flag leaves its key.
LEMMA ClearUsed ==
  ASSUME NEW e \in Entry
  PROVE  /\ [e EXCEPT !.used = FALSE] \in Entry
         /\ ~[e EXCEPT !.used = FALSE].used
         /\ [e EXCEPT !.used = FALSE].key = e.key
  BY DEF Entry

\* store_del finds nobody between the two halves of store_put.
LEMMA DelPreserves ==
  ASSUME NEW c \in Conn, StoreInv, Del(c)
  PROVE  StoreInv'
  <1> DEFINE k == arg1(Head(toServer[c]))
             m == Min(Holds(k))
  <1>1. /\ store_lock = NoOne /\ store_lock' = NoOne
        /\ req' = req /\ slot' = slot
        /\ spc' = [spc EXCEPT ![c] = "send"]
        /\ IF Holds(k) = {} THEN store' = store
           ELSE store' = [store EXCEPT ![m].used = FALSE]
        /\ after' = [after EXCEPT ![c] = "recv"]
    BY DEF Del, LockIsFree, Answer, putting
  <1>2. toServer' \in [Conn -> Seq(Lines)] /\ spc[c] = "recv"
    BY ReceiveTypes DEF StoreInv, Del, LockIsFree
  <1>3. Holds(k) # {} => m \in Slot
    BY MinInSet DEF Holds, Used
  <1> HIDE DEF k, m
  <1>4. /\ store' \in [Slot -> Entry]
        /\ \A i \in Slot : /\ store'[i].used => store[i].used
                           /\ store'[i].key = store[i].key
    <2>1. CASE Holds(k) = {}
      BY <1>1, <2>1 DEF StoreInv, StoreTypes
    <2>2. CASE Holds(k) # {}
      <3>1. store' = [store EXCEPT ![m] = [store[m] EXCEPT !.used = FALSE]]
        BY <1>1, <2>2
      <3>2. /\ [store[m] EXCEPT !.used = FALSE] \in Entry
            /\ ~[store[m] EXCEPT !.used = FALSE].used
            /\ [store[m] EXCEPT !.used = FALSE].key = store[m].key
        BY <1>3, <2>2, ClearUsed DEF StoreInv, StoreTypes
      <3>3. QED
        BY <1>3, <2>2, <3>1, <3>2 DEF StoreInv, StoreTypes
    <2>3. QED
      BY <2>1, <2>2
  <1>5. \A d \in Conn : spc'[d] # "put"
    BY <1>1 DEF StoreInv, StoreTypes, LockInv
  <1>6. StoreTypes'
    BY <1>1, <1>2, <1>4 DEF StoreInv, StoreTypes
  <1>7. LockInv' /\ UniqueKeys' /\ ScanStillValid'
    BY <1>1, <1>4, <1>5 DEF StoreInv, LockInv, UniqueKeys, ScanStillValid
  <1>8. QED
    BY <1>6, <1>7 DEF StoreInv

\* Every step preserves the invariant of the store.
LEMMA StoreStep == StoreInv /\ [Next]_vars => StoreInv'
  <1> SUFFICES ASSUME StoreInv, [Next]_vars PROVE StoreInv'
    OBVIOUS
  <1>1. ASSUME NEW c \in Conn, ServerStep(c) \/ Environment(c) PROVE StoreInv'
    <2>1. CASE PutScan(c) \/ PutWrite(c) \/ Del(c)
      BY <2>1, PutScanPreserves, PutWritePreserves, DelPreserves
    <2>2. CASE Auth(c) \/ Reject(c) \/ InvalidInput(c) \/ Get(c) \/ List(c)
                 \/ Quit(c) \/ Unknown(c)
      BY <2>2, CommandQuiet, QuietPreserves
    <2>3. CASE Environment(c) \/ Accept(c) \/ AcceptWithoutThread(c)
                 \/ ReceiveZero(c) \/ ReceiveError(c) \/ Send(c)
      BY <2>3, EnvironmentQuiet, QuietPreserves
    <2>4. QED
      BY <1>1, <2>1, <2>2, <2>3 DEF ServerStep, Work
  <1>2. CASE UNCHANGED vars
    <2>1. Quiet
      BY <1>2 DEF vars, shared, putting, replies, network, Quiet, StoreInv, StoreTypes
    <2>2. QED
      BY <2>1, QuietPreserves
  <1>3. QED
    BY <1>1, <1>2 DEF Next, AllClosed

\* The invariant of the store holds in every reachable state.
THEOREM StoreInvariance == Spec => []StoreInv
  BY StoreInit, StoreStep, PTL DEF Spec

\* No key is ever in two slots: store_get and store_del, which stop at the
\* first match, see the only one.
THEOREM UniqueKeysCorrect == Spec => []UniqueKeys
  <1>1. StoreInv => UniqueKeys
    BY DEF StoreInv
  <1>2. QED
    BY StoreInvariance, <1>1, PTL

\* The slot chosen by the scan of store_put is right when it is written.
THEOREM ScanStillValidCorrect == Spec => []ScanStillValid
  <1>1. StoreInv => ScanStillValid
    BY DEF StoreInv
  <1>2. QED
    BY StoreInvariance, <1>1, PTL

-----------------------------------------------------------------------------
(* The limit on failed AUTHs.                                              *)

\* The inductive invariant of the AUTH counter.
AuthInv ==
  /\ authenticated \in [Conn -> BOOLEAN]
  /\ auth_attempts \in [Conn -> 0 .. MaxAttempts]
  /\ LockoutIsFinal

\* What every step but AUTH does to a session: the counter stays, and a
\* session that is closed, or on its way there, does not come back.
Settled ==
  /\ UNCHANGED <<authenticated, auth_attempts>>
  /\ \A d \in Conn :
       /\ spc[d] = "closed" => spc'[d] = "closed"
       /\ spc[d] = "send" /\ after[d] = "closed" =>
            spc'[d] = "closed" \/ (spc'[d] = "send" /\ after'[d] = "closed")

\* Only AUTH can disturb the invariant.
LEMMA SettledPreserves == AuthInv /\ Settled => AuthInv'
  BY DEF AuthInv, Settled, LockoutIsFinal

\* The steps of a thread other than AUTH, of the environment and of main.
LEMMA OthersSettle ==
  ASSUME NEW c \in Conn, StoreTypes, ServerStep(c) \/ Environment(c), ~Auth(c)
  PROVE  Settled
  <1>1. CASE Environment(c) \/ Accept(c) \/ AcceptWithoutThread(c)
    BY <1>1 DEF Environment, ClientSend, ClientClose, Reset, Accept, AcceptWithoutThread,
                session, replies, Settled, StoreTypes
  <1>2. CASE Send(c)
    BY <1>2 DEF Send, session, Settled, StoreTypes
  <1>3. CASE ReceiveZero(c) \/ ReceiveError(c)
    BY <1>3 DEF ReceiveZero, ReceiveError, Answer, session, Settled, StoreTypes
  <1>4. CASE PutScan(c) \/ PutWrite(c)
    BY <1>4 DEF PutScan, LockIsFree, PutWrite, Receive, Answer, session, Settled, StoreTypes
  <1>5. CASE Reject(c) \/ InvalidInput(c) \/ Get(c) \/ Del(c) \/ List(c) \/ Quit(c)
               \/ Unknown(c)
    <2>1. spc[c] = "recv"
      BY <1>5 DEF Reject, InvalidInput, Get, Del, List, Quit, Unknown, Receive
    <2>2. /\ spc' = [spc EXCEPT ![c] = "send"]
          /\ \E next \in {"recv", "closed"} : after' = [after EXCEPT ![c] = next]
      BY <1>5 DEF Reject, InvalidInput, Get, Del, List, Quit, Unknown, Answer
    <2>3. UNCHANGED <<authenticated, auth_attempts>>
      BY <1>5 DEF Reject, InvalidInput, Get, Del, List, Quit, Unknown, session
    <2>4. QED
      BY <2>1, <2>2, <2>3 DEF Settled, StoreTypes
  <1>6. QED
    BY <1>1, <1>2, <1>3, <1>4, <1>5 DEF ServerStep, Work

\* AUTH: the failure that reaches the limit is the one that closes.
LEMMA AuthPreserves ==
  ASSUME NEW c \in Conn, StoreTypes, AuthInv, Auth(c)
  PROVE  AuthInv'
  <1>1. spc[c] = "recv" /\ spc' = [spc EXCEPT ![c] = "send"]
    BY DEF Auth, Exhausted, Receive, Answer
  <1>2. auth_attempts[c] # MaxAttempts
    BY <1>1 DEF AuthInv, LockoutIsFinal
  <1>3. \/ /\ UNCHANGED auth_attempts
           /\ \/ UNCHANGED authenticated
              \/ authenticated' = [authenticated EXCEPT ![c] = TRUE]
           /\ after' = [after EXCEPT ![c] = "recv"]
        \/ /\ ~authenticated[c] /\ UNCHANGED authenticated
           /\ auth_attempts' = [auth_attempts EXCEPT ![c] = @ + 1]
           /\ IF auth_attempts[c] + 1 >= MaxAttempts
                THEN after' = [after EXCEPT ![c] = "closed"]
                ELSE after' = [after EXCEPT ![c] = "recv"]
    BY DEF Auth, Exhausted, Answer, session
  <1>4. authenticated' \in [Conn -> BOOLEAN] /\ auth_attempts' \in [Conn -> 0 .. MaxAttempts]
    <2>1. authenticated' \in [Conn -> BOOLEAN]
      BY <1>3, Zenon DEF AuthInv
    <2>2. auth_attempts' \in [Conn -> 0 .. MaxAttempts]
      BY <1>2, <1>3, BoundsAssumption DEF AuthInv
    <2>3. QED
      BY <2>1, <2>2
  <1>5. LockoutIsFinal'
    <2> SUFFICES ASSUME NEW d \in Conn, auth_attempts'[d] = MaxAttempts
                 PROVE  /\ ~authenticated'[d]
                        /\ \/ spc'[d] = "closed"
                           \/ spc'[d] = "send" /\ after'[d] = "closed"
      BY DEF LockoutIsFinal
    <2>1. CASE d # c
      BY <1>1, <1>3, <2>1 DEF AuthInv, LockoutIsFinal, StoreTypes
    <2>2. CASE d = c
      BY <1>1, <1>2, <1>3, <2>2, BoundsAssumption DEF AuthInv, StoreTypes
    <2>3. QED
      BY <2>1, <2>2
  <1>6. QED
    BY <1>4, <1>5 DEF AuthInv

\* The counters at the start, and at every step.
LEMMA AuthInit == Init => AuthInv
  BY BoundsAssumption DEF Init, AuthInv, LockoutIsFinal

\* Only AUTH counts, and it stops at the limit.
LEMMA AuthStep == StoreInv /\ AuthInv /\ [Next]_vars => AuthInv'
  <1> SUFFICES ASSUME StoreInv, AuthInv, [Next]_vars PROVE AuthInv'
    OBVIOUS
  <1>1. StoreTypes
    BY DEF StoreInv
  <1>2. ASSUME NEW c \in Conn, ServerStep(c) \/ Environment(c) PROVE AuthInv'
    BY <1>1, <1>2, OthersSettle, SettledPreserves, AuthPreserves
  <1>3. CASE UNCHANGED vars
    BY <1>3 DEF vars, session, replies, AuthInv, LockoutIsFinal
  <1>4. QED
    BY <1>2, <1>3 DEF Next, AllClosed

\* The invariant of the AUTH counter holds in every reachable state.
THEOREM AuthInvariance == Spec => []AuthInv
  BY AuthInit, AuthStep, StoreInvariance, PTL DEF Spec

\* A session that has failed AUTH the maximal number of times was never
\* authenticated and does nothing more than send its refusals and close.
THEOREM LockoutCorrect == Spec => []LockoutIsFinal
  <1>1. AuthInv => LockoutIsFinal
    BY DEF AuthInv
  <1>2. QED
    BY <1>1, AuthInvariance, PTL

-----------------------------------------------------------------------------
(* Replies, and the network.                                               *)

\* The replies of a session that are not sent yet.
Pending(rs) == rs = << >> \/ (\E r : rs = <<r>>) \/ (\E r, q : rs = <<r, q>>)

\* A thread has replies to send exactly while it sends, and the line that
\* store_put works on is a PUT.
SessionInv ==
  /\ DOMAIN out = Conn
  /\ \A c \in Conn : Pending(out[c]) /\ (spc[c] = "send" <=> out[c] # << >>)
  /\ \A c \in Conn : spc[c] = "put" => req[c] \in Lines /\ req[c].cmd = "PUT"
  /\ peer \in [Conn -> {"open", "closed", "reset"}]
  /\ sent \in [Conn -> 0 .. MaxSent]

\* The next reply is sent: one or none is left.
LEMMA SendOne ==
  ASSUME NEW rs, Pending(rs), rs # << >>
  PROVE  /\ Len(rs) > 1 => Tail(rs) # << >> /\ Pending(Tail(rs))
         /\ ~(Len(rs) > 1) => Tail(rs) = << >>
  <1>1. CASE \E r : rs = <<r>>
    BY <1>1
  <1>2. CASE \E r, q : rs = <<r, q>>
    <2>1. PICK r, q : rs = <<r, q>>
      BY <1>2
    <2>2. Tail(rs) = <<q>> /\ Len(rs) = 2
      BY <2>1
    <2>3. QED
      BY <2>2 DEF Pending
  <1>3. QED
    BY <1>1, <1>2 DEF Pending

\* No replies at the start.
LEMMA SessionInit == Init => SessionInv
  BY BoundsAssumption DEF Init, SessionInv, Pending

\* A step that answers: one reply, or two, and the thread goes on to send.
Answers(c) ==
  /\ spc' = [spc EXCEPT ![c] = "send"]
  /\ \E rs : out' = [out EXCEPT ![c] = rs] /\ Pending(rs) /\ rs # << >>
  /\ UNCHANGED <<peer, sent>>
  /\ \A d \in Conn \ {c} : req'[d] = req[d]

\* Such a step preserves the invariant.
LEMMA AnswersPreserve ==
  ASSUME NEW c \in Conn, StoreTypes, SessionInv, Answers(c)
  PROVE  SessionInv'
  <1>1. PICK rs : out' = [out EXCEPT ![c] = rs] /\ Pending(rs) /\ rs # << >>
    BY DEF Answers
  <1>2. \A d \in Conn : out'[d] = IF d = c THEN rs ELSE out[d]
    BY <1>1 DEF SessionInv
  <1>3. \A d \in Conn : spc'[d] = IF d = c THEN "send" ELSE spc[d]
    BY DEF Answers, StoreTypes
  <1>4. \A d \in Conn : Pending(out'[d]) /\ (spc'[d] = "send" <=> out'[d] # << >>)
    BY <1>1, <1>2, <1>3 DEF SessionInv
  <1>5. \A d \in Conn : spc'[d] = "put" => req'[d] \in Lines /\ req'[d].cmd = "PUT"
    BY <1>3 DEF SessionInv, Answers
  <1>6. QED
    BY <1>1, <1>4, <1>5 DEF SessionInv, Answers

\* The actions that answer.
LEMMA WhoAnswers ==
  ASSUME NEW c \in Conn, StoreTypes,
         Auth(c) \/ Reject(c) \/ InvalidInput(c) \/ Get(c) \/ Del(c) \/ List(c)
           \/ Quit(c) \/ Unknown(c) \/ ReceiveError(c) \/ PutWrite(c)
  PROVE  Answers(c)
  <1>1. spc' = [spc EXCEPT ![c] = "send"]
    BY DEF Auth, Reject, InvalidInput, Get, Del, List, Quit, Unknown, ReceiveError, PutWrite, Answer
  <1>2. \/ \E r, next : Answer(c, <<r>>, next)
        \/ \E r, q, next : Answer(c, <<r, q>>, next)
    BY DEF Auth, Reject, InvalidInput, Get, Del, List, Quit, Unknown, ReceiveError, PutWrite
  <1>3. \E rs : out' = [out EXCEPT ![c] = rs] /\ Pending(rs) /\ rs # << >>
    <2>1. CASE \E r, next : Answer(c, <<r>>, next)
      <3>1. PICK r : out' = [out EXCEPT ![c] = <<r>>]
        BY <2>1 DEF Answer
      <3>2. Pending(<<r>>) /\ <<r>> # << >>
        BY DEF Pending
      <3>3. QED
        BY <3>1, <3>2
    <2>2. CASE \E r, q, next : Answer(c, <<r, q>>, next)
      <3>1. PICK r, q : out' = [out EXCEPT ![c] = <<r, q>>]
        BY <2>2 DEF Answer
      <3>2. Pending(<<r, q>>) /\ <<r, q>> # << >>
        BY DEF Pending
      <3>3. QED
        BY <3>1, <3>2
    <2>3. QED
      BY <1>2, <2>1, <2>2
  <1>4. UNCHANGED <<peer, sent>>
    BY DEF Auth, Reject, InvalidInput, Get, Del, List, Quit, Unknown, ReceiveError, PutWrite,
           Receive, network
  <1>5. \A d \in Conn \ {c} : req'[d] = req[d]
    BY DEF Auth, Reject, InvalidInput, Get, Del, List, Quit, Unknown, ReceiveError, PutWrite,
           putting, StoreTypes
  <1>6. QED
    BY <1>1, <1>3, <1>4, <1>5 DEF Answers

\* Every step preserves it.
LEMMA SessionStep == StoreInv /\ SessionInv /\ [Next]_vars => SessionInv'
  <1> SUFFICES ASSUME StoreInv, SessionInv, [Next]_vars PROVE SessionInv'
    OBVIOUS
  <1>1. StoreTypes
    BY DEF StoreInv
  <1>2. ASSUME NEW c \in Conn, ServerStep(c) \/ Environment(c) PROVE SessionInv'
    <2>1. CASE Auth(c) \/ Reject(c) \/ InvalidInput(c) \/ Get(c) \/ Del(c) \/ List(c)
                 \/ Quit(c) \/ Unknown(c) \/ ReceiveError(c) \/ PutWrite(c)
      BY <1>1, <2>1, WhoAnswers, AnswersPreserve
    <2>2. CASE PutScan(c)
      <3>1. Head(toServer[c]) \in Lines /\ spc[c] = "recv" /\ Head(toServer[c]).cmd = "PUT"
        <4>1. Receive(c, "PUT")
          BY <2>2 DEF PutScan
        <4>2. QED
          BY <1>1, <4>1, ReceiveTypes DEF Receive
      <3>2. /\ req' = [req EXCEPT ![c] = Head(toServer[c])]
            /\ spc' = [spc EXCEPT ![c] = "put"] /\ UNCHANGED <<out, peer, sent>>
        BY <2>2 DEF PutScan, Receive
      <3>3. QED
        BY <1>1, <3>1, <3>2 DEF SessionInv, StoreTypes
    <2>3. CASE Send(c)
      <3>1. /\ spc[c] = "send" /\ out' = [out EXCEPT ![c] = Tail(@)]
            /\ IF Len(out[c]) > 1 THEN spc' = spc ELSE spc' = [spc EXCEPT ![c] = after[c]]
            /\ UNCHANGED <<req, peer, sent>>
        BY <2>3 DEF Send, putting
      <3>2. after[c] \in {"recv", "closed"}
        BY <1>1 DEF StoreTypes
      <3>3. /\ Len(out[c]) > 1 => Tail(out[c]) # << >> /\ Pending(Tail(out[c]))
            /\ ~(Len(out[c]) > 1) => Tail(out[c]) = << >>
        BY <3>1, SendOne DEF SessionInv
      <3>4. \A d \in Conn : out'[d] = IF d = c THEN Tail(out[c]) ELSE out[d]
        BY <3>1 DEF SessionInv
      <3>5. \A d \in Conn : Pending(out'[d]) /\ (spc'[d] = "send" <=> out'[d] # << >>)
        BY <1>1, <3>1, <3>2, <3>3, <3>4 DEF SessionInv, StoreTypes, Pending
      <3>6. \A d \in Conn : spc'[d] = "put" => spc[d] = "put"
        BY <1>1, <3>1, <3>2 DEF StoreTypes
      <3>7. QED
        BY <3>1, <3>5, <3>6 DEF SessionInv
    <2>4. CASE Accept(c) \/ AcceptWithoutThread(c) \/ ReceiveZero(c)
      <3>1. /\ spc[c] \in {"none", "recv"} /\ UNCHANGED <<out, req, peer, sent>>
            /\ \E x \in {"recv", "closed"} : spc' = [spc EXCEPT ![c] = x]
        BY <2>4 DEF Accept, AcceptWithoutThread, ReceiveZero, putting, network
      <3>2. QED
        BY <1>1, <3>1 DEF SessionInv, StoreTypes
    <2>5. CASE Environment(c)
      <3>1. UNCHANGED <<spc, out, req>>
        BY <2>5 DEF Environment, ClientSend, ClientClose, Reset, replies, putting
      <3>2. peer' \in [Conn -> {"open", "closed", "reset"}]
        BY <2>5 DEF Environment, ClientSend, ClientClose, Reset, SessionInv
      <3>3. sent' \in [Conn -> 0 .. MaxSent]
        BY <2>5, BoundsAssumption DEF Environment, ClientSend, ClientClose, Reset, SessionInv
      <3>4. QED
        BY <3>1, <3>2, <3>3 DEF SessionInv
    <2>6. QED
      BY <1>2, <2>1, <2>2, <2>3, <2>4, <2>5 DEF ServerStep, Work
  <1>3. CASE UNCHANGED vars
    BY <1>3 DEF vars, putting, replies, network, SessionInv
  <1>4. QED
    BY <1>2, <1>3 DEF Next, AllClosed

\* The invariant of the sessions holds in every reachable state.
THEOREM SessionInvariance == Spec => []SessionInv
  BY SessionInit, SessionStep, StoreInvariance, PTL DEF Spec

\* Type correctness of the server: in particular no session counts more failed
\* AUTHs than the limit, and no slot number leaves the array.
THEOREM TypeCorrect == Spec => []TypeOK
  <1>1. StoreInv /\ AuthInv /\ SessionInv => TypeOK
    <2> SUFFICES ASSUME StoreInv, AuthInv, SessionInv PROVE TypeOK
      OBVIOUS
    <2>1. StoreTypes
      BY DEF StoreInv
    <2>2. ASSUME NEW i \in Slot
          PROVE  /\ DOMAIN store[i] = {"used", "key", "value"} /\ store[i].used \in BOOLEAN
                 /\ store[i].key \in Words /\ store[i].value \in Seq(Words)
      <3>1. store[i] \in Entry
        BY <2>1 DEF StoreTypes
      <3>2. QED
        BY <3>1 DEF Entry
    <2>3. QED
      BY <2>1, <2>2 DEF StoreTypes, AuthInv, SessionInv, TypeOK
  <1>2. QED
    BY <1>1, StoreInvariance, AuthInvariance, SessionInvariance, PTL

-----------------------------------------------------------------------------
(* The server implements the map: what it needs to know of the sessions.   *)

\* Replies that tell nothing.
Refusals(rs) == \A i \in DOMAIN rs : rs[i].text \notin Map!Telling \cup {"OK AUTH"}

\* The line in store_put is a good PUT of somebody who has logged in; nothing is
\* in transit on a connection that is lost; and the last words of a session are
\* refusals.
MapInv ==
  \A c \in Conn :
    /\ spc[c] = "put" => authenticated[c] /\ Good(req[c])
    /\ peer[c] = "reset" => toServer[c] = << >>
    /\ spc[c] = "send" /\ after[c] = "closed" => Refusals(out[c])

\* What a step of one session leaves alone in another.
OthersStay(c) ==
  \A d \in Conn \ {c} :
    /\ spc'[d] = spc[d] /\ after'[d] = after[d] /\ out'[d] = out[d] /\ req'[d] = req[d]
    /\ toServer'[d] = toServer[d] /\ peer'[d] = peer[d] /\ authenticated'[d] = authenticated[d]

\* A step preserves the invariant if it does so for its own session.
LEMMA MapFrame ==
  ASSUME NEW c \in Conn, MapInv, OthersStay(c),
         spc'[c] = "put" => authenticated'[c] /\ Good(req'[c]),
         peer'[c] = "reset" => toServer'[c] = << >>,
         spc'[c] = "send" /\ after'[c] = "closed" => Refusals(out'[c])
  PROVE  MapInv'
  <1> SUFFICES ASSUME NEW d \in Conn
               PROVE  /\ spc'[d] = "put" => authenticated'[d] /\ Good(req'[d])
                      /\ peer'[d] = "reset" => toServer'[d] = << >>
                      /\ spc'[d] = "send" /\ after'[d] = "closed" => Refusals(out'[d])
    BY DEF MapInv, Good, Refusals, ValidPut, arg1, arg2, is_valid_token
  <1>1. CASE d = c
    BY <1>1
  <1>2. CASE d # c
    BY <1>2 DEF MapInv, OthersStay
  <1>3. QED
    BY <1>1, <1>2

\* The types this part needs.
LEMMA MapTypes ==
  ASSUME StoreTypes, SessionInv, AuthInv
  PROVE  /\ DOMAIN spc = Conn /\ DOMAIN after = Conn /\ DOMAIN out = Conn /\ DOMAIN req = Conn
         /\ DOMAIN toServer = Conn /\ DOMAIN peer = Conn /\ DOMAIN authenticated = Conn
  BY DEF StoreTypes, SessionInv, AuthInv

\* No session has begun at the start.
LEMMA MapInit == Init => MapInv
  BY DEF Init, MapInv

\* A session's own step leaves the others alone.
LEMMA StepsAlone ==
  ASSUME NEW c \in Conn, StoreTypes, SessionInv, AuthInv, ServerStep(c) \/ Environment(c)
  PROVE  OthersStay(c)
  <1>1. CASE Environment(c)
    BY <1>1, MapTypes DEF Environment, ClientSend, ClientClose, Reset, session, putting, replies, OthersStay
  <1>2. CASE Accept(c) \/ AcceptWithoutThread(c) \/ ReceiveZero(c) \/ Send(c)
    BY <1>2, MapTypes DEF Accept, AcceptWithoutThread, ReceiveZero, Send, session, putting, network, OthersStay
  <1>3. CASE ReceiveError(c) \/ Auth(c)
    <2>1. /\ \E rs, next : Answer(c, rs, next)
          /\ UNCHANGED <<req, peer>>
          /\ authenticated' = authenticated \/ authenticated' = [authenticated EXCEPT ![c] = TRUE]
          /\ toServer' = toServer \/ toServer' = [toServer EXCEPT ![c] = Tail(@)]
      <3>1. CASE ReceiveError(c)
        BY <3>1 DEF ReceiveError, session, putting
      <3>2. CASE Auth(c)
        <4>1. \E rs, next : Answer(c, rs, next)
          BY <3>2 DEF Auth
        <4>2. QED
          BY <3>2, <4>1 DEF Auth, Receive, session, putting
      <3>3. QED
        BY <1>3, <3>1, <3>2
    <2>2. QED
      BY <2>1, MapTypes DEF Answer, OthersStay
  <1>4. CASE Reject(c) \/ InvalidInput(c) \/ Get(c) \/ Del(c) \/ List(c) \/ Quit(c) \/ Unknown(c)
    <2>1. /\ \E rs, next : Answer(c, rs, next)
          /\ UNCHANGED <<req, peer, authenticated>>
          /\ toServer' = [toServer EXCEPT ![c] = Tail(@)]
      BY <1>4 DEF Reject, InvalidInput, Get, Del, List, Quit, Unknown, Receive, session, putting
    <2>2. QED
      BY <2>1, MapTypes DEF Answer, OthersStay
  <1>5. CASE PutScan(c) \/ PutWrite(c)
    BY <1>5, MapTypes DEF PutScan, PutWrite, Receive, Answer, session, network, OthersStay
  <1>6. QED
    BY <1>1, <1>2, <1>3, <1>4, <1>5 DEF ServerStep, Work

\* Two refusals, one of them sent.
LEMMA RefusalsLeft ==
  ASSUME NEW rs, Pending(rs), Len(rs) > 1, rs # << >>, Refusals(rs)
  PROVE  Refusals(Tail(rs))
  <1>1. CASE \E r : rs = <<r>>
    BY <1>1
  <1>2. CASE \E r, q : rs = <<r, q>>
    <2>1. PICK r, q : rs = <<r, q>>
      BY <1>2
    <2>2. Tail(rs) = <<q>> /\ rs[2] = q /\ 2 \in DOMAIN rs
      BY <2>1
    <2>3. q.text \notin Map!Telling \cup {"OK AUTH"}
      BY <2>2 DEF Refusals
    <2>4. \A i \in DOMAIN <<q>> : <<q>>[i] = q
      OBVIOUS
    <2>5. QED
      BY <2>2, <2>3, <2>4 DEF Refusals
  <1>3. QED
    BY <1>1, <1>2 DEF Pending

\* What is in a sequence of one or two.
LEMMA OneOrTwo ==
  ASSUME NEW r, NEW q
  PROVE  /\ \A i \in DOMAIN <<r>> : <<r>>[i] = r
         /\ \A i \in DOMAIN <<r, q>> : <<r, q>>[i] = r \/ <<r, q>>[i] = q
  OBVIOUS

\* One or two replies with a text that tells nothing.
LEMMA RefusalTexts ==
  ASSUME NEW t, NEW u, t \notin Map!Telling \cup {"OK AUTH"}, u \notin Map!Telling \cup {"OK AUTH"}
  PROVE  Refusals(<<Reply(t)>>) /\ Refusals(<<Reply(t), Reply(u)>>)
  <1>1. Reply(t).text = t /\ Reply(u).text = u
    BY DEF Reply
  <1> DEFINE r == Reply(t)
             q == Reply(u)
  <1> HIDE DEF r, q
  <1>2. /\ \A i \in DOMAIN <<r>> : <<r>>[i] = r
        /\ \A i \in DOMAIN <<r, q>> : <<r, q>>[i] = r \/ <<r, q>>[i] = q
    BY OneOrTwo
  <1>3. Refusals(<<r>>) /\ Refusals(<<r, q>>)
    <2>1. r.text = t /\ q.text = u
      BY <1>1 DEF r, q
    <2>2. QED
      BY <1>2, <2>1 DEF Refusals
  <1>4. QED
    BY <1>3 DEF r, q

\* Every step preserves it.
LEMMA MapStep == StoreInv /\ AuthInv /\ SessionInv /\ MapInv /\ [Next]_vars => MapInv'
  <1> SUFFICES ASSUME StoreInv, AuthInv, SessionInv, MapInv, [Next]_vars PROVE MapInv'
    OBVIOUS
  <1>1. StoreTypes
    BY DEF StoreInv
  <1>2. ASSUME NEW c \in Conn, ServerStep(c) \/ Environment(c) PROVE MapInv'
    <2>1. OthersStay(c)
      BY <1>1, <1>2, StepsAlone
    <2>2. SUFFICES /\ spc'[c] = "put" => authenticated'[c] /\ Good(req'[c])
                   /\ peer'[c] = "reset" => toServer'[c] = << >>
                   /\ spc'[c] = "send" /\ after'[c] = "closed" => Refusals(out'[c])
      BY <2>1, MapFrame
    <2>3. c \in DOMAIN spc /\ c \in DOMAIN after /\ c \in DOMAIN out /\ c \in DOMAIN req
          /\ c \in DOMAIN toServer /\ c \in DOMAIN peer /\ c \in DOMAIN authenticated
      BY <1>1, MapTypes
    <2>4. CASE Environment(c)
      BY <2>3, <2>4 DEF Environment, ClientSend, ClientClose, Reset, session, putting, replies, MapInv
    <2>5. CASE Accept(c) \/ AcceptWithoutThread(c) \/ ReceiveZero(c)
      BY <2>3, <2>5 DEF Accept, AcceptWithoutThread, ReceiveZero, session, putting, network, MapInv
    <2>6. CASE Send(c)
      <3>1. /\ spc[c] = "send" /\ out'[c] = Tail(out[c]) /\ peer' = peer
            /\ toServer'[c] \in {toServer[c], << >>}
            /\ IF Len(out[c]) > 1 THEN spc' = spc /\ after' = after ELSE spc'[c] = after[c]
        BY <2>3, <2>6 DEF Send
      <3>2. after[c] \in {"recv", "closed"}
        BY <1>1 DEF StoreTypes
      <3>3. Pending(out[c]) /\ out[c] # << >>
        BY <3>1 DEF SessionInv
      <3>4. QED
        BY <3>1, <3>2, <3>3, RefusalsLeft DEF MapInv
    <2>7. CASE Reject(c) \/ InvalidInput(c) \/ Get(c) \/ Del(c) \/ List(c) \/ Unknown(c)
      <3>1. /\ spc'[c] = "send" /\ after'[c] = "recv" /\ peer' = peer
            /\ toServer[c] # << >>
        BY <2>3, <2>7 DEF Reject, InvalidInput, Get, Del, List, Unknown, Receive, Answer
      <3>2. QED
        BY <3>1 DEF MapInv
    <2>8. CASE PutWrite(c)
      <3>1. spc'[c] = "send" /\ after'[c] = "recv" /\ peer' = peer /\ toServer' = toServer
        BY <2>3, <2>8 DEF PutWrite, Answer, network
      <3>2. QED
        BY <3>1 DEF MapInv
    <2>9. CASE PutScan(c)
      <3>1. /\ spc'[c] = "put" /\ peer' = peer /\ toServer[c] # << >> /\ authenticated'[c]
            /\ req'[c] = Head(toServer[c])
            /\ Head(toServer[c]).n = 1 /\ Head(toServer[c]).cmd = "PUT" /\ ValidPut(Head(toServer[c]))
        BY <2>3, <2>9 DEF PutScan, LoggedIn, Receive, session
      <3>2. Good(req'[c])
        BY <3>1 DEF Good
      <3>3. QED
        BY <3>1, <3>2 DEF MapInv
    <2>10. CASE Quit(c)
      <3>1. /\ spc'[c] = "send" /\ peer' = peer /\ toServer[c] # << >>
            /\ out'[c] = <<Reply("OK BYE")>>
        BY <2>3, <2>10 DEF Quit, Receive, Answer
      <3>2. "OK BYE" \notin Map!Telling \cup {"OK AUTH"}
        BY DEF Map!Telling
      <3>3. QED
        BY <3>1, <3>2, RefusalTexts DEF MapInv
    <2>11. CASE ReceiveError(c)
      <3>1. /\ spc'[c] = "send" /\ peer' = peer
            /\ toServer' = toServer \/ toServer[c] # << >>
            /\ out'[c] = <<Reply("ERR protocol_violation")>>
        BY <2>3, <2>11 DEF ReceiveError, Answer
      <3>2. "ERR protocol_violation" \notin Map!Telling \cup {"OK AUTH"}
        BY DEF Map!Telling
      <3>3. QED
        BY <3>1, <3>2, RefusalTexts DEF MapInv
    <2>12. CASE Auth(c)
      <3>1. /\ spc'[c] = "send" /\ peer' = peer /\ toServer[c] # << >>
            /\ \/ after'[c] = "recv"
               \/ out'[c] = <<Reply("ERR AUTH invalid_credentials"),
                              Reply("ERR too_many_attempts_closing")>>
        BY <2>3, <2>12 DEF Auth, Receive, Answer
      <3>2. /\ "ERR AUTH invalid_credentials" \notin Map!Telling \cup {"OK AUTH"}
            /\ "ERR too_many_attempts_closing" \notin Map!Telling \cup {"OK AUTH"}
        BY DEF Map!Telling
      <3>3. QED
        BY <3>1, <3>2, RefusalTexts DEF MapInv
    <2>13. QED
      BY <1>2, <2>4, <2>5, <2>6, <2>7, <2>8, <2>9, <2>10, <2>11, <2>12 DEF ServerStep, Work
  <1>3. CASE UNCHANGED vars
    BY <1>3 DEF vars, session, putting, replies, network, MapInv, Refusals
  <1>4. QED
    BY <1>2, <1>3 DEF Next, AllClosed

\* The invariant holds in every reachable state.
THEOREM MapInvariance == Spec => []MapInv
  BY MapInit, MapStep, StoreInvariance, AuthInvariance, SessionInvariance, PTL DEF Spec

-----------------------------------------------------------------------------
(* The server implements the map: what the slots hold.                     *)

\* The map has the value of every slot in use under its key.
LEMMA ContentOfSlot ==
  ASSUME StoreTypes, UniqueKeys
  PROVE  /\ DOMAIN Content = Keys
         /\ \A i \in Used : Content[store[i].key] = store[i].value
         /\ \A k : k \in Keys <=> Holds(k) # {}
         /\ \A k : Holds(k) # {} => Min(Holds(k)) \in Holds(k)
  <1>1. \A k : Holds(k) # {} => Min(Holds(k)) \in Holds(k)
    BY MinInSet DEF Holds, Used
  <1>2. \A k : k \in Keys <=> Holds(k) # {}
    BY DEF Keys, Holds
  <1>3. ASSUME NEW i \in Used PROVE Content[store[i].key] = store[i].value
    <2> DEFINE k == store[i].key
    <2>1. k \in Keys /\ i \in Holds(k)
      BY DEF Keys, Holds
    <2>2. Min(Holds(k)) \in Holds(k)
      BY <1>1, <2>1
    <2>3. Min(Holds(k)) = i
      BY <2>1, <2>2 DEF Holds, Used, UniqueKeys
    <2>4. Content[k] = store[Min(Holds(k))].value
      BY <2>1 DEF Content
    <2>5. QED
      BY <2>3, <2>4
  <1>4. QED
    BY <1>1, <1>2, <1>3 DEF Content

\* And so it does after a step.
ContentInv == \A i \in Used : Content[store[i].key] = store[i].value
LEMMA ContentNext == StoreTypes' /\ UniqueKeys' => ContentInv'
  <1>1. StoreTypes /\ UniqueKeys => ContentInv
    BY ContentOfSlot DEF ContentInv
  <1>2. QED
    BY <1>1, PTL

\* Cardinality means the same in both modules.
LEMMA SameCardinality == \A S : Map!Cardinality(S) = Cardinality(S)
  BY DEF Cardinality, Map!Cardinality

\* The keys of some slots.
KeysOf(J) == {store[i].key : i \in J}

\* Slots in use are finite in number, and a free one exists exactly when they are
\* fewer than MaxStore.
LEMMA SlotCount ==
  /\ IsFiniteSet(Used) /\ Cardinality(Used) \in Nat
  /\ Cardinality(Used) < MaxStore <=> Slot \ Used # {}
  <1>1. MaxStore - 1 \in Int /\ 0 \in Int /\ MaxStore \in Nat \ {0}
    BY BoundsAssumption
  <1>2. \A a, b \in Int : /\ IsFiniteSet(a .. b)
                          /\ Cardinality(a .. b) = IF a > b THEN 0 ELSE b - a + 1
    BY FS_Interval
  <1>3. /\ IsFiniteSet(Slot)
        /\ Cardinality(Slot) = IF 0 > MaxStore - 1 THEN 0 ELSE MaxStore - 1 - 0 + 1
    BY <1>1, <1>2, Zenon DEF Slot
  <1>4. Cardinality(Slot) = MaxStore
    BY <1>1, <1>3
  <1>5. Used \in SUBSET Slot
    BY DEF Used
  <1>6. /\ IsFiniteSet(Used) /\ Cardinality(Used) <= Cardinality(Slot)
        /\ Cardinality(Slot) = Cardinality(Used) => Slot = Used
    BY <1>3, <1>5, FS_Subset
  <1>7. Cardinality(Used) \in Nat
    BY <1>6, FS_CardinalityType
  <1>8. Slot \ Used = {} <=> Slot = Used
    BY <1>5
  <1>9. QED
    BY <1>1, <1>4, <1>6, <1>7, <1>8

\* Slots in use have as many keys.
LEMMA KeyCount ==
  ASSUME StoreTypes, UniqueKeys, NEW J \in SUBSET Used
  PROVE  /\ IsFiniteSet(J) /\ Cardinality(J) \in Nat
         /\ Cardinality(KeysOf(J)) = Cardinality(J)
  <1>1. IsFiniteSet(J)
    BY SlotCount, FS_Subset
  <1>2. Cardinality(J) \in Nat
    BY <1>1, FS_CardinalityType
  <1> DEFINE h == [i \in J |-> store[i].key]
  <1>3. h \in Bijection(J, KeysOf(J))
    BY DEF Bijection, Injection, Surjection, IsInjective, KeysOf, UniqueKeys, Used
  <1>4. Cardinality(KeysOf(J)) = Cardinality(J)
    BY <1>1, <1>3, FS_Bijection DEF ExistsBijection
  <1>5. QED
    BY <1>1, <1>2, <1>4

\* The characters of a listing of keys.
KeyChars(keys) == UNION {{k} \X (0 .. KeyLength[k]) : k \in keys}

\* The listing of slots is as long as that of their keys.
LEMMA ListingLength ==
  ASSUME StoreTypes, UniqueKeys, NEW J \in SUBSET Used
  PROVE  /\ IsFiniteSet(Chars(J)) /\ Cardinality(Chars(J)) \in Nat
         /\ Cardinality(KeyChars(KeysOf(J))) = Cardinality(Chars(J))
  <1> DEFINE A == Chars(J)
             B == KeyChars(KeysOf(J))
             C(j) == {j} \X (0 .. KeyLength[store[j].key])
             F == {C(j) : j \in J}
             h == [x \in A |-> <<store[x[1]].key, x[2]>>]
  <1>1. \A i \in Slot : store[i].key \in Words /\ KeyLength[store[i].key] \in Nat
    BY BoundsAssumption DEF StoreTypes, Entry
  <1>2. IsFiniteSet(A)
    <2>1. IsFiniteSet(J)
      BY KeyCount
    <2>2. IsFiniteSet(F)
      <3> DEFINE g == [j \in J |-> C(j)]
      <3>1. g \in Surjection(J, F)
        <4> HIDE DEF C
        <4>1. QED
          BY DEF Surjection
      <3>2. QED
        BY <2>1, <3>1, FS_Surjection
    <2>3. ASSUME NEW j \in J PROVE IsFiniteSet(C(j))
      <3>1. KeyLength[store[j].key] \in Int /\ 0 \in Int
        BY <1>1 DEF Used
      <3>2. IsFiniteSet(0 .. KeyLength[store[j].key])
        BY <3>1, FS_Interval
      <3>3. IsFiniteSet({j})
        BY FS_Singleton
      <3>4. QED
        BY <3>2, <3>3, FS_Product
    <2>4. \A T \in F : IsFiniteSet(T)
      BY <2>3
    <2> HIDE DEF F
    <2>5. IsFiniteSet(UNION F)
      BY <2>2, <2>4, FS_UNION
    <2>6. QED
      BY <2>5 DEF F, Chars
  <1>3. h \in Bijection(A, B)
    <2>1. \A x : x \in A <=> \E j \in J : \E n \in 0 .. KeyLength[store[j].key] : x = <<j, n>>
      BY DEF Chars
    <2>2. \A x : x \in B <=> \E k \in KeysOf(J) : \E n \in 0 .. KeyLength[k] : x = <<k, n>>
      BY DEF KeyChars
    <2> HIDE DEF A, B
    <2>3. \A x \in A : h[x] \in B
      BY <2>1, <2>2 DEF KeysOf
    <2>4. ASSUME NEW x \in A, NEW y \in A, h[x] = h[y] PROVE x = y
      <3>1. PICK i \in J, n \in Nat : x = <<i, n>>
        BY <2>1
      <3>2. PICK j \in J, m \in Nat : y = <<j, m>>
        BY <2>1
      <3>3. <<store[i].key, n>> = <<store[j].key, m>>
        BY <2>4, <3>1, <3>2
      <3>4. i = j /\ n = m
        BY <3>3 DEF UniqueKeys, Used
      <3>5. QED
        BY <3>1, <3>2, <3>4
    <2>5. ASSUME NEW z \in B PROVE \E x \in A : h[x] = z
      <3>1. PICK k \in KeysOf(J) : \E n \in 0 .. KeyLength[k] : z = <<k, n>>
        BY <2>2
      <3>2. PICK n \in 0 .. KeyLength[k] : z = <<k, n>>
        BY <3>1
      <3>3. PICK j \in J : store[j].key = k
        BY DEF KeysOf
      <3>4. <<j, n>> \in A /\ h[<<j, n>>] = z
        BY <2>1, <3>2, <3>3
      <3>5. QED
        BY <3>4
    <2>6. h \in [A -> B]
      BY <2>3
    <2> HIDE DEF h
    <2>7. QED
      BY <2>4, <2>5, <2>6 DEF Bijection, Injection, Surjection, IsInjective
  <1>4. Cardinality(B) = Cardinality(A)
    BY <1>2, <1>3, FS_Bijection DEF ExistsBijection
  <1>5. QED
    BY <1>2, <1>4, FS_CardinalityType

\* A set of slots that is not empty has a last one.
LEMMA MaxInSet ==
  ASSUME NEW S \in SUBSET Slot, S # {}
  PROVE  \E x \in S : \A y \in S : y <= x
  <1> DEFINE T == {MaxStore - 1 - i : i \in S}
  <1>1. T \in SUBSET Slot /\ T # {}
    <2>1. \A i \in S : MaxStore - 1 - i \in Slot
      BY BoundsAssumption DEF Slot
    <2>2. QED
      BY <2>1
  <1>2. PICK t \in T : \A u \in T : t <= u
    <2>1. T \subseteq Nat
      BY <1>1 DEF Slot
    <2>2. PICK x \in T : \A y \in T : ~(<<y, x>> \in OpToRel(<, Nat))
      BY <1>1, <2>1, NatLessThanWellFounded, WFMin
    <2>3. \A y \in T : x <= y
      <3> TAKE y \in T
      <3>1. x \in Nat /\ y \in Nat
        BY <2>1
      <3>2. ~(y < x)
        BY <2>2, <3>1 DEF OpToRel
      <3>3. QED
        BY <3>1, <3>2
    <2>4. QED
      BY <2>3
  <1>3. PICK x \in S : t = MaxStore - 1 - x
    OBVIOUS
  <1>4. \A y \in S : y <= x
    BY <1>2, <1>3, BoundsAssumption DEF Slot
  <1>5. QED
    BY <1>4

\* The slots whose keys are copied are the ones before the first that does not
\* fit, and with that one there is no room left.
LEMMA CompleteSlots ==
  ASSUME StoreTypes, UniqueKeys
  PROVE  /\ Complete \in SUBSET Used /\ Cardinality(Chars(Complete)) < MaxLine
         /\ Complete # Used =>
              \E m \in Used \ Complete : ~(Cardinality(Chars(Complete \cup {m})) < MaxLine)
  <1> DEFINE Upto(i) == {j \in Used : j <= i}
  <1>1. Complete \in SUBSET Used /\ Used \in SUBSET Slot /\ Slot \subseteq Nat
    BY DEF Complete, Used, Slot
  <1>2. \A i \in Used : i \in Complete <=> Cardinality(Chars(Upto(i))) < MaxLine
    BY DEF Complete, Offset
  <1>3. ASSUME NEW i \in Used, NEW j \in Used, i <= j, j \in Complete PROVE i \in Complete
    <2>1. Upto(j) \in SUBSET Used /\ Upto(i) \subseteq Upto(j)
      <3>1. i \in Nat /\ j \in Nat /\ \A x \in Used : x \in Nat
        BY <1>1
      <3>2. \A x \in Used : x <= i => x <= j
        BY <1>3, <3>1
      <3>3. QED
        BY <3>2
    <2>2. Chars(Upto(i)) \in SUBSET Chars(Upto(j))
      BY <2>1 DEF Chars
    <2>3. IsFiniteSet(Chars(Upto(j))) /\ Cardinality(Chars(Upto(j))) \in Nat
      BY <2>1, ListingLength
    <2>4. /\ Cardinality(Chars(Upto(i))) <= Cardinality(Chars(Upto(j)))
          /\ IsFiniteSet(Chars(Upto(i)))
      BY <2>2, <2>3, FS_Subset
    <2>5. Cardinality(Chars(Upto(i))) \in Nat
      BY <2>4, FS_CardinalityType
    <2> HIDE DEF Upto
    <2>6. QED
      BY <1>2, <1>3, <2>3, <2>4, <2>5, BoundsAssumption
  <1>4. Cardinality(Chars(Complete)) < MaxLine
    <2>1. CASE Complete = {}
      <3>1. Chars(Complete) = {}
        BY <2>1 DEF Chars
      <3>2. QED
        BY <3>1, FS_EmptySet, BoundsAssumption
    <2>2. CASE Complete # {}
      <3>1. PICK x \in Complete : \A y \in Complete : y <= x
        BY <1>1, <2>2, MaxInSet
      <3>2. Complete = Upto(x)
        BY <1>1, <1>3, <3>1
      <3>3. QED
        BY <1>1, <1>2, <3>1, <3>2
    <2>3. QED
      BY <2>1, <2>2
  <1>5. ASSUME Complete # Used
        PROVE  \E m \in Used \ Complete : ~(Cardinality(Chars(Complete \cup {m})) < MaxLine)
    <2> DEFINE R == Used \ Complete
    <2>1. R \in SUBSET Slot /\ R # {}
      BY <1>1, <1>5
    <2>2. Min(R) \in R /\ \A y \in R : Min(R) <= y
      BY <2>1, FirstInSet
    <2>3. Complete \cup {Min(R)} = Upto(Min(R))
      <3> DEFINE m == Min(R)
      <3>1. m \in Used /\ m \notin Complete /\ \A y \in R : m <= y
        BY <2>2
      <3> HIDE DEF m
      <3>2. \A x \in Used : x \in Nat /\ m \in Nat
        BY <1>1, <3>1
      <3>3. \A x \in Used : x \in Complete => x <= m
        BY <1>3, <3>1, <3>2
      <3>4. \A x \in Used : x <= m => x \in Complete \/ x = m
        BY <3>1, <3>2
      <3>5. m <= m
        BY <3>1, <3>2
      <3>6. \A x : x \in Complete \cup {m} <=> x \in Upto(m)
        BY <1>1, <3>1, <3>3, <3>4, <3>5
      <3>7. Complete \cup {m} = Upto(m)
        BY <3>6
      <3>8. QED
        BY <3>7 DEF m
    <2>4. ~(Cardinality(Chars(Upto(Min(R)))) < MaxLine)
      BY <1>2, <2>2
    <2>5. QED
      BY <2>2, <2>3, <2>4
  <1>6. QED
    BY <1>1, <1>4, <1>5

-----------------------------------------------------------------------------
(* The server implements the map: requests and answers.                    *)

\* Seen as requests, a queue of lines has the request of its head at its head.
LEMMA RequestsOfLines ==
  ASSUME NEW s \in Seq(Lines), s # << >>
  PROVE  /\ AllRequests(s) # << >>
         /\ Head(AllRequests(s)) = Request[Head(s)]
         /\ Tail(AllRequests(s)) = AllRequests(Tail(s))
  <1> DEFINE m == AllRequests(s)
  <1>0. \A l \in Lines : Request[l] \in Requests
    BY DEF Requests
  <1>1. /\ Len(s) \in Nat /\ DOMAIN s = 1 .. Len(s) /\ Len(s) >= 1
        /\ Tail(s) \in Seq(Lines) /\ Len(Tail(s)) = Len(s) - 1
        /\ \A i \in 1 .. Len(s) - 1 : Tail(s)[i] = s[i + 1]
        /\ \A i \in 1 .. Len(s) : s[i] \in Lines
    OBVIOUS
  <1>2. m \in Seq(Requests) /\ Len(m) = Len(s)
    <2>1. m \in [1 .. Len(s) -> Requests]
      BY <1>0, <1>1 DEF AllRequests
    <2>2. QED
      BY <1>1, <2>1
  <1>3. m # << >> /\ Head(m) = Request[Head(s)]
    BY <1>1, <1>2 DEF AllRequests
  <1>4. Tail(m) = AllRequests(Tail(s))
    <2>1. Tail(m) \in Seq(Requests) /\ Len(Tail(m)) = Len(s) - 1
      BY <1>2, <1>3
    <2>2. \A i \in 1 .. Len(s) - 1 : Tail(m)[i] = Request[s[i + 1]]
      BY <1>1, <1>2, <1>3 DEF AllRequests
    <2>3. Tail(m) = [i \in 1 .. Len(s) - 1 |-> Request[s[i + 1]]]
      <3>1. Tail(m) \in [1 .. Len(Tail(m)) -> Requests]
        BY <2>1, LenProperties
      <3>2. Tail(m) \in [1 .. Len(s) - 1 -> Requests]
        BY <2>1, <3>1
      <3> HIDE DEF m
      <3>3. QED
        BY <2>2, <3>2
    <2>4. AllRequests(Tail(s)) = [i \in 1 .. Len(s) - 1 |-> Request[s[i + 1]]]
      BY <1>1 DEF AllRequests
    <2>5. QED
      BY <2>3, <2>4
  <1>5. QED
    BY <1>3, <1>4

\* A line that arrives is a request that arrives.
LEMMA RequestsAppend ==
  ASSUME NEW s \in Seq(Lines), NEW l \in Lines
  PROVE  AllRequests(Append(s, l)) = Append(AllRequests(s), Request[l])
  <1> DEFINE t == Append(s, l)
             c(i) == Request[t[i]]
  <1>1. /\ t \in Seq(Lines) /\ Len(s) \in Nat /\ DOMAIN s = 1 .. Len(s)
        /\ Len(t) = Len(s) + 1 /\ DOMAIN t = 1 .. Len(s) + 1 /\ t[Len(s) + 1] = l
        /\ \A i \in 1 .. Len(s) : t[i] = s[i]
    OBVIOUS
  <1>2. \A x \in Lines : Request[x] \in Requests
    BY DEF Requests
  <1>3. /\ AllRequests(s) \in Seq(Requests) /\ Len(AllRequests(s)) = Len(s)
        /\ \A i \in 1 .. Len(s) : AllRequests(s)[i] = Request[s[i]]
    <2>1. AllRequests(s) \in [1 .. Len(s) -> Requests]
      BY <1>1, <1>2 DEF AllRequests
    <2>2. QED
      BY <1>1, <2>1 DEF AllRequests
  <1>4. /\ AllRequests(t) \in Seq(Requests) /\ Len(AllRequests(t)) = Len(s) + 1
        /\ \A i \in 1 .. Len(s) + 1 : AllRequests(t)[i] = Request[t[i]]
    <2>1. AllRequests(t) \in [1 .. Len(s) + 1 -> Requests]
      BY <1>1, <1>2 DEF AllRequests
    <2>2. QED
      BY <1>1, <2>1 DEF AllRequests
  <1> DEFINE u == Append(AllRequests(s), Request[l])
  <1>5. /\ u \in Seq(Requests) /\ Len(u) = Len(s) + 1
        /\ \A i \in 1 .. Len(s) + 1 : u[i] = Request[t[i]]
    BY <1>1, <1>2, <1>3
  <1> HIDE DEF t, u
  <1>6. AllRequests(t) = u
    BY <1>1, <1>4, <1>5, SeqEqual
  <1>7. QED
    BY <1>6 DEF t, u

\* A function of connections that changes for one of them.
LEMMA InboxOf ==
  ASSUME NEW c \in Conn, \A d \in Conn \ {c} : Unserved(d)' = Unserved(d)
  PROVE  /\ Inbox' = [Inbox EXCEPT ![c] = Inbox'[c]]
         /\ Inbox[c] = AllRequests(Unserved(c)) /\ Inbox'[c] = AllRequests(Unserved(c)')
  <1>1. \A d \in Conn : Inbox[d] = AllRequests(Unserved(d)) /\ Inbox'[d] = AllRequests(Unserved(d)')
    BY DEF Inbox, AllRequests
  <1>2. \A d \in Conn \ {c} : Inbox'[d] = Inbox[d]
    BY <1>1 DEF AllRequests
  <1>3. Inbox = [d \in Conn |-> Inbox[d]] /\ Inbox' = [d \in Conn |-> Inbox'[d]]
    BY DEF Inbox
  <1>4. QED
    BY <1>1, <1>2, <1>3

\* What the two modules call a connection that is up.
LEMMA UpOf ==
  ASSUME NEW c \in Conn, \A d \in Conn \ {c} : spc'[d] = spc[d] /\ peer'[d] = peer[d]
  PROVE  /\ Up' = [Up EXCEPT ![c] = Up'[c]]
         /\ Up[c] <=> spc[c] # "closed" /\ peer[c] # "reset"
         /\ Up'[c] <=> spc'[c] # "closed" /\ peer'[c] # "reset"
         /\ Up[c] \in BOOLEAN /\ Up'[c] \in BOOLEAN
  <1>1. \A d \in Conn \ {c} : Up'[d] = Up[d]
    BY DEF Up
  <1>2. Up = [d \in Conn |-> Up[d]] /\ Up' = [d \in Conn |-> Up'[d]]
    BY DEF Up
  <1>3. QED
    <2>1. Up' = [Up EXCEPT ![c] = Up'[c]]
      BY <1>1, <1>2
    <2>2. QED
      BY <2>1 DEF Up

\* The line at the head of the queue of c is taken, and answered.
LEMMA TakeStep ==
  ASSUME NEW c \in Conn, StoreTypes, SessionInv, Unserved(c) \in Seq(Lines), Unserved(c) # << >>,
         NEW rs, rs # << >>, out' = [out EXCEPT ![c] = rs], spc[c] \in {"recv", "put"},
         spc' = [spc EXCEPT ![c] = "send"], toServer'[c] = Tail(Unserved(c)), peer' = peer,
         \A d \in Conn \ {c} : req'[d] = req[d] /\ toServer'[d] = toServer[d]
  PROVE  /\ Inbox[c] # << >> /\ Head(Inbox[c]) = Request[Head(Unserved(c))]
         /\ Inbox' = [Inbox EXCEPT ![c] = Tail(@)]
         /\ Map!Answers(c) /\ out'[c] = rs /\ Up' = Up
  <1>1. \A d \in Conn : spc'[d] = IF d = c THEN "send" ELSE spc[d]
    BY DEF StoreTypes
  <1>2. \A d \in Conn : Unserved(d)' = IF d = c THEN Tail(Unserved(c)) ELSE Unserved(d)
    BY <1>1 DEF Unserved
  <1>3. /\ Inbox[c] # << >> /\ Head(Inbox[c]) = Request[Head(Unserved(c))]
        /\ Tail(Inbox[c]) = AllRequests(Tail(Unserved(c)))
    BY RequestsOfLines DEF Inbox
  <1>4. Inbox' = [Inbox EXCEPT ![c] = Tail(@)]
    <2>1. \A d \in Conn \ {c} : Unserved(d)' = Unserved(d)
      BY <1>2
    <2>2. /\ Inbox' = [Inbox EXCEPT ![c] = Inbox'[c]]
          /\ Inbox'[c] = AllRequests(Unserved(c)')
      BY <2>1, InboxOf
    <2>3. Inbox'[c] = Tail(Inbox[c])
      BY <1>2, <1>3, <2>2 DEF AllRequests
    <2>4. QED
      BY <2>2, <2>3
  <1>5. out[c] = << >> /\ out'[c] = rs /\ DOMAIN out' = Conn /\ \A d \in Conn \ {c} : out'[d] = out[d]
    BY DEF SessionInv
  <1>6. Up' = Up
    BY <1>1 DEF Up
  <1>7. QED
    BY <1>3, <1>4, <1>5, <1>6 DEF Map!Answers

\* One reply is a sequence of one.
LEMMA OneReply == ASSUME NEW r PROVE <<r>> # << >> /\ Len(<<r>>) = 1 /\ <<r>>[1] = r
  OBVIOUS

\* The map changes only if the slots do.
LEMMA ContentStays == store' = store => Content' = Content
  BY DEF Content, Keys, Holds, Used

\* A request has the key, the value and the judgement of its line.
LEMMA RequestOf ==
  ASSUME NEW l \in Lines
  PROVE  /\ Request[l].cmd = l.cmd /\ Request[l].key = arg1(l) /\ Request[l].value = arg2(l)
         /\ Request[l].valid = Good(l)
  <1> DEFINE k == arg1(l)
             v == arg2(l)
             g == Good(l)
  <1>1. Request[l] = [cmd |-> l.cmd, key |-> k, value |-> v, valid |-> g]
    BY DEF Request
  <1> HIDE DEF k, v, g
  <1>2. Request[l].cmd = l.cmd /\ Request[l].key = k /\ Request[l].value = v /\ Request[l].valid = g
    BY <1>1
  <1>3. QED
    BY <1>2 DEF k, v, g

\* The line in store_put is in front of the others.
LEMMA UnservedPut ==
  ASSUME NEW c \in Conn, spc[c] = "put", req[c] \in Lines, toServer[c] \in Seq(Lines)
  PROVE  /\ Unserved(c) \in Seq(Lines) /\ Unserved(c) # << >>
         /\ Head(Unserved(c)) = req[c] /\ Tail(Unserved(c)) = toServer[c]
  <1> DEFINE l == req[c]
             q == toServer[c]
  <1>1. Unserved(c) = <<l>> \o q /\ l \in Lines /\ q \in Seq(Lines)
    BY DEF Unserved
  <1> HIDE DEF l, q
  <1>2. <<l>> \o q \in Seq(Lines) /\ <<l>> \o q # << >> /\ Head(<<l>> \o q) = l
    BY <1>1
  <1>3. Tail(<<l>> \o q) = q
    <2>1. /\ Tail(<<l>> \o q) \in Seq(Lines) /\ Len(Tail(<<l>> \o q)) = Len(q)
          /\ \A i \in 1 .. Len(q) : Tail(<<l>> \o q)[i] = q[i]
      BY <1>1
    <2>2. QED
      BY <1>1, <2>1, SeqEqual
  <1>4. QED
    BY <1>1, <1>2, <1>3 DEF l, q

\* store_put writes what a PUT of the map does: a full map drops a new key.
LEMMA PutSimulates ==
  ASSUME StoreInv, SessionInv, MapInv, NEW c \in Conn, PutWrite(c)
  PROVE  Map!Put(c)
  <1> DEFINE k == arg1(req[c])
             v == arg2(req[c])
             e == [used |-> TRUE, key |-> k, value |-> v]
  <1>1. /\ spc[c] = "put" /\ toServer' = toServer
        /\ IF slot[c] = NoSlot THEN store' = store ELSE store' = [store EXCEPT ![slot[c]] = e]
        /\ req' = [req EXCEPT ![c] = NoLine] /\ spc' = [spc EXCEPT ![c] = "send"]
        /\ out' = [out EXCEPT ![c] = <<Reply("OK PUT")>>]
        /\ peer' = peer /\ authenticated' = authenticated
    BY DEF PutWrite, Answer, network, session
  <1>2. StoreTypes /\ UniqueKeys /\ StoreTypes' /\ UniqueKeys'
    BY PutWritePreserves DEF StoreInv
  <1>3. slot[c] = PutSlot(k) /\ slot[c] \in Slot \cup {NoSlot} /\ NoSlot \notin Slot
    <2>1. slot[c] = PutSlot(k) /\ slot[c] \in Slot \cup {NoSlot}
      BY <1>1 DEF StoreInv, StoreTypes, ScanStillValid
    <2>2. NoSlot \notin Slot
      BY BoundsAssumption DEF Slot, NoSlot
    <2>3. QED
      BY <2>1, <2>2
  <1>4. /\ req[c] \in Lines /\ req[c].cmd = "PUT" /\ toServer[c] \in Seq(Lines)
        /\ authenticated[c] /\ Good(req[c])
    BY <1>1, <1>2 DEF SessionInv, StoreTypes, MapInv
  <1>5. /\ Map!Serve(c, "PUT") /\ Head(Inbox[c]) = Request[req[c]]
        /\ out'[c][1].text = "OK PUT"
    <2>1. /\ Unserved(c) \in Seq(Lines) /\ Unserved(c) # << >>
          /\ Head(Unserved(c)) = req[c] /\ Tail(Unserved(c)) = toServer[c]
      BY <1>1, <1>4, UnservedPut
    <2>2. \A d \in Conn \ {c} : req'[d] = req[d] /\ toServer'[d] = toServer[d]
      BY <1>1, <1>2 DEF StoreTypes
    <2>3. Reply("OK PUT").text = "OK PUT"
      BY DEF Reply
    <2>4. spc[c] \in {"recv", "put"} /\ toServer'[c] = Tail(Unserved(c))
      BY <1>1, <2>1
    <2>5. /\ Inbox[c] # << >> /\ Head(Inbox[c]) = Request[Head(Unserved(c))]
          /\ Inbox' = [Inbox EXCEPT ![c] = Tail(@)]
          /\ Map!Answers(c) /\ out'[c] = <<Reply("OK PUT")>> /\ Up' = Up
      BY <1>1, <1>2, <2>1, <2>2, <2>4, OneReply, TakeStep
    <2>6. Head(Inbox[c]).cmd = "PUT" /\ Head(Inbox[c]).valid
      <3>1. Request[req[c]].cmd = req[c].cmd /\ Request[req[c]].valid = Good(req[c])
        BY <1>4, RequestOf
      <3>2. Head(Inbox[c]) = Request[req[c]]
        BY <2>1, <2>5
      <3>3. QED
        BY <1>4, <3>1, <3>2
    <2>7. QED
      BY <1>4, <2>1, <2>3, <2>5, <2>6, OneReply DEF Map!Serve
  <1>50. Head(Inbox[c]).key = k /\ Head(Inbox[c]).value = v
    BY <1>4, <1>5, RequestOf
  <1> HIDE DEF k, v
  <1>6. DOMAIN Content = Keys /\ (k \in Keys <=> Holds(k) # {})
    BY <1>2, ContentOfSlot
  <1>7. Cardinality(Keys) < MaxStore <=> Slot \ Used # {}
    <2>1. Keys = KeysOf(Used)
      BY DEF Keys, KeysOf
    <2>2. Cardinality(Keys) = Cardinality(Used)
      BY <1>2, <2>1, KeyCount
    <2>3. QED
      BY <2>2, SlotCount
  <1>8. IF k \in DOMAIN Content \/ Cardinality(DOMAIN Content) < MaxStore
          THEN Content' = [x \in DOMAIN Content \cup {k} |-> IF x = k THEN v ELSE Content[x]]
          ELSE Content' = Content
    <2>1. slot[c] # NoSlot <=> k \in Keys \/ Cardinality(Keys) < MaxStore
      BY <1>3, <1>6, <1>7, PutSlotFinds, MinInSet DEF PutSlot, Holds, Used
    <2>2. CASE slot[c] = NoSlot
      BY <1>1, <1>6, <2>1, <2>2, ContentStays
    <2>3. CASE slot[c] # NoSlot
      <3>1. /\ slot[c] \in Slot /\ store' = [store EXCEPT ![slot[c]] = e]
            /\ \A i \in Slot : store'[i] = IF i = slot[c] THEN e ELSE store[i]
        BY <1>1, <1>2, <1>3, <2>3 DEF StoreTypes
      <3>2. Used' = Used \cup {slot[c]}
        BY <3>1 DEF Used
      <3>3. slot[c] \in Used => store[slot[c]].key = k
        BY <1>3, <2>3, PutSlotFinds DEF Holds
      <3>4. \A i \in Used : i # slot[c] => store[i].key # k
        BY <1>2, <1>3, <2>3, PutSlotFinds DEF Holds, UniqueKeys, Used
      <3>5. Keys' = Keys \cup {k}
        <4>1. \A i \in Used' : store'[i].key = IF i = slot[c] THEN k ELSE store[i].key
          BY <3>1, <3>2 DEF Used
        <4>2. \A x : x \in Keys' <=> \E i \in Used' : store'[i].key = x
          BY DEF Keys
        <4>3. \A x : x \in Keys <=> \E i \in Used : store[i].key = x
          BY DEF Keys
        <4>4. QED
          BY <3>2, <3>3, <4>1, <4>2, <4>3
      <3>6. /\ DOMAIN Content' = Keys'
            /\ \A i \in Used' : Content'[store'[i].key] = store'[i].value
        BY <1>2, ContentNext DEF ContentInv, Content
      <3>7. \A x \in Keys \cup {k} : Content'[x] = IF x = k THEN v ELSE Content[x]
        <4>1. Content'[k] = v
          BY <3>1, <3>2, <3>6
        <4>2. ASSUME NEW x \in Keys, x # k PROVE Content'[x] = Content[x]
          <5>1. PICK i \in Used : store[i].key = x
            BY DEF Keys
          <5>2. i # slot[c] /\ i \in Used' /\ store'[i] = store[i]
            BY <3>1, <3>2, <3>3, <4>2, <5>1 DEF Used
          <5>3. Content[x] = store[i].value
            BY <1>2, <5>1, ContentOfSlot
          <5>4. QED
            BY <3>6, <5>1, <5>2, <5>3
        <4>3. QED
          BY <4>1, <4>2
      <3>8. Content' = [x \in Keys' |-> Content'[x]]
        BY DEF Content
      <3>9. QED
        BY <1>6, <2>1, <2>3, <3>5, <3>7, <3>8
    <2>4. QED
      BY <2>2, <2>3
  <1>9. QED
    BY <1>1, <1>5, <1>50, <1>8, SameCardinality DEF Map!Put

\* A thread in recv that takes a line takes the map's request.
LEMMA TakesLine ==
  ASSUME StoreInv, SessionInv, NEW c \in Conn, spc[c] = "recv", toServer[c] # << >>,
         toServer' = [toServer EXCEPT ![c] = Tail(@)], NEW rs, rs # << >>, NEW next,
         Answer(c, rs, next), req' = req, peer' = peer
  PROVE  /\ Inbox[c] # << >> /\ Head(Inbox[c]) = Request[Head(toServer[c])]
         /\ Head(toServer[c]) \in Lines
         /\ Inbox' = [Inbox EXCEPT ![c] = Tail(@)]
         /\ Map!Answers(c) /\ out'[c] = rs /\ Up' = Up
  <1>1. StoreTypes
    BY DEF StoreInv
  <1>2. out' = [out EXCEPT ![c] = rs] /\ spc' = [spc EXCEPT ![c] = "send"]
    BY DEF Answer
  <1>3. Unserved(c) = toServer[c] /\ toServer[c] \in Seq(Lines)
    BY <1>1 DEF Unserved, StoreTypes
  <1>4. /\ Unserved(c) \in Seq(Lines) /\ Unserved(c) # << >> /\ spc[c] \in {"recv", "put"}
        /\ toServer'[c] = Tail(Unserved(c))
        /\ \A d \in Conn \ {c} : req'[d] = req[d] /\ toServer'[d] = toServer[d]
    BY <1>1, <1>3 DEF StoreTypes
  <1>5. /\ Inbox[c] # << >> /\ Head(Inbox[c]) = Request[Head(Unserved(c))]
        /\ Inbox' = [Inbox EXCEPT ![c] = Tail(@)]
        /\ Map!Answers(c) /\ out'[c] = rs /\ Up' = Up
    BY <1>1, <1>2, <1>4, TakeStep
  <1>6. Head(toServer[c]) \in Lines
    BY <1>3
  <1>7. QED
    BY <1>3, <1>5, <1>6

\* And if it is a good one that is answered once, it serves it.
LEMMA CommandServes ==
  ASSUME StoreInv, SessionInv, NEW c \in Conn, NEW cmd, Receive(c, cmd), NEW r, NEW next,
         Answer(c, <<r>>, next), req' = req,
         Good(Head(toServer[c])), authenticated[c] <=> cmd # "AUTH"
  PROVE  /\ Map!Serve(c, cmd) /\ out'[c][1] = r
         /\ Head(Inbox[c]).key = arg1(Head(toServer[c]))
         /\ Head(Inbox[c]).value = arg2(Head(toServer[c]))
  <1>1. /\ spc[c] = "recv" /\ toServer[c] # << >> /\ Head(toServer[c]).cmd = cmd
        /\ toServer' = [toServer EXCEPT ![c] = Tail(@)] /\ peer' = peer
    BY DEF Receive
  <1>2. /\ Inbox[c] # << >> /\ Head(Inbox[c]) = Request[Head(toServer[c])]
        /\ Head(toServer[c]) \in Lines
        /\ Inbox' = [Inbox EXCEPT ![c] = Tail(@)]
        /\ Map!Answers(c) /\ out'[c] = <<r>> /\ Up' = Up
    BY <1>1, OneReply, TakesLine
  <1>3. /\ Head(Inbox[c]).cmd = cmd /\ Head(Inbox[c]).valid
        /\ Head(Inbox[c]).key = arg1(Head(toServer[c]))
        /\ Head(Inbox[c]).value = arg2(Head(toServer[c]))
    BY <1>1, <1>2, RequestOf
  <1>4. QED
    BY <1>2, <1>3, OneReply DEF Map!Serve

\* GET.
LEMMA GetSimulates ==
  ASSUME StoreInv, SessionInv, NEW c \in Conn, Get(c)
  PROVE  Map!Get(c)
  <1> DEFINE k == arg1(Head(toServer[c]))
             r == IF Holds(k) = {} THEN Reply("ERR GET not_found")
                  ELSE [Reply("OK GET") EXCEPT !.value = store[Min(Holds(k))].value]
  <1>0. k = arg1(Head(toServer[c]))
    OBVIOUS
  <1>1. /\ Receive(c, "GET") /\ Answer(c, <<r>>, "recv") /\ req' = req /\ store' = store
        /\ authenticated[c] /\ authenticated' = authenticated /\ is_valid_token(k)
    BY DEF Get, LoggedIn, shared, session, putting
  <1>2. /\ Holds(k) = {} => r.text = "ERR GET not_found"
        /\ Holds(k) # {} => r.text = "OK GET" /\ r.value = store[Min(Holds(k))].value
    BY DEF Reply
  <1> HIDE DEF r, k
  <1>3. Map!Serve(c, "GET") /\ out'[c][1] = r /\ Head(Inbox[c]).key = k
    <2>1. Good(Head(toServer[c]))
      BY <1>0, <1>1 DEF Good, Receive
    <2>2. QED
      BY <1>0, <1>1, <2>1, CommandServes
  <1>4. DOMAIN Content = Keys /\ (k \in Keys <=> Holds(k) # {})
    BY ContentOfSlot DEF StoreInv
  <1>5. k \in Keys => Content[k] = store[Min(Holds(k))].value
    BY DEF Content
  <1>6. Content' = Content
    BY <1>1, ContentStays
  <1>7. QED
    BY <1>1, <1>2, <1>3, <1>4, <1>5, <1>6 DEF Map!Get

\* A removal is served whatever its reply.
LEMMA DelServes ==
  ASSUME StoreInv, SessionInv, NEW c \in Conn, Receive(c, "DEL"), req' = req,
         authenticated[c], Good(Head(toServer[c])), NEW r, Answer(c, <<r>>, "recv")
  PROVE  /\ Map!Serve(c, "DEL") /\ out'[c][1] = r
         /\ Head(Inbox[c]).key = arg1(Head(toServer[c]))
  <1>1. authenticated[c] <=> "DEL" # "AUTH"
    OBVIOUS
  <1>2. QED
    BY <1>1, CommandServes

\* DEL: the only slot with the key is cleared, and no other key is touched.
LEMMA DelSimulates ==
  ASSUME StoreInv, SessionInv, NEW c \in Conn, Del(c)
  PROVE  Map!Del(c)
  <1> DEFINE k == arg1(Head(toServer[c]))
             m == Min(Holds(k))
  <1>0. k = arg1(Head(toServer[c]))
    OBVIOUS
  <1>1. /\ Receive(c, "DEL") /\ req' = req
        /\ authenticated[c] /\ authenticated' = authenticated /\ is_valid_token(k)
        /\ IF Holds(k) = {} THEN store' = store /\ Answer(c, <<Reply("ERR DEL not_found")>>, "recv")
           ELSE /\ store' = [store EXCEPT ![m].used = FALSE]
                /\ Answer(c, <<Reply("OK DEL")>>, "recv")
    BY DEF Del, LoggedIn, session, putting
  <1>2. StoreTypes /\ UniqueKeys /\ StoreTypes' /\ UniqueKeys'
    BY DelPreserves DEF StoreInv
  <1>3. /\ DOMAIN Content = Keys /\ (k \in Keys <=> Holds(k) # {})
        /\ Holds(k) # {} => m \in Holds(k)
        /\ \A i \in Used : Content[store[i].key] = store[i].value
    BY <1>2, ContentOfSlot
  <1>4. /\ Map!Serve(c, "DEL") /\ Head(Inbox[c]).key = k
        /\ out'[c][1] = IF Holds(k) = {} THEN Reply("ERR DEL not_found") ELSE Reply("OK DEL")
    <2> HIDE DEF k, m
    <2>00. Receive(c, "DEL") /\ req' = req
      BY <1>1
    <2>0. Good(Head(toServer[c]))
      BY <1>0, <1>1 DEF Good, Receive
    <2>1. CASE Holds(k) = {}
      <3>1. Answer(c, <<Reply("ERR DEL not_found")>>, "recv")
        BY <1>1, <2>1
      <3>2. /\ Map!Serve(c, "DEL") /\ out'[c][1] = Reply("ERR DEL not_found")
            /\ Head(Inbox[c]).key = arg1(Head(toServer[c]))
        BY <1>1, <2>00, <2>0, <3>1, DelServes
      <3>3. QED
        BY <1>0, <2>1, <3>2
    <2>2. CASE Holds(k) # {}
      <3>1. Answer(c, <<Reply("OK DEL")>>, "recv")
        BY <1>1, <2>2
      <3>2. /\ Map!Serve(c, "DEL") /\ out'[c][1] = Reply("OK DEL")
            /\ Head(Inbox[c]).key = arg1(Head(toServer[c]))
        BY <1>1, <2>00, <2>0, <3>1, DelServes
      <3>3. QED
        BY <1>0, <2>2, <3>2
    <2>3. QED
      BY <2>1, <2>2
  <1>5. out'[c][1].text = IF k \in Keys THEN "OK DEL" ELSE "ERR DEL not_found"
    <2> HIDE DEF k
    <2>1. Reply("ERR DEL not_found").text = "ERR DEL not_found" /\ Reply("OK DEL").text = "OK DEL"
      BY DEF Reply
    <2>2. QED
      BY <1>3, <1>4, <2>1
  <1> HIDE DEF k, m
  <1>6. Content' = [x \in Keys \ {k} |-> Content[x]]
    <2>1. CASE Holds(k) = {}
      <3>1. Content' = Content /\ Keys \ {k} = Keys
        BY <1>1, <1>3, <2>1, ContentStays
      <3>2. QED
        BY <3>1 DEF Content
    <2>2. CASE Holds(k) # {}
      <3>1. /\ m \in Slot /\ m \in Used /\ store[m].key = k
            /\ \A i \in Used : i # m => store[i].key # k
        BY <1>2, <1>3, <2>2 DEF Holds, Used, UniqueKeys
      <3>2. \A i \in Slot : i # m => store'[i] = store[i]
        BY <1>1, <1>2, <2>2 DEF StoreTypes
      <3>3. ~store'[m].used
        <4>1. store' = [store EXCEPT ![m] = [store[m] EXCEPT !.used = FALSE]]
          BY <1>1, <2>2
        <4>2. ~[store[m] EXCEPT !.used = FALSE].used
          BY <1>2, <3>1, ClearUsed DEF StoreTypes
        <4>3. QED
          BY <1>2, <3>1, <4>1, <4>2 DEF StoreTypes
      <3>4. Used' = Used \ {m}
        BY <3>1, <3>2, <3>3 DEF Used
      <3>5. \A i \in Used' : i \in Used /\ i # m /\ store'[i] = store[i]
        BY <3>2, <3>4 DEF Used
      <3>6. Keys' = Keys \ {k}
        <4>1. \A x : x \in Keys' <=> \E i \in Used' : store'[i].key = x
          BY DEF Keys
        <4>2. \A x : x \in Keys <=> \E i \in Used : store[i].key = x
          BY DEF Keys
        <4>3. QED
          BY <3>1, <3>4, <3>5, <4>1, <4>2
      <3>7. \A i \in Used' : Content'[store'[i].key] = store'[i].value
        BY <1>2, ContentNext DEF ContentInv
      <3>8. ASSUME NEW x \in Keys \ {k} PROVE Content'[x] = Content[x]
        <4>1. PICK i \in Used : store[i].key = x
          BY DEF Keys
        <4>2. i \in Used' /\ store'[i] = store[i]
          BY <3>1, <3>4, <3>5, <4>1
        <4>3. QED
          BY <1>3, <3>7, <4>1, <4>2
      <3>9. Content' = [x \in Keys' |-> Content'[x]]
        BY DEF Content
      <3>10. QED
        BY <3>6, <3>8, <3>9
    <2>3. QED
      BY <2>1, <2>2
  <1>7. QED
    BY <1>1, <1>3, <1>4, <1>5, <1>6 DEF Map!Del

\* What store_list answers: the keys of the map, or as many as there is room
\* for and a count of one more.
LEMMA ListingOfMap ==
  ASSUME StoreInv, NEW r \in ListReplies
  PROVE  /\ r.text = "OK LIST"
         /\ Keys = {} => r.count = 0
         /\ Keys # {} => r.keys \in SUBSET Keys /\ Cardinality(KeyChars(r.keys)) < MaxLine
         /\ Keys # {} =>
              \/ r.keys = Keys /\ r.count = Cardinality(r.keys)
              \/ /\ r.count = Cardinality(r.keys) + 1
                 /\ \E k \in Keys \ r.keys : ~(Cardinality(KeyChars(r.keys \cup {k})) < MaxLine)
  <1>1. \/ Used # {} /\ r = Listing
        \/ Used = {} /\ \E k, n : r = [Listing EXCEPT !.keys = k, !.len = n]
    <2>1. CASE Used # {}
      <3>1. ListReplies = {Listing}
        BY <2>1 DEF ListReplies
      <3>2. QED
        BY <2>1, <3>1
    <2>2. CASE Used = {}
      <3> DEFINE uninit(k, n) == [Listing EXCEPT !.keys = k, !.len = n]
                 texts == {{}, {"garbage"}}
                 lengths == {ListHeader, ListHeader + MaxLine}
      <3>1. ListReplies = {uninit(k, n) : k \in texts, n \in lengths}
        BY <2>2 DEF ListReplies
      <3> HIDE DEF uninit, texts, lengths
      <3>2. \E k \in texts, n \in lengths : r = uninit(k, n)
        BY <3>1
      <3>3. QED
        BY <2>2, <3>2 DEF uninit
    <2>3. QED
      BY <2>1, <2>2
  <1>2. Keys = {} <=> Used = {}
    BY DEF Keys
  <1>3. StoreTypes /\ UniqueKeys
    BY DEF StoreInv
  <1>4. /\ Complete \in SUBSET Used /\ Cardinality(Chars(Complete)) < MaxLine
        /\ Complete # Used =>
             \E m \in Used \ Complete : ~(Cardinality(Chars(Complete \cup {m})) < MaxLine)
    BY <1>3, CompleteSlots
  <1>5. Cardinality(Complete) \in Nat /\ Cardinality(KeysOf(Complete)) = Cardinality(Complete)
    BY <1>3, <1>4, KeyCount
  <1>6. /\ r.text = "OK LIST"
        /\ r.count = Cardinality(Complete) + IF Complete = Used THEN 0 ELSE 1
        /\ Used # {} => r.keys = KeysOf(Complete)
    <2> DEFINE count == Cardinality(Complete) + IF Complete = Used THEN 0 ELSE 1
               keys == {store[i].key : i \in Complete}
               len == ListHeader + IF Complete = Used THEN Offset(MaxStore - 1) ELSE MaxLine - 1
    <2>1. Listing = [text |-> "OK LIST", value |-> << >>, count |-> count, keys |-> keys, len |-> len]
      BY DEF Listing
    <2>2. keys = KeysOf(Complete)
      BY DEF KeysOf
    <2> HIDE DEF count, keys, len
    <2>3. r.text = "OK LIST" /\ r.count = count /\ (Used # {} => r.keys = keys)
      <3>1. CASE Used # {} /\ r = Listing
        BY <2>1, <3>1
      <3>2. CASE Used = {} /\ \E k, n : r = [Listing EXCEPT !.keys = k, !.len = n]
        <4>1. PICK k, n : r = [Listing EXCEPT !.keys = k, !.len = n]
          BY <3>2
        <4>2. QED
          BY <2>1, <3>2, <4>1
      <3>3. QED
        BY <1>1, <3>1, <3>2
    <2>4. QED
      BY <2>2, <2>3 DEF count
  <1>7. KeysOf(Complete) \in SUBSET Keys /\ KeysOf(Used) = Keys
    BY <1>4 DEF Keys, KeysOf
  <1>8. Cardinality(KeyChars(KeysOf(Complete))) < MaxLine
    BY <1>3, <1>4, ListingLength
  <1>9. CASE Complete = Used
    <2>1. r.count = Cardinality(Complete) + 0
      BY <1>6, <1>9, Zenon
    <2>2. r.count = Cardinality(Complete)
      BY <1>5, <2>1
    <2>3. Used = {} => Cardinality(Complete) = 0
      BY <1>9, FS_EmptySet
    <2>4. QED
      BY <1>2, <1>5, <1>6, <1>7, <1>8, <1>9, <2>2, <2>3
  <1>10. CASE Complete # Used
    <2>1. r.count = Cardinality(Complete) + 1
      BY <1>6, <1>10, Zenon
    <2>2. Used # {}
      BY <1>4, <1>10
    <2>3. PICK m \in Used \ Complete : ~(Cardinality(Chars(Complete \cup {m})) < MaxLine)
      BY <1>4, <1>10
    <2>4. /\ KeysOf(Complete \cup {m}) = KeysOf(Complete) \cup {store[m].key}
          /\ store[m].key \in Keys /\ store[m].key \notin KeysOf(Complete)
      BY <1>3, <1>4, <2>3 DEF KeysOf, Keys, UniqueKeys, Used
    <2>5. Complete \cup {m} \in SUBSET Used
      BY <1>4, <2>3
    <2>6. ~(Cardinality(KeyChars(KeysOf(Complete) \cup {store[m].key})) < MaxLine)
      BY <1>3, <2>3, <2>4, <2>5, ListingLength
    <2>7. QED
      BY <1>2, <1>5, <1>6, <1>7, <1>8, <2>1, <2>2, <2>4, <2>6
  <1>11. QED
    BY <1>9, <1>10

\* LIST.
LEMMA ListSimulates ==
  ASSUME StoreInv, SessionInv, NEW c \in Conn, List(c)
  PROVE  Map!List(c)
  <1>1. PICK r \in ListReplies : Answer(c, <<r>>, "recv")
    BY DEF List
  <1>2. /\ Receive(c, "LIST") /\ req' = req /\ store' = store
        /\ authenticated[c] /\ authenticated' = authenticated
    BY DEF List, LoggedIn, shared, session, putting
  <1>3. Map!Serve(c, "LIST") /\ out'[c][1] = r
    <2>1. Good(Head(toServer[c]))
      BY <1>2 DEF Good, Receive
    <2>2. QED
      BY <1>1, <1>2, <2>1, CommandServes
  <1>4. Content' = Content
    BY <1>2, ContentStays
  <1>5. DOMAIN Content = Keys /\ (Content = << >> <=> Keys = {})
    <2>1. DOMAIN Content = Keys
      BY DEF Content
    <2>2. Keys = {} => Content = << >>
      BY DEF Content
    <2>3. Content = << >> => DOMAIN Content = {}
      OBVIOUS
    <2>4. QED
      BY <2>1, <2>2, <2>3
  <1>6. /\ r.text = "OK LIST"
        /\ Keys = {} => r.count = 0
        /\ Keys # {} => r.keys \in SUBSET Keys /\ Cardinality(KeyChars(r.keys)) < MaxLine
        /\ Keys # {} =>
             \/ r.keys = Keys /\ r.count = Cardinality(r.keys)
             \/ /\ r.count = Cardinality(r.keys) + 1
                /\ \E k \in Keys \ r.keys : ~(Cardinality(KeyChars(r.keys \cup {k})) < MaxLine)
    BY ListingOfMap
  <1>7. \A keys : Map!Room(keys) <=> Cardinality(KeyChars(keys)) < MaxLine
    BY SameCardinality DEF Map!Room, KeyChars
  <1>8. QED
    BY <1>2, <1>3, <1>4, <1>5, <1>6, <1>7, SameCardinality DEF Map!List

\* A successful AUTH.
LEMMA LoginSimulates ==
  ASSUME StoreInv, SessionInv, NEW c \in Conn, Auth(c), ~authenticated[c],
         <<arg1(Head(toServer[c])), arg2(Head(toServer[c]))>> \in Credentials
  PROVE  Map!Login(c)
  <1>1. /\ Receive(c, "AUTH") /\ Answer(c, <<Reply("OK AUTH")>>, "recv")
        /\ authenticated' = [authenticated EXCEPT ![c] = TRUE]
        /\ req' = req /\ store' = store
    BY DEF Auth, shared, putting
  <1>2. Good(Head(toServer[c]))
    BY <1>1 DEF Good, Receive
  <1>3. Map!Serve(c, "AUTH") /\ out'[c][1] = Reply("OK AUTH")
    BY <1>1, <1>2, CommandServes
  <1>4. Reply("OK AUTH").text = "OK AUTH"
    BY DEF Reply
  <1>5. QED
    BY <1>1, <1>3, <1>4, ContentStays DEF Map!Login

\* A line that is refused is taken, and what is answered tells nothing.
LEMMA RefuseLine ==
  ASSUME StoreInv, SessionInv, NEW c \in Conn, spc[c] = "recv", toServer[c] # << >>,
         toServer' = [toServer EXCEPT ![c] = Tail(@)], NEW rs, rs # << >>, Refusals(rs), NEW next,
         Answer(c, rs, next), req' = req, peer' = peer, store' = store,
         authenticated' = authenticated,
         ~(Good(Head(toServer[c])) /\ (authenticated[c] <=> Head(toServer[c]).cmd # "AUTH"))
  PROVE  Map!Refuse(c)
  <1>1. /\ Inbox[c] # << >> /\ Head(Inbox[c]) = Request[Head(toServer[c])]
        /\ Head(toServer[c]) \in Lines
        /\ Inbox' = [Inbox EXCEPT ![c] = Tail(@)]
        /\ Map!Answers(c) /\ out'[c] = rs /\ Up' = Up
    BY TakesLine
  <1>2. /\ Head(Inbox[c]).cmd = Head(toServer[c]).cmd
        /\ Head(Inbox[c]).valid = Good(Head(toServer[c]))
    BY <1>1, RequestOf
  <1>3. \A i \in DOMAIN out'[c] : out'[c][i].text \notin Map!Telling \cup {"OK AUTH"}
    BY <1>1 DEF Refusals
  <1>4. QED
    BY <1>1, <1>2, <1>3, ContentStays DEF Map!Refuse

\* Every other answer.
LEMMA RefuseSimulates ==
  ASSUME StoreInv, SessionInv, MapInv, NEW c \in Conn,
         \/ Auth(c) /\ (authenticated[c] \/
              <<arg1(Head(toServer[c])), arg2(Head(toServer[c]))>> \notin Credentials)
         \/ Reject(c) \/ InvalidInput(c) \/ Quit(c) \/ Unknown(c) \/ ReceiveError(c)
  PROVE  Map!Refuse(c)
  <1> DEFINE l == Head(toServer[c])
             Texts == {"ERR already_authenticated", "ERR AUTH invalid_credentials",
                       "ERR too_many_attempts_closing",
                       "ERR not_authenticated", "ERR PUT invalid_input", "ERR GET invalid_input",
                       "ERR DEL invalid_input", "OK BYE", "ERR unknown_command",
                       "ERR protocol_violation"}
  <1>1. \A t \in Texts : t \notin Map!Telling \cup {"OK AUTH"}
    BY DEF Map!Telling
  <1>2. \A t \in Texts, u \in Texts : /\ Refusals(<<Reply(t)>>) /\ Refusals(<<Reply(t), Reply(u)>>)
                                      /\ <<Reply(t)>> # << >> /\ <<Reply(t), Reply(u)>> # << >>
    BY <1>1, RefusalTexts
  <1>3. spc[c] = "recv" /\ req' = req /\ peer' = peer /\ store' = store
    BY DEF Auth, Reject, InvalidInput, Quit, Unknown, ReceiveError, Receive, shared, putting
  <1>4. CASE Auth(c) /\ (authenticated[c] \/ <<arg1(l), arg2(l)>> \notin Credentials)
    <2>1. /\ toServer[c] # << >> /\ toServer' = [toServer EXCEPT ![c] = Tail(@)]
          /\ l.cmd = "AUTH" /\ authenticated' = authenticated
      BY <1>4 DEF Auth, Receive, session
    <2>2. ~(Good(l) /\ (authenticated[c] <=> l.cmd # "AUTH"))
      BY <1>4, <2>1 DEF Good
    <2>3. \E rs, next : Answer(c, rs, next) /\ Refusals(rs) /\ rs # << >>
      <3>1. \/ Answer(c, <<Reply("ERR already_authenticated")>>, "recv")
            \/ Answer(c, <<Reply("ERR AUTH invalid_credentials"),
                           Reply("ERR too_many_attempts_closing")>>, "closed")
            \/ Answer(c, <<Reply("ERR AUTH invalid_credentials")>>, "recv")
        BY <1>4 DEF Auth
      <3>2. QED
        BY <1>2, <3>1
    <2>4. QED
      BY <1>3, <2>1, <2>2, <2>3, RefuseLine
  <1>5. CASE Reject(c) \/ InvalidInput(c) \/ Quit(c) \/ Unknown(c)
    <2>1. /\ toServer[c] # << >> /\ toServer' = [toServer EXCEPT ![c] = Tail(@)]
          /\ authenticated' = authenticated
      BY <1>5 DEF Reject, InvalidInput, Quit, Unknown, Receive, session
    <2>2. ~(Good(l) /\ (authenticated[c] <=> l.cmd # "AUTH"))
      BY <1>5 DEF Reject, InvalidInput, Quit, Unknown, LoggedIn, Receive, Good
    <2>3. \E rs, next : Answer(c, rs, next) /\ Refusals(rs) /\ rs # << >>
      <3>1. CASE Reject(c) \/ Quit(c) \/ Unknown(c)
        <4>1. \E t \in Texts : \E next : Answer(c, <<Reply(t)>>, next)
          BY <3>1 DEF Reject, Quit, Unknown
        <4>2. QED
          BY <1>2, <4>1
      <3>2. CASE InvalidInput(c)
        <4>1. PICK cmd \in {"PUT", "GET", "DEL"} : Answer(c, <<Reply(Invalid[cmd])>>, "recv")
          BY <3>2 DEF InvalidInput
        <4>2. /\ Invalid["PUT"] = "ERR PUT invalid_input" /\ Invalid["GET"] = "ERR GET invalid_input"
              /\ Invalid["DEL"] = "ERR DEL invalid_input"
          BY DEF Invalid
        <4>3. Invalid[cmd] \in Texts
          BY <4>2
        <4>4. QED
          BY <1>2, <4>1, <4>3
      <3>3. QED
        BY <1>5, <3>1, <3>2
    <2>4. QED
      BY <1>3, <2>1, <2>2, <2>3, RefuseLine
  <1>6. CASE ReceiveError(c)
    <2>1. /\ Answer(c, <<Reply("ERR protocol_violation")>>, "closed")
          /\ authenticated' = authenticated
          /\ \/ peer[c] = "reset" /\ toServer' = toServer
             \/ /\ toServer[c] # << >> /\ l.n = -1
                /\ toServer' = [toServer EXCEPT ![c] = Tail(@)]
      BY <1>6 DEF ReceiveError, session
    <2>2. Refusals(<<Reply("ERR protocol_violation")>>) /\ <<Reply("ERR protocol_violation")>> # << >>
      BY <1>2
    <2>3. CASE toServer[c] # << >> /\ l.n = -1 /\ toServer' = [toServer EXCEPT ![c] = Tail(@)]
      <3>1. ~Good(l)
        BY <2>3 DEF Good
      <3>2. QED
        BY <1>3, <2>1, <2>2, <2>3, <3>1, RefuseLine
    <2>4. CASE peer[c] = "reset" /\ toServer' = toServer
      <3>1. StoreTypes
        BY DEF StoreInv
      <3>2. /\ spc' = [spc EXCEPT ![c] = "send"]
            /\ out' = [out EXCEPT ![c] = <<Reply("ERR protocol_violation")>>]
        BY <2>1 DEF Answer
      <3>3. \A d \in Conn : Unserved(d)' = Unserved(d)
        BY <1>3, <2>4, <3>1, <3>2 DEF Unserved, StoreTypes
      <3>4. Inbox' = Inbox
        BY <3>3 DEF Inbox, AllRequests
      <3>5. Inbox[c] = << >>
        <4>1. Unserved(c) = << >>
          BY <1>3, <2>4 DEF MapInv, Unserved
        <4>2. QED
          BY <4>1 DEF Inbox, AllRequests
      <3>6. Up' = Up /\ ~Up[c]
        BY <1>3, <2>4, <3>1, <3>2 DEF Up, StoreTypes
      <3>7. Map!Answers(c) /\ out'[c] = <<Reply("ERR protocol_violation")>>
        BY <1>3, <2>2, <3>2 DEF SessionInv, Map!Answers
      <3>8. \A i \in DOMAIN out'[c] : out'[c][i].text \notin Map!Telling \cup {"OK AUTH"}
        BY <2>2, <3>7 DEF Refusals
      <3>9. QED
        BY <1>3, <2>1, <3>4, <3>5, <3>6, <3>7, <3>8, ContentStays DEF Map!Refuse
    <2>5. QED
      BY <2>1, <2>3, <2>4
  <1>7. QED
    BY <1>4, <1>5, <1>6

\* send_line.
LEMMA SendSimulates ==
  ASSUME StoreInv, SessionInv, MapInv, NEW c \in Conn, Send(c)
  PROVE  Map!Deliver(c)
  <1>1. StoreTypes
    BY DEF StoreInv
  <1>2. /\ spc[c] = "send" /\ out' = [out EXCEPT ![c] = Tail(@)]
        /\ UNCHANGED <<store, req, peer, authenticated>>
        /\ \/ UNCHANGED <<spc, toServer>>
           \/ /\ ~(Len(out[c]) > 1)
              /\ spc' = [spc EXCEPT ![c] = after[c]]
              /\ toServer' = [toServer EXCEPT ![c] = IF after[c] = "closed" THEN << >> ELSE @]
    BY DEF Send, shared, session, putting
  <1>3. out[c] # << >> /\ Content' = Content /\ Pending(out[c])
    BY <1>2, ContentStays DEF SessionInv
  <1>4. after[c] \in {"recv", "closed"}
    BY <1>1 DEF StoreTypes
  <1>5. /\ \A d \in Conn \ {c} : Unserved(d)' = Unserved(d)
        /\ \A d \in Conn \ {c} : spc'[d] = spc[d] /\ peer'[d] = peer[d]
    BY <1>1, <1>2 DEF Unserved, StoreTypes
  <1>6. \/ spc'[c] = "closed" /\ Unserved(c)' = << >> /\ after[c] = "closed" /\ ~(Len(out[c]) > 1)
        \/ spc'[c] # "closed" /\ Unserved(c)' = Unserved(c)
    BY <1>1, <1>2, <1>4 DEF Unserved, StoreTypes
  <1>7. /\ Inbox' = [Inbox EXCEPT ![c] = Inbox'[c]]
        /\ Inbox[c] = AllRequests(Unserved(c)) /\ Inbox'[c] = AllRequests(Unserved(c)')
    BY <1>5, InboxOf
  <1>8. /\ Up' = [Up EXCEPT ![c] = Up'[c]]
        /\ Up[c] <=> spc[c] # "closed" /\ peer[c] # "reset"
        /\ Up'[c] <=> spc'[c] # "closed" /\ peer'[c] # "reset"
        /\ Up[c] \in BOOLEAN /\ Up'[c] \in BOOLEAN
    BY <1>5, UpOf
  <1>9. AllRequests(<< >>) = << >>
    BY DEF AllRequests
  <1>10. CASE spc'[c] = "closed" /\ Unserved(c)' = << >> /\ after[c] = "closed" /\ ~(Len(out[c]) > 1)
    <2>1. Up' = [Up EXCEPT ![c] = FALSE]
      BY <1>8, <1>10
    <2>2. Inbox' = [Inbox EXCEPT ![c] = << >>]
      BY <1>7, <1>9, <1>10
    <2>3. Len(out[c]) = 1 /\ 1 \in DOMAIN out[c]
      <3>1. CASE \E r : out[c] = <<r>>
        BY <3>1
      <3>2. CASE \E r, q : out[c] = <<r, q>>
        BY <1>10, <3>2
      <3>3. QED
        BY <1>3, <3>1, <3>2 DEF Pending
    <2>4. out[c][1].text \notin Map!Telling \cup {"OK AUTH"}
      BY <1>2, <1>10, <2>3 DEF MapInv, Refusals
    <2>5. QED
      BY <1>2, <1>3, <2>1, <2>2, <2>3, <2>4 DEF Map!Deliver
  <1>11. CASE spc'[c] # "closed" /\ Unserved(c)' = Unserved(c)
    <2>1. Up' = Up
      <3>1. Up'[c] = Up[c]
        BY <1>2, <1>8, <1>11
      <3>2. QED
        BY <1>8, <3>1 DEF Up
    <2>2. Inbox' = Inbox
      <3>1. Inbox'[c] = Inbox[c]
        BY <1>7, <1>11
      <3>2. QED
        BY <1>7, <3>1 DEF Inbox
    <2>3. QED
      BY <1>2, <1>3, <2>1, <2>2 DEF Map!Deliver
  <1>12. QED
    BY <1>6, <1>10, <1>11

\* A line arrives.
LEMMA ArriveSimulates ==
  ASSUME StoreInv, SessionInv, MapInv, NEW c \in Conn, NEW l \in Lines, ClientSend(c, l)
  PROVE  Map!Arrive(c)
  <1>1. /\ peer[c] = "open" /\ spc[c] # "closed"
        /\ toServer' = [toServer EXCEPT ![c] = Append(@, l)]
        /\ UNCHANGED <<store, authenticated, req, spc, out, peer>>
    BY DEF ClientSend, shared, session, putting, replies
  <1>2. StoreTypes
    BY DEF StoreInv
  <1>3. toServer[c] \in Seq(Lines) /\ \A d \in Conn \ {c} : Unserved(d)' = Unserved(d)
    BY <1>1, <1>2 DEF StoreTypes, Unserved
  <1>4. Unserved(c) \in Seq(Lines) /\ Unserved(c)' = Append(Unserved(c), l)
    <2>1. toServer'[c] = Append(toServer[c], l)
      BY <1>1, <1>2 DEF StoreTypes
    <2>2. CASE spc[c] # "put"
      BY <1>1, <1>3, <2>1, <2>2 DEF Unserved
    <2>3. CASE spc[c] = "put"
      <3> DEFINE h == req[c]
                 q == toServer[c]
      <3>1. h \in Lines /\ q \in Seq(Lines)
        BY <1>3, <2>3 DEF SessionInv
      <3>2. Unserved(c) = <<h>> \o q /\ Unserved(c)' = <<h>> \o Append(q, l)
        BY <1>1, <2>1, <2>3 DEF Unserved
      <3> HIDE DEF h, q
      <3>3. <<h>> \o Append(q, l) = Append(<<h>> \o q, l) /\ <<h>> \o q \in Seq(Lines)
        <4> DEFINE s == <<h>> \o Append(q, l)
                   t == Append(<<h>> \o q, l)
        <4>1. <<h>> \in Seq(Lines) /\ Len(<<h>>) = 1 /\ <<h>>[1] = h
          BY <3>1
        <4>2. /\ Append(q, l) \in Seq(Lines) /\ Len(Append(q, l)) = Len(q) + 1 /\ Len(q) \in Nat
              /\ \A i \in 1 .. Len(q) + 1 : Append(q, l)[i] = IF i = Len(q) + 1 THEN l ELSE q[i]
          BY <3>1
        <4>3. /\ s \in Seq(Lines) /\ Len(s) = Len(q) + 2
              /\ \A i \in 1 .. Len(q) + 2 : s[i] = IF i = 1 THEN h ELSE Append(q, l)[i - 1]
          BY <4>1, <4>2
        <4>4. /\ <<h>> \o q \in Seq(Lines) /\ Len(<<h>> \o q) = Len(q) + 1
              /\ \A i \in 1 .. Len(q) + 1 : (<<h>> \o q)[i] = IF i = 1 THEN h ELSE q[i - 1]
          BY <3>1, <4>1, <4>2
        <4>5. /\ t \in Seq(Lines) /\ Len(t) = Len(q) + 2
              /\ \A i \in 1 .. Len(q) + 2 : t[i] = IF i = Len(q) + 2 THEN l ELSE (<<h>> \o q)[i]
          BY <3>1, <4>2, <4>4
        <4> HIDE DEF s, t
        <4>6. \A i \in 1 .. Len(q) + 2 : s[i] = t[i]
          <5> TAKE i \in 1 .. Len(q) + 2
          <5>1. CASE i = 1
            BY <4>2, <4>3, <4>4, <4>5, <5>1
          <5>2. CASE i # 1
            <6>1. i - 1 \in 1 .. Len(q) + 1
              BY <4>2, <5>2
            <6>2. s[i] = Append(q, l)[i - 1]
              BY <4>3, <5>2
            <6>3. s[i] = IF i - 1 = Len(q) + 1 THEN l ELSE q[i - 1]
              BY <4>2, <6>1, <6>2
            <6>4. CASE i = Len(q) + 2
              BY <4>2, <4>5, <6>3, <6>4
            <6>5. CASE i # Len(q) + 2
              <7>1. i \in 1 .. Len(q) + 1 /\ i - 1 # Len(q) + 1
                BY <4>2, <6>5
              <7>2. t[i] = (<<h>> \o q)[i]
                BY <4>5, <6>5
              <7>3. (<<h>> \o q)[i] = q[i - 1]
                BY <4>4, <5>2, <7>1
              <7>4. QED
                BY <6>3, <7>1, <7>2, <7>3
            <6>6. QED
              BY <6>4, <6>5
          <5>3. QED
            BY <5>1, <5>2
        <4>7. s = t
          BY <4>3, <4>5, <4>6, SeqEqual
        <4>8. QED
          BY <4>4, <4>7 DEF s, t
      <3>4. QED
        BY <3>2, <3>3
    <2>4. QED
      BY <2>2, <2>3
  <1>5. /\ Inbox' = [Inbox EXCEPT ![c] = Inbox'[c]]
        /\ Inbox[c] = AllRequests(Unserved(c)) /\ Inbox'[c] = AllRequests(Unserved(c)')
    BY <1>3, InboxOf
  <1>6. Inbox'[c] = Append(Inbox[c], Request[l]) /\ Request[l] \in Requests
    <2>1. AllRequests(Append(Unserved(c), l)) = Append(AllRequests(Unserved(c)), Request[l])
      BY <1>4, RequestsAppend
    <2>2. QED
      BY <1>4, <1>5, <2>1 DEF Requests
  <1>7. Up[c] /\ Up' = Up
    BY <1>1 DEF Up
  <1>8. Content' = Content /\ out' = out /\ authenticated' = authenticated
    BY <1>1, ContentStays
  <1>9. QED
    BY <1>5, <1>6, <1>7, <1>8 DEF Map!Arrive

\* The connection is lost, or given up before a line is taken.
LEMMA DropSimulates ==
  ASSUME StoreInv, SessionInv, MapInv, NEW c \in Conn,
         Reset(c) \/ AcceptWithoutThread(c) \/ ReceiveZero(c)
  PROVE  Map!Drop(c) \/ UNCHANGED Map!vars
  <1>1. StoreTypes
    BY DEF StoreInv
  <1>2. /\ UNCHANGED <<store, authenticated, req, out>>
        /\ toServer' = [toServer EXCEPT ![c] = << >>]
        /\ \/ Reset(c) /\ spc' = spc /\ peer' = [peer EXCEPT ![c] = "reset"]
           \/ spc[c] # "put" /\ spc' = [spc EXCEPT ![c] = "closed"] /\ peer' = peer
    BY DEF Reset, AcceptWithoutThread, ReceiveZero, shared, session, putting, replies
  <1>3. \A d \in Conn \ {c} : /\ Unserved(d)' = Unserved(d)
                              /\ spc'[d] = spc[d] /\ peer'[d] = peer[d]
    BY <1>1, <1>2 DEF Unserved, StoreTypes, SessionInv
  <1>4. /\ Inbox' = [Inbox EXCEPT ![c] = Inbox'[c]]
        /\ Inbox[c] = AllRequests(Unserved(c)) /\ Inbox'[c] = AllRequests(Unserved(c)')
    BY <1>3, InboxOf
  <1>5. /\ Up' = [Up EXCEPT ![c] = Up'[c]]
        /\ Up[c] <=> spc[c] # "closed" /\ peer[c] # "reset"
        /\ Up'[c] <=> spc'[c] # "closed" /\ peer'[c] # "reset"
        /\ Up[c] \in BOOLEAN /\ Up'[c] \in BOOLEAN
    BY <1>3, UpOf
  <1>6. Up' = [Up EXCEPT ![c] = FALSE]
    <2>1. ~Up'[c]
      BY <1>1, <1>2, <1>5 DEF StoreTypes, SessionInv
    <2>2. QED
      BY <1>5, <2>1
  <1>7. AllRequests(<< >>) = << >> /\ toServer'[c] = << >>
    BY <1>1, <1>2 DEF AllRequests, StoreTypes
  <1>8. Content' = Content /\ out' = out /\ authenticated' = authenticated
    BY <1>2, ContentStays
  <1>9. CASE spc[c] # "put"
    <2>1. Unserved(c)' = << >> /\ Unserved(c) = toServer[c]
      BY <1>1, <1>2, <1>7, <1>9 DEF Unserved, StoreTypes
    <2>2. Inbox' = [Inbox EXCEPT ![c] = << >>]
      BY <1>4, <1>7, <2>1
    <2>3. CASE Up[c]
      BY <1>6, <1>8, <2>2, <2>3 DEF Map!Drop
    <2>4. CASE ~Up[c]
      <3>1. spc[c] # "closed" /\ peer[c] = "reset"
        BY <1>5, <2>4 DEF Reset, AcceptWithoutThread, ReceiveZero
      <3>2. toServer[c] = << >>
        BY <3>1 DEF MapInv
      <3>3. Inbox[c] = << >>
        BY <1>4, <1>7, <2>1, <3>2
      <3>4. Inbox' = Inbox
        BY <2>2, <3>3 DEF Inbox
      <3>5. Up' = Up
        BY <1>6, <1>5, <2>4 DEF Up
      <3>6. QED
        BY <1>8, <3>4, <3>5 DEF Map!vars
    <2>5. QED
      BY <2>3, <2>4
  <1>10. CASE spc[c] = "put"
    <2>1. Reset(c) /\ spc' = spc
      BY <1>2, <1>10
    <2>2. Up[c]
      BY <1>5, <2>1 DEF Reset
    <2>3. /\ Unserved(c) \in Seq(Lines) /\ Unserved(c) # << >> /\ Head(Unserved(c)) = req[c]
      BY <1>1, <1>10, UnservedPut DEF SessionInv, StoreTypes
    <2>4. Unserved(c)' = <<req[c]>>
      <3>1. Unserved(c)' = <<req[c]>> \o << >>
        BY <1>2, <1>7, <1>10, <2>1 DEF Unserved
      <3>2. QED
        BY <3>1
    <2>5. AllRequests(<<req[c]>>) = <<Request[req[c]]>>
      <3>1. DOMAIN <<req[c]>> = {1} /\ <<req[c]>>[1] = req[c]
        OBVIOUS
      <3>2. AllRequests(<<req[c]>>) = [i \in {1} |-> Request[req[c]]]
        BY <3>1 DEF AllRequests
      <3>3. <<Request[req[c]]>> = [i \in {1} |-> Request[req[c]]]
        OBVIOUS
      <3>4. QED
        BY <3>2, <3>3
    <2>6. Inbox[c] # << >> /\ Head(Inbox[c]) = Request[req[c]]
      BY <1>4, <2>3, RequestsOfLines
    <2>7. Inbox' = [Inbox EXCEPT ![c] = <<Head(Inbox[c])>>]
      BY <1>4, <2>4, <2>5, <2>6
    <2>8. QED
      BY <1>6, <1>8, <2>2, <2>6, <2>7 DEF Map!Drop
  <1>11. QED
    BY <1>9, <1>10

\* Steps that the map does not see.
LEMMA Unseen ==
  ASSUME StoreInv, SessionInv, NEW c \in Conn, ClientClose(c) \/ Accept(c) \/ PutScan(c)
  PROVE  UNCHANGED Map!vars
  <1>1. StoreTypes
    BY DEF StoreInv
  <1>2. UNCHANGED <<store, authenticated, out>>
    BY DEF ClientClose, Accept, PutScan, shared, session, replies
  <1>3. \A d \in Conn : Unserved(d)' = Unserved(d)
    <2>1. CASE ClientClose(c)
      BY <2>1 DEF ClientClose, putting, replies, Unserved
    <2>2. CASE Accept(c)
      BY <1>1, <2>2 DEF Accept, putting, network, Unserved, StoreTypes
    <2>3. CASE PutScan(c)
      <3>1. /\ spc[c] = "recv" /\ toServer[c] # << >> /\ toServer' = [toServer EXCEPT ![c] = Tail(@)]
            /\ req' = [req EXCEPT ![c] = Head(toServer[c])] /\ spc' = [spc EXCEPT ![c] = "put"]
        BY <2>3 DEF PutScan, Receive
      <3>2. \A d \in Conn \ {c} : Unserved(d)' = Unserved(d)
        BY <1>1, <3>1 DEF Unserved, StoreTypes
      <3>3. Unserved(c)' = Unserved(c)
        <4> DEFINE q == toServer[c]
        <4>1. q \in Seq(Lines) /\ q # << >>
          BY <1>1, <3>1 DEF StoreTypes
        <4>2. Unserved(c)' = <<Head(q)>> \o Tail(q) /\ Unserved(c) = q
          BY <1>1, <3>1 DEF Unserved, StoreTypes
        <4> HIDE DEF q
        <4>3. <<Head(q)>> \o Tail(q) = q
          <5> DEFINE t == <<Head(q)>> \o Tail(q)
          <5>1. /\ Head(q) \in Lines /\ Tail(q) \in Seq(Lines) /\ Len(Tail(q)) = Len(q) - 1
                /\ Len(q) \in Nat /\ Len(q) >= 1 /\ q[1] = Head(q)
                /\ \A i \in 1 .. Len(q) - 1 : Tail(q)[i] = q[i + 1]
            BY <4>1
          <5>2. <<Head(q)>> \in Seq(Lines) /\ Len(<<Head(q)>>) = 1 /\ <<Head(q)>>[1] = Head(q)
            BY <5>1
          <5>3. /\ t \in Seq(Lines) /\ Len(t) = Len(q)
                /\ \A i \in 1 .. Len(q) : t[i] = IF i = 1 THEN Head(q) ELSE Tail(q)[i - 1]
            BY <5>1, <5>2
          <5> HIDE DEF t
          <5>4. \A i \in 1 .. Len(q) : t[i] = q[i]
            BY <5>1, <5>3
          <5>5. QED
            BY <4>1, <5>3, <5>4, SeqEqual DEF t
        <4>4. QED
          BY <4>2, <4>3
      <3>4. QED
        BY <3>2, <3>3
    <2>4. QED
      BY <2>1, <2>2, <2>3
  <1>4. Inbox' = Inbox
    BY <1>3 DEF Inbox, AllRequests
  <1>5. Up' = Up
    <2>1. \A d \in Conn : (spc'[d] = "closed" <=> spc[d] = "closed") /\ (peer'[d] = "reset" <=> peer[d] = "reset")
      BY <1>1 DEF ClientClose, Accept, PutScan, Receive, network, replies, StoreTypes, SessionInv
    <2>2. QED
      BY <2>1 DEF Up
  <1>6. QED
    BY <1>2, <1>4, <1>5, ContentStays DEF Map!vars

\* Every behaviour of the slots, the lock and the threads is a behaviour of the
\* atomic map: lines are taken in order and once each, a request of somebody who
\* has logged in takes effect at one instant, and its reply is what the map said
\* then; no other answer tells anything.
THEOREM RefinesMap == Spec => ImplementsMap
  <1>1. Init => Map!Init
    <2> SUFFICES ASSUME Init PROVE Map!Init
      OBVIOUS
    <2>1. Used = {} /\ Keys = {}
      BY DEF Init, Used, Keys
    <2>2. Content = << >>
      BY <2>1 DEF Content
    <2>3. Inbox = [c \in Conn |-> << >>]
      <3>1. \A c \in Conn : Unserved(c) = << >>
        BY DEF Init, Unserved
      <3>2. AllRequests(<< >>) = << >>
        BY DEF AllRequests
      <3>3. QED
        BY <3>1, <3>2 DEF Inbox
    <2>4. Up = [c \in Conn |-> TRUE]
      BY DEF Init, Up
    <2>5. QED
      BY <2>2, <2>3, <2>4 DEF Init, Map!Init
  <1>2. StoreInv /\ SessionInv /\ MapInv /\ [Next]_vars => [Map!Next]_Map!vars
    <2> SUFFICES ASSUME StoreInv, SessionInv, MapInv, [Next]_vars PROVE [Map!Next]_Map!vars
      OBVIOUS
    <2>1. ASSUME NEW c \in Conn, ServerStep(c) \/ Environment(c)
          PROVE  Map!Next \/ UNCHANGED Map!vars
      <3>1. CASE PutWrite(c)
        BY <3>1, PutSimulates DEF Map!Next
      <3>2. CASE Get(c)
        BY <3>2, GetSimulates DEF Map!Next
      <3>3. CASE Del(c)
        BY <3>3, DelSimulates DEF Map!Next
      <3>4. CASE List(c)
        BY <3>4, ListSimulates DEF Map!Next
      <3>5. CASE Auth(c)
        BY <3>5, LoginSimulates, RefuseSimulates DEF Map!Next
      <3>6. CASE Reject(c) \/ InvalidInput(c) \/ Quit(c) \/ Unknown(c) \/ ReceiveError(c)
        BY <3>6, RefuseSimulates DEF Map!Next
      <3>7. CASE Send(c)
        BY <3>7, SendSimulates DEF Map!Next
      <3>8. CASE Reset(c) \/ AcceptWithoutThread(c) \/ ReceiveZero(c)
        BY <3>8, DropSimulates DEF Map!Next
      <3>9. CASE \E l \in Lines : ClientSend(c, l)
        BY <3>9, ArriveSimulates DEF Map!Next
      <3>10. CASE ClientClose(c) \/ Accept(c) \/ PutScan(c)
        BY <3>10, Unseen
      <3>11. QED
        BY <2>1, <3>1, <3>2, <3>3, <3>4, <3>5, <3>6, <3>7, <3>8, <3>9, <3>10
           DEF ServerStep, Work, Environment
    <2>2. CASE UNCHANGED vars
      <3>1. UNCHANGED <<store, out, spc, req, toServer, peer, authenticated>>
        BY <2>2 DEF vars, shared, session, putting, replies, network
      <3>2. Inbox' = Inbox /\ Up' = Up
        BY <3>1 DEF Inbox, AllRequests, Unserved, Up
      <3>3. QED
        BY <3>1, <3>2, ContentStays DEF Map!vars
    <2>3. QED
      BY <2>1, <2>2 DEF Next, AllClosed
  <1>3. QED
    BY <1>1, <1>2, StoreInvariance, SessionInvariance, MapInvariance, PTL DEF Spec, ImplementsMap, Map!Spec

=============================================================================
