------------------------------ MODULE KVServer ------------------------------
(***************************************************************************)
(* The key-value server of task4_network_ipc/server.c: main's accept loop, *)
(* one detached thread per connection running handle_client, and the       *)
(* shared array of slots behind store_lock.  The clients and the network   *)
(* are an environment that may send any line, pipeline lines, close, or    *)
(* lose the connection at any moment.                                      *)
(*                                                                         *)
(* A step is what a thread does between two interactions with the others:  *)
(* receiving a line and acting on it, the two halves of store_put inside   *)
(* its critical section, and every send.  A word longer than the buffers   *)
(* of sscanf is a sequence of pieces: a piece is what "%63s" accepts.      *)
(***************************************************************************)
EXTENDS Integers, Sequences, FiniteSetsExt

CONSTANTS
  Conn,          \* connections, each used for one session
  NoOne,         \* the holder of a free mutex
  Lines,         \* the lines clients may send
  Words,         \* the words and pieces of words on those lines
  Credentials,   \* VALID_USERS: pairs <<username, password>>
  Unprintable,   \* the pieces with a character is_valid_token refuses
  KeyLength,     \* characters of each piece
  MaxStore,      \* MAX_STORE
  MaxValue,      \* MAX_VALUE - 1, in pieces
  MaxLine,       \* MAX_LINE, in characters
  ListHeader,    \* characters of "OK LIST <count> "
  MaxAttempts,   \* MAX_AUTH_ATTEMPTS
  MaxInFlight,   \* bound: lines of one client the server has not received
  MaxSent        \* bound: lines one client sends

NoKey == "blank"   \* the empty string

\* A line is what recv_line makes of it (n: its length as -1, 0 or 1 for
\* "longer than the buffer", "empty" and "text") and its words: the command,
\* the pieces of the second word, and the pieces of the rest of the line.
ASSUME LinesAssumption ==
  /\ Lines \subseteq [n : {-1, 0, 1}, cmd : Words, word : Seq(Words), rest : Seq(Words)]
  /\ NoKey \in Words
ASSUME NoOneAssumption == NoOne \notin Conn
ASSUME BoundsAssumption ==
  /\ MaxStore \in Nat \ {0} /\ MaxValue \in Nat \ {0} /\ MaxLine \in Nat \ {0}
  /\ MaxAttempts \in Nat \ {0} /\ MaxInFlight \in Nat /\ MaxSent \in Nat
  /\ ListHeader \in Nat
  /\ \A w \in Words : KeyLength[w] \in Nat

Slot   == 0 .. MaxStore - 1
NoSlot == -1
NoLine == [n |-> 0, cmd |-> NoKey, word |-> << >>, rest |-> << >>]

VARIABLES
  \* shared: the slots [used, key, value] and their mutex
  store, store_lock,
  \* handle_client: where it is, its locals, the line in store_put and the
  \* slot chosen there, replies still to send, and where it goes then
  spc, authenticated, auth_attempts, req, slot, out, after,
  \* environment: lines in transit, each client's end, lines sent so far
  toServer, peer, sent

shared  == <<store, store_lock>>
session == <<authenticated, auth_attempts>>
putting == <<req, slot>>
replies == <<spc, out, after>>
network == <<toServer, peer, sent>>
vars    == <<shared, session, putting, replies, network>>

Init ==
  /\ store = [i \in Slot |-> [used |-> FALSE, key |-> NoKey, value |-> << >>]]
  /\ store_lock = NoOne
  /\ spc = [c \in Conn |-> "none"]
  /\ authenticated = [c \in Conn |-> FALSE]
  /\ auth_attempts = [c \in Conn |-> 0]
  /\ req = [c \in Conn |-> NoLine]
  /\ slot = [c \in Conn |-> NoSlot]
  /\ out = [c \in Conn |-> << >>]
  /\ after = [c \in Conn |-> "recv"]
  /\ toServer = [c \in Conn |-> << >>]
  /\ peer = [c \in Conn |-> "open"]
  /\ sent = [c \in Conn |-> 0]

-----------------------------------------------------------------------------
(* The environment.                                                        *)

ClientSend(c, l) ==
  /\ peer[c] = "open" /\ spc[c] # "closed"
  /\ sent[c] < MaxSent
  /\ Len(toServer[c]) < MaxInFlight
  /\ toServer' = [toServer EXCEPT ![c] = Append(@, l)]
  /\ sent' = [sent EXCEPT ![c] = @ + 1]
  /\ UNCHANGED <<shared, session, putting, replies, peer>>

\* The client closes its socket; what it sent before still arrives.
ClientClose(c) ==
  /\ peer[c] = "open" /\ spc[c] # "closed"
  /\ peer' = [peer EXCEPT ![c] = "closed"]
  /\ UNCHANGED <<shared, session, putting, replies, toServer, sent>>

\* The connection breaks and what is in transit is lost.
Reset(c) ==
  /\ peer[c] # "reset" /\ spc[c] # "closed"
  /\ peer' = [peer EXCEPT ![c] = "reset"]
  /\ toServer' = [toServer EXCEPT ![c] = << >>]
  /\ UNCHANGED <<shared, session, putting, replies, sent>>

-----------------------------------------------------------------------------
(* main: accept, then pthread_create, which may fail.                      *)

Accept(c) ==
  /\ spc[c] = "none"
  /\ spc' = [spc EXCEPT ![c] = "recv"]
  /\ UNCHANGED <<shared, session, putting, out, after, network>>

AcceptWithoutThread(c) ==
  /\ spc[c] = "none"
  /\ spc' = [spc EXCEPT ![c] = "closed"]
  /\ toServer' = [toServer EXCEPT ![c] = << >>]
  /\ UNCHANGED <<shared, session, putting, out, after, peer, sent>>

-----------------------------------------------------------------------------
(* Parsing, and the pure parts of the store.                               *)

\* sscanf(line, "%63s %63s %399[^\n]", cmd, arg1, arg2): arg1 is the first
\* piece of the second word; the pieces left over begin arg2, which is cut
\* off at its own buffer.
arg1(l) == IF l.word = << >> THEN NoKey ELSE Head(l.word)
arg2(l) ==
  LET all == IF l.word = << >> THEN << >> ELSE Tail(l.word) \o l.rest
  IN  SubSeq(all, 1, IF Len(all) < MaxValue THEN Len(all) ELSE MaxValue)

is_valid_token(s) == s # NoKey /\ s \notin Unprintable

Used == {i \in Slot : store[i].used}

\* A comparison that finds deleted entries too.
HoldsOrHeld(k) == {i \in Slot : store[i].key = k}
Holds(k) == {i \in Used : store[i].key = k}

\* A scan that stops at the first slot it could use.
PutSlotEager(k) ==
  LET ok == Holds(k) \cup (Slot \ Used) IN IF ok = {} THEN NoSlot ELSE Min(ok)

\* The scan of store_put: the slot that has the key, else the first free one.
PutSlot(k) ==
  IF Holds(k) # {} THEN Min(Holds(k))
  ELSE IF Slot \ Used # {} THEN Min(Slot \ Used)
  ELSE NoSlot

Reply(t) == [text |-> t, value |-> << >>, count |-> 0, keys |-> {}, len |-> 0]

\* store_list: keys are copied in slot order, each with a blank behind it, until
\* one does not fit, which is counted and cut off.  (The characters up to slot i
\* are counted as pairs of a slot and a position.)
Chars(slots) == UNION {{j} \X (0 .. KeyLength[store[j].key]) : j \in slots}
Offset(i) == Cardinality(Chars({j \in Used : j <= i}))
Complete == {i \in Used : Offset(i) < MaxLine}

Listing ==
  [text |-> "OK LIST", value |-> << >>,
   count |-> Cardinality(Complete) + IF Complete = Used THEN 0 ELSE 1,
   keys |-> {store[i].key : i \in Complete},
   len |-> ListHeader + IF Complete = Used THEN Offset(MaxStore - 1) ELSE MaxLine - 1]

\* With no key the buffer is sent uninitialised: it may hold any text, of any
\* length.  (All that handle_client ever puts into its stack frame are words and
\* lines without their newline, so the text is one line.)
ListReplies ==
  IF Used # {} THEN {Listing}
  ELSE {[Listing EXCEPT !.keys = k, !.len = n] :
          k \in {{}, {"garbage"}}, n \in {ListHeader, ListHeader + MaxLine}}

-----------------------------------------------------------------------------
(* handle_client: one action per branch of its loop.                       *)

\* recv_line returns a line of text and sscanf finds the command cmd in it.
Receive(c, cmd) ==
  /\ spc[c] = "recv"
  /\ toServer[c] # << >>
  /\ Head(toServer[c]).n = 1
  /\ Head(toServer[c]).cmd = cmd
  /\ toServer' = [toServer EXCEPT ![c] = Tail(@)]
  /\ UNCHANGED <<peer, sent>>

\* Replies to send, then on with the loop or out of it.
Answer(c, rs, next) ==
  /\ out' = [out EXCEPT ![c] = rs]
  /\ after' = [after EXCEPT ![c] = next]
  /\ spc' = [spc EXCEPT ![c] = "send"]

\* recv_line returns 0: the client has closed, or the line is empty.  Either
\* way the thread closes the socket, and lines behind an empty one are lost.
ReceiveZero(c) ==
  /\ spc[c] = "recv"
  /\ IF toServer[c] = << >> THEN peer[c] = "closed" ELSE Head(toServer[c]).n = 0
  /\ spc' = [spc EXCEPT ![c] = "closed"]
  /\ toServer' = [toServer EXCEPT ![c] = << >>]
  /\ UNCHANGED <<shared, session, putting, out, after, peer, sent>>

\* recv_line returns -1: a socket error, or a line that is too long.
ReceiveError(c) ==
  /\ spc[c] = "recv"
  /\ \/ /\ peer[c] = "reset"
        /\ UNCHANGED toServer
     \/ /\ toServer[c] # << >> /\ Head(toServer[c]).n = -1
        /\ toServer' = [toServer EXCEPT ![c] = Tail(@)]
  /\ Answer(c, <<Reply("ERR protocol_violation")>>, "closed")
  /\ UNCHANGED <<shared, session, putting, peer, sent>>

\* The limit, one failure late.
ExhaustedLate(n) == n > MaxAttempts
Exhausted(n) == n >= MaxAttempts

\* AUTH
Auth(c) ==
  LET l == Head(toServer[c])
      ok == <<arg1(l), arg2(l)>> \in Credentials
      refusal == Reply("ERR AUTH invalid_credentials") IN
  /\ Receive(c, "AUTH")
  /\ \/ /\ authenticated[c]
        /\ Answer(c, <<Reply("ERR already_authenticated")>>, "recv")
        /\ UNCHANGED session
     \/ /\ ~authenticated[c] /\ ok
        /\ authenticated' = [authenticated EXCEPT ![c] = TRUE]
        /\ Answer(c, <<Reply("OK AUTH")>>, "recv")
        /\ UNCHANGED auth_attempts
     \/ /\ ~authenticated[c] /\ ~ok
        /\ auth_attempts' = [auth_attempts EXCEPT ![c] = @ + 1]
        /\ IF Exhausted(auth_attempts[c] + 1)
             THEN Answer(c, <<refusal, Reply("ERR too_many_attempts_closing")>>, "closed")
             ELSE Answer(c, <<refusal>>, "recv")
        /\ UNCHANGED authenticated
  /\ UNCHANGED <<shared, putting>>

\* A rejection that goes back to recv without an answer.
RejectSilently(c) ==
  /\ ~authenticated[c]
  /\ spc[c] = "recv" /\ toServer[c] # << >> /\ Head(toServer[c]).cmd # "AUTH"
  /\ Receive(c, Head(toServer[c]).cmd)
  /\ UNCHANGED <<shared, session, putting, replies>>

\* Any other command before a successful AUTH.
Reject(c) ==
  /\ ~authenticated[c]
  /\ spc[c] = "recv" /\ toServer[c] # << >> /\ Head(toServer[c]).cmd # "AUTH"
  /\ Receive(c, Head(toServer[c]).cmd)
  /\ Answer(c, <<Reply("ERR not_authenticated")>>, "recv")
  /\ UNCHANGED <<shared, session, putting>>

Invalid == [PUT |-> "ERR PUT invalid_input", GET |-> "ERR GET invalid_input",
            DEL |-> "ERR DEL invalid_input"]

ValidPut(l) == is_valid_token(arg1(l)) /\ arg2(l) # << >>

\* PUT, GET and DEL of a key that is_valid_token refuses, PUT of no value.
InvalidInput(c) ==
  LET l == Head(toServer[c]) IN
  /\ authenticated[c]
  /\ \E cmd \in {"PUT", "GET", "DEL"} :
       /\ Receive(c, cmd)
       /\ IF cmd = "PUT" THEN ~ValidPut(l) ELSE ~is_valid_token(arg1(l))
       /\ Answer(c, <<Reply(Invalid[cmd])>>, "recv")
  /\ UNCHANGED <<shared, session, putting>>

\* The commands for everybody.
Anybody(c) == TRUE
\* The commands behind the check of authenticated.
LoggedIn(c) == authenticated[c]

\* Store functions without their mutex.
LockIgnored == TRUE
LockIsFree == store_lock = NoOne

\* PUT: store_put takes the mutex and looks for the slot.
PutScan(c) ==
  LET l == Head(toServer[c]) IN
  /\ LoggedIn(c)
  /\ Receive(c, "PUT")
  /\ ValidPut(l)
  /\ LockIsFree
  /\ store_lock' = c
  /\ req' = [req EXCEPT ![c] = l]
  /\ slot' = [slot EXCEPT ![c] = PutSlot(arg1(l))]
  /\ spc' = [spc EXCEPT ![c] = "put"]
  /\ UNCHANGED <<store, session, out, after>>

\* store_put that returns without unlocking when the store is full.
UnlockedIfStored(c) == IF slot[c] = NoSlot THEN c ELSE NoOne
Unlocked(c) == NoOne

\* It writes the slot, if it found one, and unlocks; the reply is the same
\* whatever store_put returns.
PutWrite(c) ==
  /\ spc[c] = "put"
  /\ IF slot[c] = NoSlot THEN UNCHANGED store
     ELSE store' = [store EXCEPT ![slot[c]] =
                      [used |-> TRUE, key |-> arg1(req[c]), value |-> arg2(req[c])]]
  /\ store_lock' = Unlocked(c)
  /\ req' = [req EXCEPT ![c] = NoLine]
  /\ slot' = [slot EXCEPT ![c] = NoSlot]
  /\ Answer(c, <<Reply("OK PUT")>>, "recv")
  /\ UNCHANGED <<session, network>>

\* GET: store_get is one critical section.
Get(c) ==
  LET k == arg1(Head(toServer[c])) IN
  /\ LoggedIn(c)
  /\ Receive(c, "GET")
  /\ is_valid_token(k)
  /\ LockIsFree
  /\ Answer(c, <<IF Holds(k) = {} THEN Reply("ERR GET not_found")
                 ELSE [Reply("OK GET") EXCEPT !.value = store[Min(Holds(k))].value]>>, "recv")
  /\ UNCHANGED <<shared, session, putting>>

\* DEL: store_del clears the first slot with the key; the slot keeps its text.
Del(c) ==
  LET k == arg1(Head(toServer[c])) IN
  /\ LoggedIn(c)
  /\ Receive(c, "DEL")
  /\ is_valid_token(k)
  /\ LockIsFree
  /\ IF Holds(k) = {}
       THEN UNCHANGED store /\ Answer(c, <<Reply("ERR DEL not_found")>>, "recv")
       ELSE /\ store' = [store EXCEPT ![Min(Holds(k))].used = FALSE]
            /\ Answer(c, <<Reply("OK DEL")>>, "recv")
  /\ UNCHANGED <<store_lock, session, putting>>

\* LIST
List(c) ==
  /\ LoggedIn(c)
  /\ Receive(c, "LIST")
  /\ LockIsFree
  /\ \E r \in ListReplies : Answer(c, <<r>>, "recv")
  /\ UNCHANGED <<shared, session, putting>>

\* QUIT
Quit(c) ==
  /\ LoggedIn(c)
  /\ Receive(c, "QUIT")
  /\ Answer(c, <<Reply("OK BYE")>>, "closed")
  /\ UNCHANGED <<shared, session, putting>>

\* Any other command.
Unknown(c) ==
  /\ LoggedIn(c)
  /\ spc[c] = "recv" /\ toServer[c] # << >>
  /\ Head(toServer[c]).cmd \notin {"AUTH", "PUT", "GET", "DEL", "LIST", "QUIT"}
  /\ Receive(c, Head(toServer[c]).cmd)
  /\ Answer(c, <<Reply("ERR unknown_command")>>, "recv")
  /\ UNCHANGED <<shared, session, putting>>

\* send_line, one reply at a time.  After the last one the loop goes on, or
\* ends in closesocket, and lines not received by then are lost.
Send(c) ==
  /\ spc[c] = "send"
  /\ out' = [out EXCEPT ![c] = Tail(@)]
  /\ IF Len(out[c]) > 1 THEN UNCHANGED <<spc, after, toServer>>
     ELSE /\ spc' = [spc EXCEPT ![c] = after[c]]
          /\ after' = [after EXCEPT ![c] = "recv"]
          /\ toServer' = [toServer EXCEPT ![c] = IF after[c] = "closed" THEN << >> ELSE @]
  /\ UNCHANGED <<shared, session, putting, peer, sent>>

-----------------------------------------------------------------------------
\* Everything a session's thread does but send.
Work(c) ==
  \/ Accept(c) \/ AcceptWithoutThread(c)
  \/ ReceiveZero(c) \/ ReceiveError(c)
  \/ Auth(c) \/ Reject(c) \/ InvalidInput(c)
  \/ PutScan(c) \/ PutWrite(c) \/ Get(c) \/ Del(c) \/ List(c)
  \/ Quit(c) \/ Unknown(c)

ServerStep(c) == Work(c) \/ Send(c)

Environment(c) ==
  \/ \E l \in Lines : ClientSend(c, l)
  \/ ClientClose(c) \/ Reset(c)

\* Every session is over.
AllClosed ==
  /\ \A c \in Conn : spc[c] = "closed"
  /\ UNCHANGED vars

Next == (\E c \in Conn : ServerStep(c) \/ Environment(c)) \/ AllClosed

Spec == Init /\ [][Next]_vars

\* The accept loop and every session's thread keep running when they can.
FairSpec == Spec /\ \A c \in Conn : WF_vars(ServerStep(c))

-----------------------------------------------------------------------------
(* Correctness.                                                            *)

\* Every variable has its type; in particular no session ever counts more
\* failed AUTHs than the limit.
TypeOK ==
  /\ DOMAIN store = Slot
  /\ \A i \in Slot : /\ DOMAIN store[i] = {"used", "key", "value"}
                     /\ store[i].used \in BOOLEAN
                     /\ store[i].key \in Words
                     /\ store[i].value \in Seq(Words)
  /\ store_lock \in Conn \cup {NoOne}
  /\ spc \in [Conn -> {"none", "recv", "put", "send", "closed"}]
  /\ authenticated \in [Conn -> BOOLEAN]
  /\ auth_attempts \in [Conn -> 0 .. MaxAttempts]
  /\ req \in [Conn -> Lines \cup {NoLine}]
  /\ slot \in [Conn -> Slot \cup {NoSlot}]
  /\ after \in [Conn -> {"recv", "closed"}]
  /\ \A c \in Conn : (spc[c] = "send") <=> (out[c] # << >>)
  /\ toServer \in [Conn -> Seq(Lines)]
  /\ peer \in [Conn -> {"open", "closed", "reset"}]
  /\ sent \in [Conn -> 0 .. MaxSent]

\* No key is ever in two slots, although deletions leave holes in front of
\* keys and every scan and write of store_put is two steps.
UniqueKeys ==
  \A i, j \in Slot :
    store[i].used /\ store[j].used /\ store[i].key = store[j].key => i = j

\* The slot store_put chose is still the right one when it writes: nobody
\* filled it, freed it or stored the key elsewhere in the meantime.
ScanStillValid ==
  \A c \in Conn : spc[c] = "put" => slot[c] = PutSlot(arg1(req[c]))

\* The limit on AUTH failures: the session that reaches it has not
\* authenticated, and nothing but the two refusals follows.
LockoutIsFinal ==
  \A c \in Conn : auth_attempts[c] = MaxAttempts =>
    /\ ~authenticated[c]
    /\ \/ spc[c] = "closed"
       \/ spc[c] = "send" /\ after[c] = "closed"

\* A thread does not outlive its client: when the client has closed or the
\* connection is lost, the session ends, even if its thread is waiting for
\* the mutex or has lines left to serve.
SessionEnds == \A c \in Conn : (peer[c] # "open") ~> (spc[c] = "closed")

\* Every line a client sends is dealt with: the thread gets through its queue
\* and back to recv, or closes the connection.
LinesAreServed ==
  \A c \in Conn :
    (toServer[c] # << >>) ~> (spc[c] = "closed" \/ (spc[c] = "recv" /\ toServer[c] = << >>))

-----------------------------------------------------------------------------
(* The slots and threads implement the atomic map of KVMap.  A PUT happens *)
(* when it writes; until then its line counts as not served.               *)

\* A line that handle_client does what it asks for, once it is its time.
Good(l) ==
  /\ l.n = 1
  /\ \/ l.cmd = "AUTH" /\ <<arg1(l), arg2(l)>> \in Credentials
     \/ l.cmd = "PUT" /\ ValidPut(l)
     \/ l.cmd \in {"GET", "DEL"} /\ is_valid_token(arg1(l))
     \/ l.cmd = "LIST"

Request == [l \in Lines |-> [cmd |-> l.cmd, key |-> arg1(l), value |-> arg2(l), valid |-> Good(l)]]
Requests == {Request[l] : l \in Lines}

Keys == {store[i].key : i \in Used}
Content == [k \in Keys |-> store[Min(Holds(k))].value]

Unserved(c) == IF spc[c] = "put" THEN <<req[c]>> \o toServer[c] ELSE toServer[c]
AllRequests(s) == [i \in DOMAIN s |-> Request[s[i]]]
Inbox == [c \in Conn |-> AllRequests(Unserved(c))]
Up == [c \in Conn |-> spc[c] # "closed" /\ peer[c] # "reset"]

Map == INSTANCE KVMap WITH
  Capacity <- MaxStore, ListRoom <- MaxLine,
  kv <- Content, inbox <- Inbox, res <- out, authed <- authenticated, up <- Up

\* Seen through this mapping every behaviour of the server is one of the map:
\* every line is taken once and in its order; one that asks for something of
\* the store takes effect at one instant, on the whole map, and its reply is
\* what the map said at that instant; and a refused one tells nothing.
ImplementsMap == Map!Spec

-----------------------------------------------------------------------------
(* What the code or its comments say that the program does not do.         *)

\* A PUT that is answered "OK PUT" is in the store when store_put is done.
AckedPutStored ==
  [][\A c \in Conn : spc[c] = "put" /\ out'[c] = <<Reply("OK PUT")>> =>
       \E i \in Slot : store'[i] = [used |-> TRUE, key |-> arg1(req[c]),
                                    value |-> arg2(req[c])]]_vars

\* recv_line returns "0 on clean disconnect": a session that ends there was
\* ended by its client.
ZeroMeansDisconnect ==
  [][\A c \in Conn : spc[c] = "recv" /\ spc'[c] = "closed" => peer[c] # "open"]_vars

=============================================================================
