--------------------------- MODULE KVSystemProofs ---------------------------
(***************************************************************************)
(* The server and its clients, for any number of connections and any lines *)
(* typed: what client.c takes for an answer is one, and nothing about the  *)
(* store is said to a client that was not told it is logged in.            *)
(***************************************************************************)
EXTENDS KVSystem, KVServerProofs

\* The session is over, or will be when its replies are sent.
Closing(c) == spc[c] = "closed" \/ (spc[c] = "send" /\ after[c] = "closed")

\* It ends because of too many failed AUTHs.
LockedOut(c) == Closing(c) /\ auth_attempts[c] = MaxAttempts

\* The replies on their way to client c, sent or not: none, one or two.
None(c) == toClient[c] = << >> /\ out[c] = << >>
One(c, r) ==
  \/ toClient[c] = << >> /\ out[c] = <<r>>
  \/ toClient[c] = <<r>> /\ out[c] = << >>
Two(c, r, n) ==
  \/ toClient[c] = << >> /\ out[c] = <<r, n>>
  \/ toClient[c] = <<r>> /\ out[c] = <<n>>
  \/ toClient[c] = <<r, n>> /\ out[c] = << >>

\* The client's line has been taken and it waits for what was made of it.
Awaited(c) == cpc[c] = "wait" /\ toServer[c] = << >> /\ spc[c] # "put"

\* Client and server take turns: while a connection is up there is one line, or
\* one answer, on it, except for the notice that ends a session with too many
\* failed AUTHs.
Flow(c) ==
  /\ spc[c] = "closed" => toServer[c] = << >>
  /\ spc[c] = "put" => authenticated[c]
  /\ peer[c] # "open" => toClient[c] = << >>
  /\ peer[c] = "open" =>
       /\ \/ None(c)
          \/ LockedOut(c) /\ \E n : One(c, n) /\ n.text = LockoutNotice
          \/ Awaited(c) /\ \E r : One(c, r) /\ r.text \in AnswersTo(input[c].cmd)
          \/ /\ Awaited(c) /\ LockedOut(c)
             /\ \E r, n : /\ Two(c, r, n) /\ r.text \in AnswersTo(input[c].cmd)
                          /\ n.text = LockoutNotice
       /\ toServer[c] # << >> => /\ cpc[c] = "wait" /\ toServer[c] = <<input[c]>>
                                 /\ spc[c] # "put"
       /\ spc[c] = "put" => cpc[c] = "wait" /\ req[c] = input[c]

\* No reply of s says anything about the store.
Clean(s) == \A i \in DOMAIN s : s[i].text \notin Map!Telling

\* Until "OK AUTH" is shown nothing about the store has been; a session that
\* has authenticated by then has just said so, and has not taken another line.
Login(c) ==
  "OK AUTH" \notin shown[c] =>
    /\ shown[c] \cap Map!Telling = {}
    /\ peer[c] = "open" =>
         IF authenticated[c] THEN One(c, Reply("OK AUTH"))
         ELSE spc[c] # "put" /\ Clean(toClient[c]) /\ Clean(out[c])

\* The inductive invariant.
SysInv ==
  /\ StoreInv /\ SessionInv /\ AuthInv
  /\ DOMAIN toClient = Conn /\ DOMAIN cpc = Conn /\ DOMAIN input = Conn /\ DOMAIN shown = Conn
  /\ \A c \in Conn : Flow(c) /\ Login(c)

-----------------------------------------------------------------------------
(* Steps of the server.                                                    *)

\* A reply is not nothing.
LEMMA NotEmpty == \A r, n : <<r>> # << >> /\ <<r, n>> # << >> /\ <<r>> # <<r, n>>
  OBVIOUS

\* Two replies, one after the other.
LEMMA AppendTwo ==
  \A r, n : Append(<<r>>, n) = <<r, n>> /\ Head(<<n>>) = n /\ Tail(<<n>>) = << >>
  <1> TAKE r, n
  <1>1. <<r>> \in Seq({r, n}) /\ <<r, n>> \in Seq({r, n})
    OBVIOUS
  <1>2. Append(<<r>>, n) = <<r, n>>
    <2>1. Append(<<r>>, n) \in Seq({r, n}) /\ Len(Append(<<r>>, n)) = 2
      BY <1>1
    <2>2. Append(<<r>>, n)[1] = r /\ Append(<<r>>, n)[2] = n
      BY <1>1
    <2>3. Len(<<r, n>>) = 2 /\ <<r, n>>[1] = r /\ <<r, n>>[2] = n
      OBVIOUS
    <2>4. \A i \in 1 .. Len(Append(<<r>>, n)) : Append(<<r>>, n)[i] = <<r, n>>[i]
      BY <2>1, <2>2, <2>3
    <2>5. QED
      BY <1>1, <2>1, <2>3, <2>4, SeqEqual
  <1>3. QED
    BY <1>2

\* The first reply, and what is behind it.
LEMMA HeadTail ==
  \A r, n : /\ Head(<<r>>) = r /\ Head(<<r, n>>) = r
            /\ Tail(<<r>>) = << >> /\ Tail(<<r, n>>) = <<n>>
  OBVIOUS

\* Replies, one by one.
LEMMA CleanReplies ==
  /\ Clean(<< >>)
  /\ \A r : Clean(<<r>>) <=> r.text \notin Map!Telling
  /\ \A r, n : Clean(<<r, n>>) <=> r.text \notin Map!Telling /\ n.text \notin Map!Telling
  <1>1. Clean(<< >>)
    BY DEF Clean
  <1>2. ASSUME NEW r PROVE Clean(<<r>>) <=> r.text \notin Map!Telling
    <2>1. DOMAIN <<r>> = {1} /\ <<r>>[1] = r
      OBVIOUS
    <2>2. QED
      BY <2>1 DEF Clean
  <1>3. ASSUME NEW r, NEW n
        PROVE  Clean(<<r, n>>) <=> r.text \notin Map!Telling /\ n.text \notin Map!Telling
    <2>1. DOMAIN <<r, n>> = {1, 2} /\ <<r, n>>[1] = r /\ <<r, n>>[2] = n
      OBVIOUS
    <2>2. QED
      BY <2>1 DEF Clean
  <1>4. QED
    BY <1>1, <1>2, <1>3

\* Nothing that concerns connection d changes.
Untouched(d) ==
  /\ peer'[d] = peer[d] /\ toServer'[d] = toServer[d] /\ toClient'[d] = toClient[d]
  /\ spc'[d] = spc[d] /\ out'[d] = out[d] /\ after'[d] = after[d] /\ req'[d] = req[d]
  /\ authenticated'[d] = authenticated[d] /\ auth_attempts'[d] = auth_attempts[d]
  /\ cpc'[d] = cpc[d] /\ input'[d] = input[d] /\ shown'[d] = shown[d]

\* So what the invariant says of it stays true.
LEMMA UntouchedStays ==
  ASSUME NEW d \in Conn, Flow(d), Login(d), Untouched(d)
  PROVE  Flow(d)' /\ Login(d)'
  <1>1. Flow(d)'
    BY DEF Untouched, Flow, None, One, Two, Closing, LockedOut, Awaited
  <1>2. Login(d)'
    BY DEF Untouched, Login, One, Clean
  <1>3. QED
    BY <1>1, <1>2

\* The thread of c answers the line it has taken.
Reacts(c) ==
  /\ peer'[c] = peer[c] /\ toClient'[c] = toClient[c]
  /\ cpc'[c] = cpc[c] /\ input'[c] = input[c] /\ shown'[c] = shown[c]
  /\ spc'[c] = "send"
  /\ peer[c] = "open" =>
       /\ cpc[c] = "wait" /\ None(c) /\ toServer'[c] = << >>
       /\ \E r : /\ r.text \in AnswersTo(input[c].cmd)
                 /\ \/ out'[c] = <<r>>
                    \/ /\ after'[c] = "closed" /\ auth_attempts'[c] = MaxAttempts
                       /\ \E n : out'[c] = <<r, n>> /\ n.text = LockoutNotice
  /\ \/ authenticated'[c] = authenticated[c] /\ (authenticated[c] \/ Clean(out'[c]))
     \/ authenticated'[c] /\ out'[c] = <<Reply("OK AUTH")>>

\* That keeps the connection in order.
LEMMA ReactsStays ==
  ASSUME NEW c \in Conn, Flow(c), Login(c), Reacts(c)
  PROVE  Flow(c)' /\ Login(c)'
  <1>1. CASE peer[c] # "open"
    <2>1. Flow(c)'
      BY <1>1 DEF Flow, Reacts
    <2>2. Login(c)'
      BY <1>1 DEF Login, Reacts
    <2>3. QED
      BY <2>1, <2>2
  <1>2. CASE peer[c] = "open"
    <2>1. PICK r : /\ r.text \in AnswersTo(input[c].cmd)
                   /\ \/ out'[c] = <<r>>
                      \/ /\ after'[c] = "closed" /\ auth_attempts'[c] = MaxAttempts
                         /\ \E n : out'[c] = <<r, n>> /\ n.text = LockoutNotice
      BY <1>2 DEF Reacts
    <2>2. /\ peer'[c] = "open" /\ toClient'[c] = << >> /\ cpc'[c] = "wait"
          /\ input'[c] = input[c] /\ shown'[c] = shown[c]
          /\ spc'[c] = "send" /\ toServer'[c] = << >> /\ None(c)
      BY <1>2 DEF Reacts, None
    <2>3. Awaited(c)'
      BY <2>2 DEF Awaited
    <2>4. Flow(c)'
      <3>1. CASE out'[c] = <<r>>
        <4>1. One(c, r)'
          BY <2>2, <3>1 DEF One
        <4>2. QED
          BY <2>1, <2>2, <2>3, <4>1 DEF Flow
      <3>2. CASE after'[c] = "closed" /\ auth_attempts'[c] = MaxAttempts
                 /\ \E n : out'[c] = <<r, n>> /\ n.text = LockoutNotice
        <4>1. PICK n : out'[c] = <<r, n>> /\ n.text = LockoutNotice
          BY <3>2
        <4>2. Two(c, r, n)' /\ LockedOut(c)'
          BY <2>2, <3>2, <4>1 DEF Two, Closing, LockedOut
        <4>3. QED
          BY <2>1, <2>2, <2>3, <4>1, <4>2 DEF Flow
      <3>3. QED
        BY <2>1, <3>1, <3>2
    <2>5. Login(c)'
      <3> SUFFICES ASSUME "OK AUTH" \notin shown[c] PROVE Login(c)'
        BY <2>2 DEF Login
      <3>1. ~authenticated[c] /\ shown[c] \cap Map!Telling = {}
        <4>1. ~One(c, Reply("OK AUTH"))
          BY <2>2, NotEmpty DEF One, None
        <4>2. QED
          BY <1>2, <4>1, Zenon DEF Login
      <3>2. Clean(toClient'[c])
        BY <2>2, CleanReplies
      <3>3. CASE authenticated'[c] = authenticated[c] /\ Clean(out'[c])
        BY <2>2, <3>1, <3>2, <3>3 DEF Login, Clean
      <3>4. CASE authenticated'[c] /\ out'[c] = <<Reply("OK AUTH")>>
        <4>1. One(c, Reply("OK AUTH"))'
          BY <2>2, <3>4 DEF One, Reply
        <4>2. QED
          BY <2>2, <3>1, <3>4, <4>1 DEF Login
      <3>5. QED
        BY <3>1, <3>3, <3>4 DEF Reacts
    <2>6. QED
      BY <2>4, <2>5
  <1>3. QED
    BY <1>1, <1>2

\* A thread that takes the line of a client that is there finds nothing else on
\* the connection.
LEMMA LineTaken ==
  ASSUME SysInv, NEW c \in Conn, peer[c] = "open", spc[c] = "recv", toServer[c] # << >>
  PROVE  cpc[c] = "wait" /\ None(c) /\ toServer[c] = <<input[c]>> /\ Head(toServer[c]) = input[c]
         /\ Tail(toServer[c]) = << >>
  <1>1. Flow(c)
    BY DEF SysInv
  <1>2. cpc[c] = "wait" /\ toServer[c] = <<input[c]>>
    BY <1>1 DEF Flow
  <1>3. ~LockedOut(c) /\ ~Awaited(c)
    BY DEF Closing, LockedOut, Awaited
  <1>4. None(c)
    BY <1>1, <1>3 DEF Flow
  <1>5. Head(<<input[c]>>) = input[c] /\ Tail(<<input[c]>>) = << >>
    OBVIOUS
  <1>6. QED
    BY <1>2, <1>4, <1>5

\* The replies to each command.
LEMMA AnswerTexts ==
  /\ \A cmd : "ERR not_authenticated" \in AnswersTo(cmd) /\ "ERR protocol_violation" \in AnswersTo(cmd)
  /\ {"OK AUTH", "ERR AUTH invalid_credentials", "ERR already_authenticated"} \subseteq AnswersTo("AUTH")
  /\ {"OK PUT", "ERR PUT invalid_input"} \subseteq AnswersTo("PUT")
  /\ {"OK GET", "ERR GET not_found", "ERR GET invalid_input"} \subseteq AnswersTo("GET")
  /\ {"OK DEL", "ERR DEL not_found", "ERR DEL invalid_input"} \subseteq AnswersTo("DEL")
  /\ "OK LIST" \in AnswersTo("LIST") /\ "OK BYE" \in AnswersTo("QUIT")
  /\ \A cmd : cmd \notin {"AUTH", "PUT", "GET", "DEL", "LIST", "QUIT"} =>
       "ERR unknown_command" \in AnswersTo(cmd)
  BY DEF AnswersTo

\* A command that sends one reply r which answers it and leaves the login as it is.
LEMMA CommandReacts ==
  ASSUME SysInv, NEW c \in Conn, NEW cmd, Receive(c, cmd), NEW r, NEW next, Answer(c, <<r>>, next),
         UNCHANGED <<authenticated, toClient, client>>,
         r.text \in AnswersTo(cmd), authenticated[c] \/ r.text \notin Map!Telling
  PROVE  Reacts(c)
  <1>1. /\ spc[c] = "recv" /\ toServer[c] # << >> /\ Head(toServer[c]).cmd = cmd
        /\ toServer' = [toServer EXCEPT ![c] = Tail(@)] /\ peer' = peer
        /\ out' = [out EXCEPT ![c] = <<r>>] /\ spc' = [spc EXCEPT ![c] = "send"]
    BY DEF Receive, Answer
  <1>2. out'[c] = <<r>> /\ spc'[c] = "send" /\ toServer'[c] = Tail(toServer[c])
    BY <1>1 DEF SysInv, StoreInv, StoreTypes, SessionInv
  <1>3. /\ UNCHANGED <<cpc, input, shown>>
        /\ peer[c] = "open" => /\ cpc[c] = "wait" /\ None(c) /\ toServer'[c] = << >>
                               /\ input[c].cmd = cmd
    BY <1>1, <1>2, LineTaken DEF client
  <1>4. authenticated[c] \/ Clean(out'[c])
    <2>1. CASE authenticated[c]
      BY <2>1
    <2>2. CASE r.text \notin Map!Telling
      BY <1>2, <2>2, CleanReplies
    <2>3. QED
      BY <2>1, <2>2
  <1>5. /\ peer'[c] = peer[c] /\ toClient'[c] = toClient[c] /\ cpc'[c] = cpc[c]
        /\ input'[c] = input[c] /\ shown'[c] = shown[c] /\ authenticated'[c] = authenticated[c]
    BY <1>1, <1>3
  <1>6. peer[c] = "open" => \E q : q.text \in AnswersTo(input[c].cmd) /\ out'[c] = <<q>>
    BY <1>2, <1>3
  <1>7. QED
    BY <1>2, <1>3, <1>4, <1>5, <1>6, Zenon DEF Reacts

\* AUTH: the login that succeeds says so; one failure too many says two things.
LEMMA AuthReacts ==
  ASSUME SysInv, NEW c \in Conn, Auth(c), UNCHANGED <<toClient, client>>
  PROVE  Reacts(c)
  <1> DEFINE refusal == Reply("ERR AUTH invalid_credentials")
             notice == Reply("ERR too_many_attempts_closing")
  <1>1. Receive(c, "AUTH")
    BY DEF Auth
  <1>2. /\ Reply("ERR already_authenticated").text = "ERR already_authenticated"
        /\ Reply("OK AUTH").text = "OK AUTH"
        /\ refusal.text = "ERR AUTH invalid_credentials" /\ notice.text = LockoutNotice
    BY DEF Reply, LockoutNotice
  <1>3. CASE authenticated[c] /\ Answer(c, <<Reply("ERR already_authenticated")>>, "recv")
             /\ UNCHANGED session
    <2>1. Reply("ERR already_authenticated").text \in AnswersTo("AUTH")
      BY <1>2, AnswerTexts
    <2>2. UNCHANGED <<authenticated, toClient, client>>
      BY <1>3 DEF session
    <2>3. QED
      BY <1>1, <1>3, <2>1, <2>2, CommandReacts
  <1>4. CASE ~authenticated[c] /\ UNCHANGED authenticated
             /\ Answer(c, <<refusal>>, "recv")
    <2>1. refusal.text \in AnswersTo("AUTH") /\ refusal.text \notin Map!Telling
      BY <1>2, AnswerTexts DEF Map!Telling
    <2>2. QED
      BY <1>1, <1>4, <2>1, CommandReacts
  <1>5. /\ spc[c] = "recv" /\ toServer[c] # << >> /\ Head(toServer[c]).cmd = "AUTH"
        /\ toServer' = [toServer EXCEPT ![c] = Tail(@)] /\ peer' = peer
    BY <1>1 DEF Receive
  <1>6. /\ toServer'[c] = Tail(toServer[c]) /\ peer'[c] = peer[c] /\ toClient'[c] = toClient[c]
        /\ cpc'[c] = cpc[c] /\ input'[c] = input[c] /\ shown'[c] = shown[c]
    BY <1>5 DEF SysInv, StoreInv, StoreTypes, client
  <1>7. peer[c] = "open" => /\ cpc[c] = "wait" /\ None(c) /\ toServer'[c] = << >>
                            /\ input[c].cmd = "AUTH"
    BY <1>5, <1>6, LineTaken
  <1>8. CASE /\ authenticated' = [authenticated EXCEPT ![c] = TRUE]
             /\ Answer(c, <<Reply("OK AUTH")>>, "recv")
    <2>1. out'[c] = <<Reply("OK AUTH")>> /\ spc'[c] = "send"
      BY <1>8 DEF Answer, SysInv, StoreInv, StoreTypes, SessionInv
    <2>2. authenticated'[c]
      BY <1>8, Zenon DEF SysInv, AuthInv
    <2>3. peer[c] = "open" => \E q : q.text \in AnswersTo(input[c].cmd) /\ out'[c] = <<q>>
      BY <1>2, <1>7, <2>1, AnswerTexts
    <2>4. QED
      BY <1>6, <1>7, <2>1, <2>2, <2>3, Zenon DEF Reacts
  <1>9. CASE /\ ~authenticated[c] /\ UNCHANGED authenticated
             /\ Answer(c, <<refusal, notice>>, "closed")
             /\ auth_attempts' = [auth_attempts EXCEPT ![c] = @ + 1]
             /\ Exhausted(auth_attempts[c] + 1)
    <2>0. auth_attempts'[c] = MaxAttempts
      <3>1. auth_attempts[c] \in 0 .. MaxAttempts /\ auth_attempts[c] # MaxAttempts
        BY <1>5 DEF SysInv, AuthInv, LockoutIsFinal
      <3>2. auth_attempts'[c] = auth_attempts[c] + 1
        BY <1>9 DEF SysInv, AuthInv
      <3>3. auth_attempts[c] + 1 >= MaxAttempts /\ MaxAttempts \in Nat
        BY <1>9, BoundsAssumption DEF Exhausted
      <3>4. QED
        BY <3>1, <3>2, <3>3
    <2>1. out'[c] = <<refusal, notice>> /\ spc'[c] = "send" /\ after'[c] = "closed"
      BY <1>9 DEF Answer, SysInv, StoreInv, StoreTypes, SessionInv
    <2>2. Clean(out'[c])
      BY <1>2, <2>1, CleanReplies DEF Map!Telling, LockoutNotice
    <2>3. peer[c] = "open" =>
            \E q : /\ q.text \in AnswersTo(input[c].cmd) /\ after'[c] = "closed"
                   /\ auth_attempts'[c] = MaxAttempts
                   /\ \E n : out'[c] = <<q, n>> /\ n.text = LockoutNotice
      BY <1>2, <1>7, <2>0, <2>1, AnswerTexts
    <2>4. authenticated'[c] = authenticated[c]
      BY <1>9
    <2>5. QED
      BY <1>6, <1>7, <2>1, <2>2, <2>3, <2>4, Zenon DEF Reacts
  <1>10. QED
    BY <1>3, <1>4, <1>8, <1>9 DEF Auth

\* The other commands, and the lines that are too long.
LEMMA OthersReact ==
  ASSUME SysInv, NEW c \in Conn, UNCHANGED <<toClient, client>>,
         Reject(c) \/ InvalidInput(c) \/ Get(c) \/ Del(c) \/ List(c) \/ Quit(c) \/ Unknown(c)
  PROVE  Reacts(c)
  <1> USE DEF session
  <1>1. CASE Reject(c)
    <2>1. PICK cmd : Receive(c, cmd) /\ Answer(c, <<Reply("ERR not_authenticated")>>, "recv")
      BY <1>1 DEF Reject
    <2>2. /\ Reply("ERR not_authenticated").text \in AnswersTo(cmd)
          /\ Reply("ERR not_authenticated").text \notin Map!Telling
      BY AnswerTexts DEF Reply, Map!Telling
    <2>3. QED
      BY <1>1, <2>1, <2>2, CommandReacts DEF Reject
  <1>2. CASE InvalidInput(c)
    <2>1. PICK cmd \in {"PUT", "GET", "DEL"} :
            Receive(c, cmd) /\ Answer(c, <<Reply(Invalid[cmd])>>, "recv")
      BY <1>2 DEF InvalidInput
    <2>2. Reply(Invalid[cmd]).text \in AnswersTo(cmd)
      <3>1. /\ Invalid["PUT"] = "ERR PUT invalid_input" /\ Invalid["GET"] = "ERR GET invalid_input"
            /\ Invalid["DEL"] = "ERR DEL invalid_input"
        BY DEF Invalid
      <3>2. Reply(Invalid[cmd]).text = Invalid[cmd]
        BY DEF Reply
      <3>3. QED
        BY <3>1, <3>2, AnswerTexts
    <2>3. authenticated[c] /\ UNCHANGED <<authenticated, toClient, client>>
      BY <1>2 DEF InvalidInput
    <2>4. QED
      BY <2>1, <2>2, <2>3, CommandReacts
  <1>3. CASE Get(c)
    <2> DEFINE k == arg1(Head(toServer[c]))
               r == IF Holds(k) = {} THEN Reply("ERR GET not_found")
                    ELSE [Reply("OK GET") EXCEPT !.value = store[Min(Holds(k))].value]
    <2>1. Receive(c, "GET") /\ Answer(c, <<r>>, "recv")
      BY <1>3 DEF Get
    <2>2. r.text \in AnswersTo("GET")
      <3>1. r.text \in {"OK GET", "ERR GET not_found"}
        BY DEF Reply
      <3>2. QED
        BY <3>1, AnswerTexts
    <2> HIDE DEF r
    <2>3. authenticated[c] /\ UNCHANGED <<authenticated, toClient, client>>
      BY <1>3 DEF Get, LoggedIn
    <2>4. QED
      BY <2>1, <2>2, <2>3, CommandReacts
  <1>4. CASE Del(c)
    <2>1. /\ Receive(c, "DEL")
          /\ \/ Answer(c, <<Reply("ERR DEL not_found")>>, "recv")
             \/ Answer(c, <<Reply("OK DEL")>>, "recv")
      <3>1. CASE Holds(arg1(Head(toServer[c]))) = {}
        BY <1>4, <3>1 DEF Del
      <3>2. CASE Holds(arg1(Head(toServer[c]))) # {}
        BY <1>4, <3>2 DEF Del
      <3>3. QED
        BY <3>1, <3>2
    <2>2. /\ Reply("OK DEL").text \in AnswersTo("DEL")
          /\ Reply("ERR DEL not_found").text \in AnswersTo("DEL")
      BY AnswerTexts DEF Reply
    <2>3. authenticated[c] /\ UNCHANGED <<authenticated, toClient, client>>
      BY <1>4 DEF Del, LoggedIn
    <2>4. QED
      BY <2>1, <2>2, <2>3, CommandReacts
  <1>5. CASE List(c)
    <2>1. PICK r \in ListReplies : Receive(c, "LIST") /\ Answer(c, <<r>>, "recv")
      BY <1>5 DEF List
    <2>2. r.text \in AnswersTo("LIST")
      <3>1. r.text = "OK LIST"
        BY ListingOfMap DEF SysInv
      <3>2. QED
        BY <3>1, AnswerTexts
    <2>3. authenticated[c] /\ UNCHANGED <<authenticated, toClient, client>>
      BY <1>5 DEF List, LoggedIn
    <2>4. QED
      BY <2>1, <2>2, <2>3, CommandReacts
  <1>6. CASE Quit(c)
    <2>1. Receive(c, "QUIT") /\ Answer(c, <<Reply("OK BYE")>>, "closed")
      BY <1>6 DEF Quit
    <2>2. Reply("OK BYE").text \in AnswersTo("QUIT")
      BY AnswerTexts DEF Reply
    <2>3. authenticated[c] /\ UNCHANGED <<authenticated, toClient, client>>
      BY <1>6 DEF Quit, LoggedIn
    <2>4. QED
      BY <2>1, <2>2, <2>3, CommandReacts
  <1>7. CASE Unknown(c)
    <2>1. PICK cmd : /\ Receive(c, cmd) /\ Answer(c, <<Reply("ERR unknown_command")>>, "recv")
                     /\ cmd \notin {"AUTH", "PUT", "GET", "DEL", "LIST", "QUIT"}
      BY <1>7 DEF Unknown
    <2>2. Reply("ERR unknown_command").text \in AnswersTo(cmd)
      BY <2>1, AnswerTexts DEF Reply
    <2>3. authenticated[c] /\ UNCHANGED <<authenticated, toClient, client>>
      BY <1>7 DEF Unknown, LoggedIn
    <2>4. QED
      BY <2>1, <2>2, <2>3, CommandReacts
  <1>8. QED
    BY <1>1, <1>2, <1>3, <1>4, <1>5, <1>6, <1>7

\* A line that is too long, or a connection that broke.
LEMMA ErrorReacts ==
  ASSUME SysInv, NEW c \in Conn, UNCHANGED <<toClient, client>>, ReceiveError(c)
  PROVE  Reacts(c)
  <1> DEFINE r == Reply("ERR protocol_violation")
  <1>1. /\ spc[c] = "recv" /\ peer' = peer /\ authenticated' = authenticated
        /\ out' = [out EXCEPT ![c] = <<r>>] /\ spc' = [spc EXCEPT ![c] = "send"]
        /\ \/ peer[c] = "reset"
           \/ toServer[c] # << >> /\ toServer' = [toServer EXCEPT ![c] = Tail(@)]
    BY DEF ReceiveError, Answer, session
  <1>2. (\A cmd : r.text \in AnswersTo(cmd)) /\ r.text \notin Map!Telling
    BY AnswerTexts DEF Reply, Map!Telling
  <1> HIDE DEF r
  <1>3. out'[c] = <<r>> /\ spc'[c] = "send" /\ Clean(out'[c])
    BY <1>1, <1>2, CleanReplies DEF SysInv, StoreInv, StoreTypes, SessionInv
  <1>4. peer[c] = "open" => cpc[c] = "wait" /\ None(c) /\ toServer'[c] = << >>
    BY <1>1, LineTaken DEF SysInv, StoreInv, StoreTypes
  <1>5. /\ peer'[c] = peer[c] /\ toClient'[c] = toClient[c] /\ cpc'[c] = cpc[c]
        /\ input'[c] = input[c] /\ shown'[c] = shown[c] /\ authenticated'[c] = authenticated[c]
    BY <1>1 DEF client
  <1>6. QED
    BY <1>2, <1>3, <1>4, <1>5, Zenon DEF Reacts

\* The second half of store_put.
LEMMA PutReacts ==
  ASSUME SysInv, NEW c \in Conn, UNCHANGED <<toClient, client>>, PutWrite(c)
  PROVE  Reacts(c)
  <1> DEFINE r == Reply("OK PUT")
  <1>1. /\ spc[c] = "put" /\ peer' = peer /\ authenticated' = authenticated /\ toServer' = toServer
        /\ out' = [out EXCEPT ![c] = <<r>>] /\ spc' = [spc EXCEPT ![c] = "send"]
    BY DEF PutWrite, Answer, session, network
  <1>2. r.text \in AnswersTo("PUT")
    BY AnswerTexts DEF Reply
  <1> HIDE DEF r
  <1>3. out'[c] = <<r>> /\ spc'[c] = "send"
    BY <1>1 DEF SysInv, StoreInv, StoreTypes, SessionInv
  <1>4. Flow(c) /\ Login(c) /\ req[c].cmd = "PUT"
    BY <1>1 DEF SysInv, SessionInv
  <1>5. peer[c] = "open" =>
          cpc[c] = "wait" /\ None(c) /\ toServer'[c] = << >> /\ input[c].cmd = "PUT"
    BY <1>1, <1>4 DEF Flow, Awaited, Closing, LockedOut
  <1>6. /\ peer'[c] = peer[c] /\ toClient'[c] = toClient[c] /\ cpc'[c] = cpc[c]
        /\ input'[c] = input[c] /\ shown'[c] = shown[c] /\ authenticated'[c] = authenticated[c]
    BY <1>1 DEF client
  <1>7. authenticated[c] \/ Clean(out'[c])
    BY <1>1, <1>4, Zenon DEF Flow
  <1>8. QED
    BY <1>2, <1>3, <1>5, <1>6, <1>7, Zenon DEF Reacts

\* A session begins, or ends before its client has an answer, or takes a PUT.
LEMMA OpenOrClose ==
  ASSUME SysInv, NEW c \in Conn, UNCHANGED <<toClient, client>>,
         Accept(c) \/ AcceptWithoutThread(c) \/ ReceiveZero(c)
  PROVE  Flow(c)' /\ Login(c)'
  <1>1. /\ spc[c] \in {"none", "recv"} /\ spc'[c] \in {"recv", "closed"}
        /\ peer' = peer /\ out' = out /\ authenticated' = authenticated
        /\ spc'[c] = "closed" => toServer'[c] = << >>
        /\ toServer'[c] = toServer[c] \/ toServer'[c] = << >>
    BY DEF Accept, AcceptWithoutThread, ReceiveZero, SysInv, StoreInv, StoreTypes, session, network
  <1>2. UNCHANGED <<cpc, input, shown, toClient>>
    BY DEF client
  <1>3. Flow(c) /\ Login(c)
    BY DEF SysInv
  <1>4. ~LockedOut(c) /\ (Awaited(c) => Awaited(c)')
    BY <1>1, <1>2 DEF Closing, LockedOut, Awaited
  <1>5. /\ None(c) => None(c)'
        /\ \A r : One(c, r) => One(c, r)'
    BY <1>1, <1>2 DEF None, One
  <1>6. Flow(c)'
    BY <1>1, <1>2, <1>3, <1>4, <1>5 DEF Flow
  <1>7. Login(c)'
    BY <1>1, <1>2, <1>3, <1>5 DEF Login, Clean
  <1>8. QED
    BY <1>6, <1>7

\* store_put has the line; its client is the one that typed it.
LEMMA PutTaken ==
  ASSUME SysInv, NEW c \in Conn, UNCHANGED <<toClient, client>>, PutScan(c)
  PROVE  Flow(c)' /\ Login(c)'
  <1>1. Receive(c, "PUT") /\ authenticated[c] /\ UNCHANGED <<out, after, authenticated>>
    BY DEF PutScan, LoggedIn, session
  <1>2. /\ spc[c] = "recv" /\ toServer[c] # << >> /\ peer' = peer
        /\ spc'[c] = "put" /\ req'[c] = Head(toServer[c]) /\ toServer'[c] = Tail(toServer[c])
    BY <1>1 DEF Receive, PutScan, SysInv, StoreInv, StoreTypes
  <1>3. UNCHANGED <<cpc, input, shown, toClient>>
    BY DEF client
  <1>4. Flow(c) /\ Login(c) /\ authenticated'[c]
    BY <1>1, Zenon DEF SysInv
  <1>5. peer[c] = "open" => /\ cpc[c] = "wait" /\ None(c) /\ toServer'[c] = << >>
                            /\ req'[c] = input[c]
    BY <1>2, LineTaken
  <1>6. Flow(c)'
    BY <1>2, <1>1, <1>3, <1>4, <1>5 DEF Flow, None
  <1>7. Login(c)'
    <2>1. peer[c] = "open" => ~One(c, Reply("OK AUTH"))
      BY <1>5, NotEmpty DEF None, One
    <2>2. "OK AUTH" \notin shown[c] => shown[c] \cap Map!Telling = {} /\ peer[c] # "open"
      BY <1>1, <1>4, <2>1, Zenon DEF Login
    <2>3. QED
      BY <1>2, <1>3, <2>2 DEF Login
  <1>8. QED
    BY <1>6, <1>7

\* A reply leaves the server: it is on its way still, if the client is there.
LEMMA SentOn ==
  ASSUME SysInv, NEW c \in Conn, ServerSends(c)
  PROVE  Flow(c)' /\ Login(c)'
  <1>1. /\ spc[c] = "send" /\ out'[c] = Tail(out[c]) /\ peer' = peer /\ req' = req
        /\ authenticated' = authenticated /\ auth_attempts' = auth_attempts
    BY DEF ServerSends, Send, SysInv, SessionInv, session, putting
  <1>2. UNCHANGED <<cpc, input, shown>>
    BY DEF ServerSends, client
  <1>3. Flow(c) /\ Login(c) /\ Pending(out[c]) /\ out[c] # << >>
    BY <1>1 DEF SysInv, SessionInv
  <1>4. /\ Len(out[c]) > 1 => UNCHANGED <<spc, after, toServer>>
        /\ ~(Len(out[c]) > 1) =>
             /\ spc'[c] = after[c]
             /\ toServer'[c] = IF after[c] = "closed" THEN << >> ELSE toServer[c]
    BY DEF ServerSends, Send, SysInv, StoreInv, StoreTypes
  <1>5. after[c] \in {"recv", "closed"}
    BY DEF SysInv, StoreInv, StoreTypes
  <1>6. /\ spc'[c] \in {"send", "recv", "closed"}
        /\ spc'[c] = "closed" => toServer'[c] = << >>
        /\ toServer'[c] = toServer[c] \/ toServer'[c] = << >>
    BY <1>1, <1>4, <1>5
  <1>7. CASE peer[c] # "open"
    <2>1. toClient' = toClient
      BY <1>7 DEF ServerSends
    <2>2. QED
      BY <1>1, <1>2, <1>3, <1>6, <1>7, <2>1 DEF Flow, Login
  <1>8. CASE peer[c] = "open"
    <2>1. toClient'[c] = Append(toClient[c], Head(out[c]))
      BY <1>8 DEF ServerSends, SysInv
    <2>2. ASSUME NEW r, One(c, r) PROVE One(c, r)' /\ out[c] = <<r>>
      <3>1. toClient[c] = << >> /\ out[c] = <<r>>
        BY <1>3, <2>2, NotEmpty DEF One
      <3>2. Append(<< >>, r) = <<r>> /\ Head(<<r>>) = r /\ Tail(<<r>>) = << >>
        OBVIOUS
      <3>3. QED
        BY <1>1, <2>1, <3>1, <3>2 DEF One
    <2>3. ASSUME NEW r, NEW n, Two(c, r, n) PROVE Two(c, r, n)'
      <3>1. CASE toClient[c] = << >> /\ out[c] = <<r, n>>
        <4>1. Append(<< >>, r) = <<r>> /\ Head(<<r, n>>) = r /\ Tail(<<r, n>>) = <<n>>
          OBVIOUS
        <4>2. QED
          BY <1>1, <2>1, <3>1, <4>1 DEF Two
      <3>2. CASE toClient[c] = <<r>> /\ out[c] = <<n>>
        <4>1. Append(<<r>>, n) = <<r, n>> /\ Head(<<n>>) = n /\ Tail(<<n>>) = << >>
          BY AppendTwo
        <4>2. QED
          BY <1>1, <2>1, <3>2, <4>1 DEF Two
      <3>3. QED
        BY <1>3, <2>3, <3>1, <3>2 DEF Two
    <2>4. ~None(c)
      BY <1>3 DEF None
    <2>5. LockedOut(c) => LockedOut(c)'
      BY <1>1, <1>4 DEF Closing, LockedOut
    <2>6. Awaited(c) => Awaited(c)'
      BY <1>2, <1>6 DEF Awaited
    <2>7. Flow(c)'
      <3>1. \/ None(c)'
            \/ LockedOut(c)' /\ \E n : One(c, n)' /\ n.text = LockoutNotice
            \/ Awaited(c)' /\ \E r : One(c, r)' /\ r.text \in AnswersTo(input[c].cmd)
            \/ /\ Awaited(c)' /\ LockedOut(c)'
               /\ \E r, n : /\ Two(c, r, n)' /\ r.text \in AnswersTo(input[c].cmd)
                            /\ n.text = LockoutNotice
        BY <1>3, <1>8, <2>2, <2>3, <2>4, <2>5, <2>6 DEF Flow
      <3>2. QED
        BY <1>1, <1>2, <1>3, <1>6, <1>8, <3>1 DEF Flow
    <2>8. Login(c)'
      <3> SUFFICES ASSUME "OK AUTH" \notin shown[c] PROVE Login(c)'
        BY <1>2 DEF Login
      <3>1. shown[c] \cap Map!Telling = {}
        BY DEF SysInv, Login
      <3>2. CASE authenticated[c]
        BY <1>1, <1>2, <1>3, <1>8, <2>2, <3>1, <3>2 DEF Login
      <3>3. CASE ~authenticated[c]
        <4>1. Clean(toClient[c]) /\ Clean(out[c])
          BY <1>3, <1>8, <3>3, Zenon DEF Login
        <4>2. Clean(toClient'[c]) /\ Clean(out'[c])
          <5>1. \/ \E n : One(c, n)
                \/ \E r, n : Two(c, r, n)
            BY <1>3, <1>8, <2>4 DEF Flow
          <5>2. CASE \E n : One(c, n)
            <6>1. PICK n : One(c, n)
              BY <5>2
            <6>2. out[c] = <<n>> /\ One(c, n)'
              BY <2>2, <6>1
            <6>3. n.text \notin Map!Telling
              BY <4>1, <6>2, CleanReplies
            <6>4. QED
              BY <6>2, <6>3, CleanReplies DEF One
          <5>3. CASE \E r, n : Two(c, r, n)
            <6>1. PICK r, n : Two(c, r, n)
              BY <5>3
            <6>2. Two(c, r, n)'
              BY <2>3, <6>1
            <6>3. r.text \notin Map!Telling /\ n.text \notin Map!Telling
              BY <1>3, <4>1, <6>1, CleanReplies DEF Two
            <6>4. QED
              BY <6>2, <6>3, CleanReplies DEF Two
          <5>4. QED
            BY <5>1, <5>2, <5>3
        <4>3. QED
          BY <1>1, <1>2, <1>6, <3>1, <3>3, <4>2 DEF Login, Clean
      <3>4. QED
        BY <3>2, <3>3
    <2>9. QED
      BY <2>7, <2>8
  <1>9. QED
    BY <1>7, <1>8

-----------------------------------------------------------------------------
(* Steps of the network and of the client.                                 *)

\* When the connection is gone nothing is left to answer.
LEMMA GoneStays ==
  ASSUME NEW c \in Conn, Flow(c), Login(c),
         peer'[c] # "open", toClient'[c] = << >>,
         toServer'[c] = toServer[c] \/ toServer'[c] = << >>,
         spc'[c] = spc[c], authenticated'[c] = authenticated[c],
         "OK AUTH" \notin shown'[c] => "OK AUTH" \notin shown[c] /\ shown'[c] \cap Map!Telling = {}
  PROVE  Flow(c)' /\ Login(c)'
  BY DEF Flow, Login

\* closesocket in client.c.
LEMMA DisconnectStays ==
  ASSUME SysInv, NEW c \in Conn, Disconnect(c),
         "OK AUTH" \notin shown'[c] => "OK AUTH" \notin shown[c] /\ shown'[c] \cap Map!Telling = {}
  PROVE  Flow(c)' /\ Login(c)'
  <1>1. peer[c] \in {"open", "closed", "reset"} /\ peer'[c] # "open"
    BY DEF Disconnect, SysInv, SessionInv
  <1>2. toClient'[c] = << >> /\ UNCHANGED <<toServer, spc, authenticated>>
    BY DEF Disconnect, SysInv, session, replies
  <1>3. Flow(c) /\ Login(c)
    BY DEF SysInv
  <1>4. QED
    BY <1>1, <1>2, <1>3, GoneStays

\* The connection breaks, the server is gone, or the user has no more input.
LEMMA EndsStay ==
  ASSUME SysInv, NEW c \in Conn, ConnectionLost(c) \/ ReceiveFails(c) \/ EndOfInput(c)
  PROVE  Flow(c)' /\ Login(c)'
  <1>1. Flow(c) /\ Login(c)
    BY DEF SysInv
  <1>2. CASE ConnectionLost(c)
    <2>1. /\ peer'[c] = "reset" /\ toServer'[c] = << >> /\ toClient'[c] = << >>
          /\ UNCHANGED <<spc, authenticated, shown>>
      BY <1>2 DEF ConnectionLost, Reset, SysInv, StoreInv, StoreTypes, SessionInv, session,
                  replies, client
    <2>2. "OK AUTH" \notin shown'[c] => "OK AUTH" \notin shown[c] /\ shown'[c] \cap Map!Telling = {}
      BY <1>1, <2>1 DEF Login
    <2>3. QED
      BY <1>1, <2>1, <2>2, GoneStays
  <1>3. CASE ReceiveFails(c) \/ EndOfInput(c)
    <2>1. Disconnect(c) /\ UNCHANGED shown
      BY <1>3 DEF ReceiveFails, EndOfInput
    <2>2. "OK AUTH" \notin shown'[c] => "OK AUTH" \notin shown[c] /\ shown'[c] \cap Map!Telling = {}
      BY <1>1, <2>1 DEF Login
    <2>3. QED
      BY <2>1, <2>2, DisconnectStays
  <1>4. QED
    BY <1>2, <1>3

\* The user types a line: at the prompt no line and no answer is under way.
LEMMA SubmitStays ==
  ASSUME SysInv, NEW c \in Conn, NEW l \in Lines, Submit(c, l)
  PROVE  Flow(c)' /\ Login(c)'
  <1>1. /\ cpc[c] = "prompt" /\ cpc'[c] = "wait" /\ input'[c] = l
        /\ UNCHANGED <<toClient, shown, peer, spc, out, after, authenticated, auth_attempts, req>>
    BY DEF Submit, ClientSend, SysInv, session, replies, putting
  <1>2. Flow(c) /\ Login(c)
    BY DEF SysInv
  <1>3. \/ toServer'[c] = toServer[c]
        \/ peer[c] = "open" /\ spc[c] # "closed" /\ toServer'[c] = Append(toServer[c], l)
    BY DEF Submit, ClientSend, SysInv, StoreInv, StoreTypes
  <1>4. CASE peer[c] # "open"
    BY <1>1, <1>2, <1>3, <1>4 DEF Flow, Login
  <1>5. CASE peer[c] = "open"
    <2>1. toServer[c] = << >> /\ spc[c] # "put" /\ ~Awaited(c)
      BY <1>1, <1>2, <1>5 DEF Flow, Awaited
    <2>2. toServer'[c] = << >> \/ (toServer'[c] = <<l>> /\ spc[c] # "closed")
      BY <1>3, <2>1
    <2>3. /\ None(c) => None(c)'
          /\ \A n : One(c, n) => One(c, n)'
          /\ LockedOut(c) => LockedOut(c)'
      BY <1>1 DEF None, One, Closing, LockedOut
    <2>4. Flow(c)'
      <3>1. None(c)' \/ (LockedOut(c)' /\ \E n : One(c, n)' /\ n.text = LockoutNotice)
        BY <1>2, <1>5, <2>1, <2>3 DEF Flow
      <3>2. QED
        BY <1>1, <1>5, <2>1, <2>2, <3>1 DEF Flow
    <2>5. Login(c)'
      BY <1>1, <1>2, <2>3 DEF Login, Clean
    <2>6. QED
      BY <2>4, <2>5
  <1>6. QED
    BY <1>4, <1>5

\* The client prints what it takes for the answer.
LEMMA ShowStays ==
  ASSUME SysInv, NEW c \in Conn, Show(c)
  PROVE  Flow(c)' /\ Login(c)'
  <1>1. /\ cpc[c] = "wait" /\ toClient[c] # << >>
        /\ shown'[c] = shown[c] \cup {Head(toClient[c]).text}
    BY DEF Show, SysInv
  <1>2. Flow(c) /\ Login(c) /\ peer[c] = "open"
    BY <1>1 DEF SysInv, Flow
  <1>3. \/ LockedOut(c) /\ \E n : toClient[c] = <<n>> /\ out[c] = << >> /\ n.text = LockoutNotice
        \/ Awaited(c) /\ \E r : toClient[c] = <<r>> /\ out[c] = << >>
        \/ /\ Awaited(c) /\ LockedOut(c)
           /\ \E r, n : /\ n.text = LockoutNotice
                        /\ \/ toClient[c] = <<r>> /\ out[c] = <<n>>
                           \/ toClient[c] = <<r, n>> /\ out[c] = << >>
    BY <1>1, <1>2 DEF Flow, None, One, Two
  <1>4. toServer[c] = << >> /\ spc[c] # "put"
    <2>1. CASE Awaited(c)
      BY <2>1 DEF Awaited
    <2>2. CASE Closing(c) /\ out[c] = << >>
      <3>1. spc[c] = "closed"
        BY <2>2 DEF Closing, SysInv, SessionInv
      <3>2. QED
        BY <1>2, <3>1 DEF Flow
    <2>3. QED
      BY <1>3, <2>1, <2>2 DEF LockedOut
  <1>5. "OK AUTH" \notin shown'[c] =>
          /\ "OK AUTH" \notin shown[c] /\ shown'[c] \cap Map!Telling = {} /\ ~authenticated[c]
          /\ Clean(toClient[c]) /\ Clean(out[c])
    <2> SUFFICES ASSUME "OK AUTH" \notin shown'[c]
                 PROVE  /\ "OK AUTH" \notin shown[c] /\ shown'[c] \cap Map!Telling = {}
                        /\ ~authenticated[c] /\ Clean(toClient[c]) /\ Clean(out[c])
      OBVIOUS
    <2>1. "OK AUTH" \notin shown[c] /\ shown[c] \cap Map!Telling = {} /\ Head(toClient[c]).text # "OK AUTH"
      BY <1>1, <1>2 DEF Login
    <2>2. ~One(c, Reply("OK AUTH"))
      <3>1. Head(<<Reply("OK AUTH")>>) = Reply("OK AUTH")
        BY HeadTail
      <3>2. Reply("OK AUTH").text = "OK AUTH"
        BY DEF Reply
      <3>3. QED
        BY <1>1, <2>1, <3>1, <3>2 DEF One
    <2>3. ~authenticated[c] /\ Clean(toClient[c]) /\ Clean(out[c])
      BY <1>2, <2>1, <2>2, Zenon DEF Login
    <2>4. Head(toClient[c]).text \notin Map!Telling
      <3>1. PICK r, n : toClient[c] = <<r>> \/ toClient[c] = <<r, n>>
        BY <1>3
      <3>2. Head(toClient[c]) = r
        BY <3>1, HeadTail
      <3>3. r.text \notin Map!Telling
        BY <2>3, <3>1, CleanReplies
      <3>4. QED
        BY <3>2, <3>3
    <2>5. QED
      BY <1>1, <2>1, <2>3, <2>4
  <1>6. CASE input[c].cmd \in QuitLike
    <2>1. Disconnect(c)
      BY <1>6 DEF Show
    <2>2. QED
      BY <1>5, <2>1, DisconnectStays
  <1>7. CASE input[c].cmd \notin QuitLike
    <2>1. /\ toClient'[c] = Tail(toClient[c]) /\ UNCHANGED vars
      BY <1>7 DEF Show, SysInv, Consumed
    <2>2. UNCHANGED <<peer, spc, out, after, authenticated, auth_attempts, toServer, req>>
      BY <2>1 DEF vars, session, putting, replies, network
    <2>3. None(c)' \/ (LockedOut(c) /\ \E n : One(c, n)' /\ n.text = LockoutNotice)
      BY <1>3, <2>1, <2>2, HeadTail DEF None, One
    <2>4. LockedOut(c) => LockedOut(c)'
      BY <2>2 DEF Closing, LockedOut
    <2>5. Flow(c)'
      BY <1>2, <1>4, <2>2, <2>3, <2>4 DEF Flow
    <2>6. Login(c)'
      <3> SUFFICES ASSUME "OK AUTH" \notin shown'[c] PROVE Login(c)'
        BY DEF Login
      <3>1. Clean(toClient'[c])
        <4>1. PICK r, n : toClient[c] = <<r>> \/ toClient[c] = <<r, n>>
          BY <1>3
        <4>2. QED
          BY <1>5, <2>1, <4>1, HeadTail, CleanReplies
      <3>2. QED
        BY <1>4, <1>5, <2>2, <3>1 DEF Login, Clean
    <2>7. QED
      BY <2>5, <2>6
  <1>8. QED
    BY <1>6, <1>7

-----------------------------------------------------------------------------
(* The invariant.                                                          *)

\* A step of one connection leaves the others alone.
Alone(c) == \A d \in Conn \ {c} : Untouched(d)

\* The server's steps,
LEMMA ServerAlone ==
  ASSUME SysInv, NEW c \in Conn, ServerSide(c)
  PROVE  Alone(c)
  <1> SUFFICES ASSUME NEW d \in Conn, d # c PROVE Untouched(d)
    BY DEF Alone
  <1> USE DEF Untouched, session, putting, replies, network, client, SysInv, StoreInv, StoreTypes,
              SessionInv, AuthInv
  <1>1. CASE ServerSends(c)
    BY <1>1 DEF ServerSends, Send
  <1>2. CASE ServerWorks(c)
    <2>1. UNCHANGED <<toClient, cpc, input, shown>> /\ Work(c)
      BY <1>2 DEF ServerWorks
    <2>2. CASE Accept(c) \/ AcceptWithoutThread(c) \/ ReceiveZero(c)
      BY <2>1, <2>2 DEF Accept, AcceptWithoutThread, ReceiveZero
    <2>3. CASE PutScan(c)
      BY <2>1, <2>3 DEF PutScan, Receive
    <2>4. CASE PutWrite(c)
      BY <2>1, <2>4 DEF PutWrite, Answer
    <2>5. CASE /\ \E rs, next : Answer(c, rs, next)
               /\ \/ authenticated' = authenticated
                  \/ authenticated' = [authenticated EXCEPT ![c] = TRUE]
               /\ \/ auth_attempts' = auth_attempts
                  \/ auth_attempts' = [auth_attempts EXCEPT ![c] = @ + 1]
               /\ \/ toServer' = toServer
                  \/ toServer' = [toServer EXCEPT ![c] = Tail(@)]
               /\ peer' = peer /\ req' = req
      <3>1. PICK rs, next : Answer(c, rs, next)
        BY <2>5
      <3>2. out'[d] = out[d] /\ after'[d] = after[d] /\ spc'[d] = spc[d]
        BY <3>1 DEF Answer
      <3>3. /\ toServer'[d] = toServer[d] /\ authenticated'[d] = authenticated[d]
            /\ auth_attempts'[d] = auth_attempts[d]
        BY <2>5
      <3>4. QED
        BY <2>1, <2>5, <3>2, <3>3
    <2>6. CASE Auth(c)
      <3>1. Receive(c, "AUTH") /\ UNCHANGED putting
        BY <2>6 DEF Auth
      <3>2. /\ \E rs, next : Answer(c, rs, next)
            /\ \/ authenticated' = authenticated
               \/ authenticated' = [authenticated EXCEPT ![c] = TRUE]
            /\ \/ auth_attempts' = auth_attempts
               \/ auth_attempts' = [auth_attempts EXCEPT ![c] = @ + 1]
        BY <2>6 DEF Auth
      <3>3. QED
        BY <2>5, <3>1, <3>2 DEF Receive
    <2>7. CASE \/ Get(c) \/ List(c) \/ Quit(c) \/ Del(c)
               \/ Reject(c) \/ InvalidInput(c) \/ Unknown(c)
      <3>1. /\ \E cmd : Receive(c, cmd)
            /\ authenticated' = authenticated /\ auth_attempts' = auth_attempts /\ req' = req
        BY <2>7 DEF Get, List, Quit, Del, Reject, InvalidInput, Unknown
      <3>2. \E rs, next : Answer(c, rs, next)
        BY <2>7 DEF Get, List, Quit, Del, Reject, InvalidInput, Unknown
      <3>3. QED
        BY <2>5, <3>1, <3>2 DEF Receive
    <2>8. CASE ReceiveError(c)
      BY <2>5, <2>8 DEF ReceiveError
    <2>9. QED
      BY <2>1, <2>2, <2>3, <2>4, <2>6, <2>7, <2>8 DEF Work
  <1>3. QED
    BY <1>1, <1>2 DEF ServerSide

\* and those of its client and of the network.
LEMMA ClientAlone ==
  ASSUME SysInv, NEW c \in Conn, NEW l,
         ConnectionLost(c) \/ Receiving(c) \/ EndOfInput(c) \/ Submit(c, l)
  PROVE  Alone(c)
  <1> SUFFICES ASSUME NEW d \in Conn, d # c PROVE Untouched(d)
    BY DEF Alone
  <1> USE DEF Untouched, session, putting, replies, network, client, SysInv, StoreInv, StoreTypes,
              SessionInv
  <1>1. CASE ConnectionLost(c)
    BY <1>1 DEF ConnectionLost, Reset
  <1>2. CASE Submit(c, l)
    BY <1>2 DEF Submit, ClientSend
  <1>3. CASE Show(c)
    BY <1>3 DEF Show, Disconnect, vars
  <1>4. CASE ReceiveFails(c) \/ EndOfInput(c)
    BY <1>4 DEF ReceiveFails, EndOfInput, Disconnect
  <1>5. QED
    BY <1>1, <1>2, <1>3, <1>4 DEF Receiving

\* The invariants of the server alone hold here too: its clients do what the
\* environment of KVServer may do, or try to send when nobody is there.
LEMMA ServerInvariants ==
  ASSUME SysInv, SysNext
  PROVE  StoreInv' /\ SessionInv' /\ AuthInv'
  <1>1. CASE [Next]_vars
    BY <1>1, StoreStep, SessionStep, AuthStep DEF SysInv
  <1>2. ASSUME NEW c \in Conn, UNCHANGED <<shared, session, putting, replies, toServer>>,
               peer' \in [Conn -> {"open", "closed", "reset"}], sent' \in [Conn -> 0 .. MaxSent]
        PROVE  StoreInv' /\ SessionInv' /\ AuthInv'
    <2>1. Quiet /\ Settled
      BY <1>2 DEF Quiet, Settled, SysInv, StoreInv, StoreTypes, shared, session, putting, replies
    <2>2. SessionInv'
      BY <1>2 DEF SysInv, SessionInv, Pending, putting, replies
    <2>3. QED
      BY <2>1, <2>2, QuietPreserves, SettledPreserves DEF SysInv
  <1>3. ASSUME NEW c \in Conn, Disconnect(c) PROVE StoreInv' /\ SessionInv' /\ AuthInv'
    <2>1. /\ UNCHANGED <<shared, session, putting, replies, toServer, sent>>
          /\ peer' \in [Conn -> {"open", "closed", "reset"}]
      BY <1>3 DEF Disconnect, SysInv, SessionInv
    <2>2. QED
      BY <1>2, <2>1 DEF SysInv, SessionInv
  <1>4. ASSUME NEW c \in Conn, NEW l \in Lines, Submit(c, l)
        PROVE  StoreInv' /\ SessionInv' /\ AuthInv'
    <2>1. CASE ClientSend(c, l)
      BY <1>1, <2>1 DEF Next, Environment
    <2>2. CASE /\ sent[c] < MaxSent /\ sent' = [sent EXCEPT ![c] = @ + 1]
               /\ UNCHANGED <<shared, session, putting, replies, toServer, peer>>
      <3>1. sent' \in [Conn -> 0 .. MaxSent]
        BY <2>2, BoundsAssumption DEF SysInv, SessionInv
      <3>2. QED
        BY <1>2, <2>2, <3>1 DEF SysInv, SessionInv
    <2>3. QED
      BY <1>4, <2>1, <2>2 DEF Submit
  <1>5. ASSUME NEW c \in Conn, ServerSide(c) \/ ConnectionLost(c) PROVE Next
    BY <1>5 DEF ServerSide, ServerWorks, ServerSends, ConnectionLost, Next, ServerStep, Environment
  <1>6. ASSUME NEW c \in Conn, Receiving(c) \/ EndOfInput(c) PROVE Disconnect(c) \/ UNCHANGED vars
    BY <1>6 DEF Receiving, Show, ReceiveFails, EndOfInput
  <1>7. AllGone => UNCHANGED vars
    BY DEF AllGone, sysvars
  <1>8. QED
    BY <1>1, <1>3, <1>4, <1>5, <1>6, <1>7 DEF SysNext

\* The step of the system.
LEMMA SysStep == SysInv /\ [SysNext]_sysvars => SysInv'
  <1>1. CASE SysInv /\ UNCHANGED sysvars
    <2>1. UNCHANGED <<vars, toClient, cpc, input, shown>>
      BY <1>1 DEF sysvars, client
    <2>2. StoreInv' /\ SessionInv' /\ AuthInv'
      BY <1>1, <2>1, StoreStep, SessionStep, AuthStep DEF SysInv
    <2>3. ASSUME NEW d \in Conn PROVE Untouched(d)
      BY <2>1 DEF Untouched, vars, session, putting, replies, network
    <2>4. ASSUME NEW d \in Conn PROVE Flow(d)' /\ Login(d)'
      BY <1>1, <2>3, UntouchedStays DEF SysInv
    <2>5. QED
      BY <1>1, <2>1, <2>2, <2>4 DEF SysInv
  <1>2. ASSUME SysInv, SysNext, ~UNCHANGED sysvars PROVE SysInv'
    <2>1. StoreInv' /\ SessionInv' /\ AuthInv'
      BY <1>2, ServerInvariants
    <2>2. PICK c \in Conn : \/ ServerSide(c) \/ ConnectionLost(c) \/ Receiving(c) \/ EndOfInput(c)
                            \/ \E l \in Lines : Submit(c, l)
      BY <1>2 DEF SysNext, AllGone
    <2>3. Flow(c)' /\ Login(c)'
      <3>1. CASE ServerWorks(c)
        <4>1. Work(c) /\ UNCHANGED <<toClient, client>>
          BY <3>1 DEF ServerWorks
        <4>2. ASSUME Reacts(c) PROVE Flow(c)' /\ Login(c)'
          BY <1>2, <4>2, ReactsStays DEF SysInv
        <4>3. CASE Accept(c) \/ AcceptWithoutThread(c) \/ ReceiveZero(c)
          BY <1>2, <4>1, <4>3, OpenOrClose
        <4>4. CASE PutScan(c)
          BY <1>2, <4>1, <4>4, PutTaken
        <4>5. CASE Auth(c)
          BY <1>2, <4>1, <4>2, <4>5, AuthReacts
        <4>6. CASE ReceiveError(c)
          BY <1>2, <4>1, <4>2, <4>6, ErrorReacts
        <4>7. CASE PutWrite(c)
          BY <1>2, <4>1, <4>2, <4>7, PutReacts
        <4>8. CASE Reject(c) \/ InvalidInput(c) \/ Get(c) \/ Del(c) \/ List(c) \/ Quit(c) \/ Unknown(c)
          BY <1>2, <4>1, <4>2, <4>8, OthersReact
        <4>9. QED
          BY <4>1, <4>3, <4>4, <4>5, <4>6, <4>7, <4>8 DEF Work
      <3>2. CASE ServerSends(c)
        BY <1>2, <3>2, SentOn
      <3>3. CASE ConnectionLost(c) \/ ReceiveFails(c) \/ EndOfInput(c)
        BY <1>2, <3>3, EndsStay
      <3>4. CASE Show(c)
        BY <1>2, <3>4, ShowStays
      <3>5. CASE \E l \in Lines : Submit(c, l)
        BY <1>2, <3>5, SubmitStays
      <3>6. QED
        BY <2>2, <3>1, <3>2, <3>3, <3>4, <3>5 DEF ServerSide, Receiving
    <2>4. ASSUME NEW d \in Conn, d # c PROVE Flow(d)' /\ Login(d)'
      <3>1. Untouched(d)
        BY <1>2, <2>2, <2>4, ServerAlone, ClientAlone DEF Alone
      <3>2. QED
        BY <1>2, <3>1, UntouchedStays DEF SysInv
    <2>5. DOMAIN toClient' = Conn /\ DOMAIN cpc' = Conn /\ DOMAIN input' = Conn /\ DOMAIN shown' = Conn
      BY <1>2, <2>2 DEF SysInv, ServerSide, ServerWorks, ServerSends, ConnectionLost, Receiving, Show,
         ReceiveFails, EndOfInput, Submit, Disconnect, client
    <2>6. QED
      BY <2>1, <2>3, <2>4, <2>5 DEF SysInv
  <1>3. QED
    BY <1>1, <1>2

\* Every state of server and clients satisfies the invariant.
THEOREM SysInvariance == SysSpec => []SysInv
  <1>1. SysInit => SysInv
    <2> SUFFICES ASSUME SysInit PROVE SysInv
      OBVIOUS
    <2>1. StoreInv /\ SessionInv /\ AuthInv
      BY StoreInit, SessionInit, AuthInit DEF SysInit
    <2>2. ASSUME NEW c \in Conn PROVE Flow(c) /\ Login(c)
      <3>1. /\ spc[c] = "none" /\ toServer[c] = << >> /\ out[c] = << >> /\ toClient[c] = << >>
            /\ shown[c] = {} /\ authenticated[c] = FALSE
        BY <2>2 DEF SysInit, Init
      <3>2. QED
        BY <3>1, CleanReplies DEF Flow, Login, None
    <2>3. QED
      BY <2>1, <2>2 DEF SysInit, SysInv
  <1>2. QED
    BY <1>1, SysStep, PTL DEF SysSpec

\* What client.c takes for the answer to a line is one of the answers to it, save
\* on a connection that has used up its failed AUTHs, where it may be the notice
\* that follows the last of them: otherwise replies and lines never get out of
\* step, however threads, clients and the network interleave.
THEOREM AnswersItsLineCorrect == SysSpec => []AnswersItsLine
  <1>1. SysInv => AnswersItsLine
    <2> DEFINE Fits(c, r) == \/ r.text \in AnswersTo(input[c].cmd)
                             \/ auth_attempts[c] = MaxAttempts /\ r.text = LockoutNotice
    <2> SUFFICES ASSUME SysInv, NEW c \in Conn, cpc[c] = "wait", toClient[c] # << >>
                 PROVE  Fits(c, Head(toClient[c]))
      BY DEF AnswersItsLine
    <2>1. Flow(c) /\ peer[c] = "open"
      BY DEF SysInv, Flow
    <2>2. PICK r, n : (toClient[c] = <<r>> \/ toClient[c] = <<r, n>>) /\ Fits(c, r)
      BY <2>1 DEF Flow, None, One, Two, LockedOut
    <2>3. Head(toClient[c]) = r
      BY <2>2, HeadTail
    <2>4. QED
      BY <2>2, <2>3
  <1>2. QED
    BY <1>1, SysInvariance, PTL

\* Nothing about the store, a missing key included, reaches a client that was not
\* told "OK AUTH" first.
THEOREM NothingBeforeLoginCorrect == SysSpec => []NothingBeforeLogin
  <1>1. SysInv => NothingBeforeLogin
    <2> SUFFICES ASSUME SysInv, NEW c \in Conn, "OK AUTH" \notin shown[c]
                 PROVE  (shown[c] \cup {toClient[c][i].text : i \in DOMAIN toClient[c]})
                          \cap Map!Telling = {}
      BY DEF NothingBeforeLogin, Map!Telling
    <2>1. Flow(c) /\ Login(c)
      BY DEF SysInv
    <2>2. Clean(toClient[c])
      <3>1. CASE peer[c] # "open"
        BY <2>1, <3>1, CleanReplies DEF Flow
      <3>2. CASE peer[c] = "open" /\ ~authenticated[c]
        BY <2>1, <3>2, Zenon DEF Login
      <3>3. CASE peer[c] = "open" /\ authenticated[c]
        <4>1. One(c, Reply("OK AUTH"))
          BY <2>1, <3>3, Zenon DEF Login
        <4>2. Reply("OK AUTH").text \notin Map!Telling
          BY DEF Reply, Map!Telling
        <4>3. QED
          BY <4>1, <4>2, CleanReplies DEF One
      <3>4. QED
        BY <3>1, <3>2, <3>3
    <2>3. QED
      BY <2>1, <2>2 DEF Login, Clean
  <1>2. QED
    BY <1>1, SysInvariance, PTL

=============================================================================
