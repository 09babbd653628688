------------------------------ MODULE KVSystem ------------------------------
(***************************************************************************)
(* The server of KVServer with the client of task4_network_ipc/client.c at *)
(* the other end of every connection: a loop that reads a line from its    *)
(* user, sends it, and takes the next line that arrives for its answer.    *)
(***************************************************************************)
EXTENDS KVServer

CONSTANT
  QuitLike       \* the commands that begin with "QUIT", where client.c stops

VARIABLES
  toClient,      \* replies in transit
  cpc,           \* client.c: at its prompt, waiting for a reply, or gone
  input,         \* the line it has sent
  shown          \* the replies it has printed, as a set (a history variable)

client  == <<cpc, input, shown>>
sysvars == <<vars, toClient, client>>

SysInit ==
  /\ Init
  /\ toClient = [c \in Conn |-> << >>]
  /\ cpc = [c \in Conn |-> "prompt"]
  /\ input = [c \in Conn |-> NoLine]
  /\ shown = [c \in Conn |-> {}]

-----------------------------------------------------------------------------
(* The server's steps; what it sends arrives if the client is still there. *)

ServerWorks(c) == Work(c) /\ UNCHANGED <<toClient, client>>

ServerSends(c) ==
  /\ Send(c)
  /\ toClient' = IF peer[c] = "open"
                   THEN [toClient EXCEPT ![c] = Append(@, Head(out[c]))]
                   ELSE toClient
  /\ UNCHANGED client

ConnectionLost(c) ==
  /\ Reset(c)
  /\ toClient' = [toClient EXCEPT ![c] = << >>]
  /\ UNCHANGED client

-----------------------------------------------------------------------------
(* client.c.                                                               *)

\* The user's line is sent, unless it is empty; if nobody is there to take it
\* send fails and client.c does not notice.
Submit(c, l) ==
  /\ cpc[c] = "prompt"
  /\ l.n # 0
  /\ \/ ClientSend(c, l)
     \/ /\ peer[c] # "open" \/ spc[c] = "closed"
        /\ sent[c] < MaxSent
        /\ sent' = [sent EXCEPT ![c] = @ + 1]
        /\ UNCHANGED <<shared, session, putting, replies, toServer, peer>>
  /\ input' = [input EXCEPT ![c] = l]
  /\ cpc' = [cpc EXCEPT ![c] = "wait"]
  /\ UNCHANGED <<toClient, shown>>

\* closesocket, and the program ends.
Disconnect(c) ==
  /\ cpc' = [cpc EXCEPT ![c] = "gone"]
  /\ peer' = [peer EXCEPT ![c] = IF @ = "open" THEN "closed" ELSE @]
  /\ toClient' = [toClient EXCEPT ![c] = << >>]
  /\ UNCHANGED <<shared, session, putting, replies, toServer, sent, input>>

\* recv_line that leaves the line in the stream.
StillThere(lines) == lines
Consumed(lines) == Tail(lines)

\* recv_line returns a line, which is printed.
Show(c) ==
  /\ cpc[c] = "wait"
  /\ toClient[c] # << >>
  /\ Head(toClient[c]).len < MaxLine - 1
  /\ shown' = [shown EXCEPT ![c] = @ \cup {Head(toClient[c]).text}]
  /\ IF input[c].cmd \in QuitLike THEN Disconnect(c)
     ELSE /\ cpc' = [cpc EXCEPT ![c] = "prompt"]
          /\ toClient' = [toClient EXCEPT ![c] = Consumed(@)]
          /\ UNCHANGED <<vars, input>>

\* recv_line returns 0 or -1: the server has closed (what it sent last may be
\* lost with the connection), the connection broke, or the line is too long.
ReceiveFails(c) ==
  /\ cpc[c] = "wait"
  /\ \/ spc[c] = "closed"
     \/ peer[c] = "reset"
     \/ toClient[c] # << >> /\ Head(toClient[c]).len >= MaxLine - 1
  /\ Disconnect(c)
  /\ UNCHANGED shown

\* End of file at the prompt.
EndOfInput(c) ==
  /\ cpc[c] = "prompt"
  /\ Disconnect(c)
  /\ UNCHANGED shown

-----------------------------------------------------------------------------
ServerSide(c) == ServerWorks(c) \/ ServerSends(c)
Receiving(c)  == Show(c) \/ ReceiveFails(c)

\* Every client has gone and every session is over.
AllGone ==
  /\ \A c \in Conn : cpc[c] = "gone" /\ spc[c] = "closed"
  /\ UNCHANGED sysvars

SysNext ==
  \/ \E c \in Conn : \/ ServerSide(c) \/ ConnectionLost(c)
                     \/ Receiving(c) \/ EndOfInput(c)
                     \/ \E l \in Lines : Submit(c, l)
  \/ AllGone

SysSpec == SysInit /\ [][SysNext]_sysvars

\* The server's threads run, and a client that is waiting takes what arrives;
\* nothing makes a user type.
SysFairSpec ==
  SysSpec /\ \A c \in Conn : WF_sysvars(ServerSide(c)) /\ WF_sysvars(Receiving(c))

-----------------------------------------------------------------------------
(* Correctness.                                                            *)

LockoutNotice == "ERR too_many_attempts_closing"

\* The replies that answer a command, as far as client and server agree.
AnswersTo(cmd) ==
  {"ERR not_authenticated", "ERR protocol_violation"} \cup
  (CASE cmd = "AUTH" -> {"OK AUTH", "ERR AUTH invalid_credentials", "ERR already_authenticated"}
     [] cmd = "PUT"  -> {"OK PUT", "ERR PUT invalid_input"}
     [] cmd = "GET"  -> {"OK GET", "ERR GET not_found", "ERR GET invalid_input"}
     [] cmd = "DEL"  -> {"OK DEL", "ERR DEL not_found", "ERR DEL invalid_input"}
     [] cmd = "LIST" -> {"OK LIST"}
     [] cmd = "QUIT" -> {"OK BYE"}
     [] OTHER        -> {"ERR unknown_command"})

\* client.c pairs replies with lines by counting: the line it takes for the
\* answer is an answer to what the user typed last, except that on a connection
\* that has used up its AUTH failures the second line of the lockout is taken
\* for the answer to the line after.
AnswersItsLine ==
  \A c \in Conn : cpc[c] = "wait" /\ toClient[c] # << >> =>
    \/ Head(toClient[c]).text \in AnswersTo(input[c].cmd)
    \/ auth_attempts[c] = MaxAttempts /\ Head(toClient[c]).text = LockoutNotice

\* Nothing about the store, not even that a key is missing, is said to a client
\* that was not told "OK AUTH" first on the same connection.
NothingBeforeLogin ==
  \A c \in Conn :
    (shown[c] \cup {toClient[c][i].text : i \in DOMAIN toClient[c]}) \cap Map!Telling # {}
    => "OK AUTH" \in shown[c]

\* A client that has sent a line gets an answer or finds the connection gone;
\* it is never left waiting.
ClientNeverHangs == \A c \in Conn : (cpc[c] = "wait") ~> (cpc[c] # "wait")

=============================================================================
