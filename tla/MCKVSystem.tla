----------------------------- MODULE MCKVSystem -----------------------------
(* Instances of KVSystem for TLC. *)
EXTENDS KVSystem

Text(cmd, word, rest) == [n |-> 1, cmd |-> cmd, word |-> word, rest |-> rest]

AllWords == {NoKey, "AUTH", "PUT", "GET", "DEL", "LIST", "QUIT", "QUITX", "alice", "alicepass",
             "guess", "a", "ctl", "v"}
OneUser  == {<<"alice", <<"alicepass">>>>}
Lengths  == [w \in AllWords |-> IF w = NoKey THEN 0 ELSE 2]

\* What a user may type: the commands, good and malformed, a line longer than
\* the server takes, a wrong password, and a word that only begins like QUIT.
TypedLines == {
  Text("AUTH", <<"alice">>, <<"alicepass">>),
  Text("AUTH", <<"alice">>, <<"guess">>),
  Text("PUT", <<"a">>, <<"v">>),
  Text("PUT", <<"a">>, << >>),
  Text("GET", <<"a">>, << >>),
  Text("GET", <<"ctl">>, << >>),
  Text("LIST", << >>, << >>),
  Text("DEL", <<"a">>, << >>),
  Text("QUIT", << >>, << >>),
  Text("QUITX", << >>, << >>),
  [n |-> -1, cmd |-> NoKey, word |-> << >>, rest |-> << >>] }
=============================================================================
