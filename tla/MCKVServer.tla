----------------------------- MODULE MCKVServer -----------------------------
(* Instances of KVServer for TLC. *)
EXTENDS KVServer, TLC

Text(cmd, word, rest) == [n |-> 1, cmd |-> cmd, word |-> word, rest |-> rest]
Empty   == [n |-> 0, cmd |-> NoKey, word |-> << >>, rest |-> << >>]
TooLong == [n |-> -1, cmd |-> NoKey, word |-> << >>, rest |-> << >>]

AllWords == {NoKey, "AUTH", "PUT", "GET", "DEL", "LIST", "QUIT", "alice", "alicepass",
             "guess", "a", "b", "c", "ctl", "tail", "v", "w"}

OneUser == {<<"alice", <<"alicepass">>>>}
Login   == Text("AUTH", <<"alice">>, <<"alicepass">>)

\* Three keys, one of them also as the beginning of a longer word, and the
\* commands that leave the store alone.
StoreLines == {
  Login,
  Text("PUT", <<"b">>, << >>),
  Text("QUIT", << >>, << >>),
  Text(NoKey, << >>, << >>),
  Text("PUT", <<"a">>, <<"v">>),
  Text("PUT", <<"a", "tail">>, <<"v">>),
  Text("PUT", <<"b">>, <<"w">>),
  Text("PUT", <<"c">>, <<"v">>),
  Text("GET", <<"a">>, << >>),
  Text("DEL", <<"a">>, << >>),
  Text("LIST", << >>, << >>) }

\* The lines that exercise every branch of a session.
SessionLines == {
  Login, Empty, TooLong,
  Text("AUTH", <<"alice">>, <<"guess">>),
  Text("PUT", <<"a">>, <<"v">>),
  Text("PUT", <<"a">>, << >>),
  Text("GET", <<"ctl">>, << >>),
  Text("GET", <<"a">>, << >>),
  Text("DEL", << >>, << >>),
  Text("QUIT", << >>, << >>),
  Text(NoKey, << >>, << >>) }

\* Two sessions that contend for one slot, and can be locked out.
ContentionLines == {
  Login,
  Text("AUTH", <<"alice">>, <<"guess">>),
  Text("PUT", <<"a">>, <<"v">>),
  Text("PUT", <<"b">>, <<"v">>) }

\* A store of three keys, one more than fits.
ThreeKeys == {
  Login,
  Text("PUT", <<"a">>, <<"v">>),
  Text("PUT", <<"b">>, <<"v">>),
  Text("PUT", <<"c">>, <<"v">>),
  Text("LIST", << >>, << >>) }

\* The connections are interchangeable.
Symmetry == Permutations(Conn)

\* Three characters of a listing for each key.
Lengths == [w \in AllWords |-> IF w = NoKey THEN 0 ELSE 2]
=============================================================================
