------------------------------- MODULE KVMap -------------------------------
(***************************************************************************)
(* What the key-value server of task4_network_ipc/server.c promises: a map *)
(* of bounded size, on which the requests of every connection take effect  *)
(* in the order they came, each exactly once and at one instant, with the  *)
(* answer that the map gives at that instant; nothing else changes the map *)
(* or tells about it, and only a connection that has logged in can do      *)
(* either.  There are no slots, locks, threads or sessions here;           *)
(* KVServer.tla is shown to implement this module.                         *)
(***************************************************************************)
EXTENDS Integers, Sequences, FiniteSets

CONSTANTS
  Conn,              \* connections
  Requests,          \* records [cmd, key, value, valid] that may be sent
  Capacity,          \* how many keys the map can hold
  ListRoom,          \* characters a listing of keys has room for
  KeyLength          \* characters of each key

VARIABLES
  kv,                \* the map: a function from the keys present to values
  inbox,             \* requests not yet served, per connection
  res,               \* answers not yet sent, per connection
  authed,            \* the connections that have logged in
  up                 \* the connections that neither end has given up

vars == <<kv, inbox, res, authed, up>>

Init ==
  /\ kv = << >>
  /\ inbox = [c \in Conn |-> << >>]
  /\ res = [c \in Conn |-> << >>]
  /\ authed = [c \in Conn |-> FALSE]
  /\ up = [c \in Conn |-> TRUE]

-----------------------------------------------------------------------------
(* Requests arrive, and connections are lost.                              *)

Arrive(c) ==
  /\ up[c]
  /\ UNCHANGED <<kv, res, authed, up>>
  /\ \E r \in Requests : inbox' = [inbox EXCEPT ![c] = Append(@, r)]

\* Everything not served yet is lost, except perhaps the request under way.
Drop(c) ==
  /\ up[c]
  /\ up' = [up EXCEPT ![c] = FALSE]
  /\ \/ inbox' = [inbox EXCEPT ![c] = << >>]
     \/ inbox[c] # << >> /\ inbox' = [inbox EXCEPT ![c] = <<Head(@)>>]
  /\ UNCHANGED <<kv, res, authed>>

-----------------------------------------------------------------------------
(* Requests are served.                                                    *)

\* The answers that say what is, or was not, in the map.
Telling == {"OK PUT", "OK GET", "OK DEL", "OK LIST", "ERR GET not_found", "ERR DEL not_found"}

\* One answer for c, or several.
Answers(c) ==
  /\ res[c] = << >> /\ res'[c] # << >>
  /\ DOMAIN res' = Conn /\ \A d \in Conn \ {c} : res'[d] = res[d]

\* The request at the head of c's inbox, a good one, gets its one answer.
Serve(c, cmd) ==
  /\ inbox[c] # << >>
  /\ Head(inbox[c]).cmd = cmd /\ Head(inbox[c]).valid
  /\ authed[c] <=> cmd # "AUTH"
  /\ inbox' = [inbox EXCEPT ![c] = Tail(@)]
  /\ Answers(c) /\ Len(res'[c]) = 1
  /\ UNCHANGED up

\* The right name and password.
Login(c) ==
  /\ Serve(c, "AUTH")
  /\ res'[c][1].text = "OK AUTH"
  /\ authed' = [authed EXCEPT ![c] = TRUE]
  /\ UNCHANGED kv

\* A PUT replaces or adds; a full map drops it and still says OK.
Put(c) ==
  LET k == Head(inbox[c]).key
      v == Head(inbox[c]).value IN
  /\ Serve(c, "PUT")
  /\ res'[c][1].text = "OK PUT"
  /\ IF k \in DOMAIN kv \/ Cardinality(DOMAIN kv) < Capacity
       THEN kv' = [x \in DOMAIN kv \cup {k} |-> IF x = k THEN v ELSE kv[x]]
       ELSE UNCHANGED kv
  /\ UNCHANGED authed

\* A GET answers with the value the key has now.
Get(c) ==
  LET k == Head(inbox[c]).key IN
  /\ Serve(c, "GET")
  /\ IF k \in DOMAIN kv
       THEN res'[c][1].text = "OK GET" /\ res'[c][1].value = kv[k]
       ELSE res'[c][1].text = "ERR GET not_found"
  /\ UNCHANGED <<kv, authed>>

\* A DEL removes exactly the key it names.
Del(c) ==
  LET k == Head(inbox[c]).key IN
  /\ Serve(c, "DEL")
  /\ res'[c][1].text = IF k \in DOMAIN kv THEN "OK DEL" ELSE "ERR DEL not_found"
  /\ kv' = [x \in DOMAIN kv \ {k} |-> kv[x]]
  /\ UNCHANGED authed

\* The keys fit into a listing, with a blank behind each.
Room(keys) == Cardinality(UNION {{k} \X (0 .. KeyLength[k]) : k \in keys}) < ListRoom

\* A LIST names the keys of the map and counts them; when they do not fit it
\* names some that do, and counts one more, for which there was no room left.
\* On an empty map only the count means anything.
List(c) ==
  LET a == res'[c][1] IN
  /\ Serve(c, "LIST")
  /\ a.text = "OK LIST"
  /\ IF kv = << >> THEN a.count = 0
     ELSE /\ a.keys \subseteq DOMAIN kv /\ Room(a.keys)
          /\ \/ a.keys = DOMAIN kv /\ a.count = Cardinality(a.keys)
             \/ /\ \E k \in DOMAIN kv \ a.keys : ~Room(a.keys \cup {k})
                /\ a.count = Cardinality(a.keys) + 1
  /\ UNCHANGED <<kv, authed>>

\* A request that is not a good one, or that comes before or after its time, is
\* taken and refused: nothing changes and nothing is told.  So is the rest of a
\* connection that is lost.
Refuse(c) ==
  /\ \/ /\ inbox[c] # << >>
        /\ ~(Head(inbox[c]).valid /\ (authed[c] <=> Head(inbox[c]).cmd # "AUTH"))
        /\ inbox' = [inbox EXCEPT ![c] = Tail(@)]
     \/ inbox[c] = << >> /\ ~up[c] /\ UNCHANGED inbox
  /\ Answers(c)
  /\ \A i \in DOMAIN res'[c] : res'[c][i].text \notin Telling \cup {"OK AUTH"}
  /\ UNCHANGED <<kv, authed, up>>

\* An answer is sent.  A refusal may be the last one of its connection: then
\* the requests behind it are lost.
Deliver(c) ==
  /\ res[c] # << >>
  /\ res' = [res EXCEPT ![c] = Tail(@)]
  /\ \/ UNCHANGED <<inbox, up>>
     \/ /\ Len(res[c]) = 1 /\ res[c][1].text \notin Telling \cup {"OK AUTH"}
        /\ up' = [up EXCEPT ![c] = FALSE]
        /\ inbox' = [inbox EXCEPT ![c] = << >>]
  /\ UNCHANGED <<kv, authed>>

Next ==
  \E c \in Conn :
    \/ Arrive(c) \/ Drop(c)
    \/ Login(c) \/ Put(c) \/ Get(c) \/ Del(c) \/ List(c) \/ Refuse(c)
    \/ Deliver(c)

Spec == Init /\ [][Next]_vars

=============================================================================
