---------------------------- MODULE MCFileManager ----------------------------
(* Instances of FileManager for TLC. *)
EXTENDS FileManager, TLC

CONSTANTS
  SamePath,    \* names that lead to one file
  UserNames,   \* who may register; their passwords are their names
  Groups       \* and the groups they may choose

\* Somebody, and somebody who leaves the password blank.
TypedAccounts ==
  {[username |-> u, password |-> u, group |-> g] : u \in UserNames, g \in Groups}
    \cup {[username |-> "eve", password |-> Blank, group |-> Blank]}

\* Every other name leads to a file of its own.
TypedPaths == [n \in Names |-> IF n \in SamePath THEN "shared" ELSE n]

\* "rw-r---w-", "r---w----" and a string that is too short.
Perms == {<<"r", "w", "-", "r", "-", "-", "-", "w", "-">>,
          <<"r", "-", "-", "-", "w", "-", "-", "-", "-">>,
          <<"r", "w">>}

\* A text longer than the key stream's period.
Texts == {<<"x", "y", "z">>}

\* The names of one file are interchangeable, and so are users and groups.
Symmetry == Permutations(SamePath) \cup Permutations(UserNames) \cup Permutations(Groups)
=============================================================================
