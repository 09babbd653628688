------------------------------- MODULE FmsMeta -------------------------------
(***************************************************************************)
(* perms.c of task3_filesystem_security: the records of the metadata file  *)
(* and the operators on them.  The file is a sequence of records           *)
(* [filename, owner, group, permissions, is_encrypted]; a permission       *)
(* string is a sequence of characters.                                     *)
(***************************************************************************)
EXTENDS Integers, Sequences, FiniteSetsExt

CONSTANT MaxRecords   \* the records[1024] of rewrite_meta_matching

ASSUME MaxRecordsAssumption == MaxRecords \in Nat \ {0}

PERM_READ  == 0
PERM_WRITE == 1

is_valid_perm_string(perm_str) ==
  LET expected_type == <<"r", "w", "x", "r", "w", "x", "r", "w", "x">> IN
  /\ Len(perm_str) = Len(expected_type)
  /\ \A i \in DOMAIN perm_str : perm_str[i] \in {expected_type[i], "-"}

FileNames(rs) == {rs[i].filename : i \in DOMAIN rs}

\* The first record with the name, if there is one.
find_file_meta(rs, filename) ==
  rs[Min({i \in DOMAIN rs : rs[i].filename = filename})]

\* What create_file_meta appends to the file.
create_file_meta(rs, filename, owner, group, perm_str) ==
  Append(rs, [filename |-> filename, owner |-> owner, group |-> group,
              permissions |-> perm_str, is_encrypted |-> FALSE])

\* A check that looks at the group before it looks at the owner.
GroupFirst(user, m, perm) ==
  LET base_index == IF user.group = m.group THEN 3
                    ELSE IF user.username = m.owner THEN 0
                    ELSE 6
  IN  m.permissions[base_index + perm + 1] # "-"

\* The bits of the owner, of the group and of the others.
check_permission(user, m, perm) ==
  LET base_index == IF user.username = m.owner THEN 0
                    ELSE IF user.group = m.group THEN 3
                    ELSE 6
  IN  m.permissions[base_index + perm + 1] # "-"

\* The first half of rewrite_meta_matching: what it reads before it truncates.
Read(rs) == SubSeq(rs, 1, IF Len(rs) < MaxRecords THEN Len(rs) ELSE MaxRecords)

\* The second half: what it writes back, for delete_file_meta, chmod_file and
\* set_encrypted_flag.
delete_file_meta(rs, filename) ==
  LET kept == {i \in DOMAIN rs : rs[i].filename # filename}
      nth(k) == CHOOSE i \in kept : Cardinality({j \in kept : j <= i}) = k
  IN  [k \in 1 .. Cardinality(kept) |-> rs[nth(k)]]

chmod_file(rs, filename, perm_str) ==
  [i \in DOMAIN rs |-> IF rs[i].filename # filename THEN rs[i]
                       ELSE [rs[i] EXCEPT !.permissions = perm_str]]

\* A rewrite that changes every record.
SetEveryFlag(rs, filename, is_encrypted) ==
  [i \in DOMAIN rs |-> [rs[i] EXCEPT !.is_encrypted = is_encrypted]]

set_encrypted_flag(rs, filename, is_encrypted) ==
  [i \in DOMAIN rs |-> IF rs[i].filename # filename THEN rs[i]
                       ELSE [rs[i] EXCEPT !.is_encrypted = is_encrypted]]

=============================================================================
