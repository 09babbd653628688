------------------------- MODULE FileManagerProofs -------------------------
(***************************************************************************)
(* The file manager, for any names, accounts, contents and passphrases,    *)
(* any number of faults and any limit on the records of a rewrite: every   *)
(* search finds the only record there is, and the metadata file, the       *)
(* stored contents and the audit log agree about every file that neither a *)
(* fault nor a write under another name has hit.                           *)
(***************************************************************************)
EXTENDS FileManager, TLAPS, SequenceTheorems, FiniteSetTheorems, WellFoundedInduction

USE NamesAssumption

ValidPerms == {s \in PermStrings : is_valid_perm_string(s)}
Owners == {u.username : u \in Accounts \cup {NoUser}}
OwnerGroups == {u.group : u \in Accounts \cup {NoUser}}

\* The records of the metadata file.
Record == [filename : Names, owner : Owners, group : OwnerGroups, permissions : ValidPerms,
           is_encrypted : BOOLEAN]

\* No two of them have one name, unless it is one of D.
Unique(rs, D) ==
  \A i, j \in DOMAIN rs :
    rs[i].filename = rs[j].filename /\ rs[i].filename \notin D => i = j

\* A metadata file as it should be.
Table(rs, D) == rs \in Seq(Record) /\ Unique(rs, D)

-----------------------------------------------------------------------------
(* The operators of perms.c.                                               *)

\* A set of positions that is not empty has a first one.
LEMMA MinInSet ==
  ASSUME NEW S \in SUBSET Nat, S # {}
  PROVE  Min(S) \in S /\ \A y \in S : Min(S) <= y
  <1>1. PICK x \in S : \A y \in S : ~(<<y, x>> \in OpToRel(<, Nat))
    BY NatLessThanWellFounded, WFMin
  <1>2. \A y \in S : x =< y
    <2> TAKE y \in S
    <2>1. x \in Nat /\ y \in Nat
      OBVIOUS
    <2>2. ~(y < x)
      BY <1>1, <2>1 DEF OpToRel
    <2>3. QED
      BY <2>1, <2>2
  <1>3. QED
    BY <1>2 DEF Min

\* find_file_meta finds the only record with the name.
LEMMA FindRecord ==
  ASSUME NEW rs, NEW D, Table(rs, D), NEW i \in DOMAIN rs, rs[i].filename \notin D
  PROVE  find_file_meta(rs, rs[i].filename) = rs[i]
  <1> DEFINE S == {j \in DOMAIN rs : rs[j].filename = rs[i].filename}
  <1>1. DOMAIN rs = 1 .. Len(rs) /\ Len(rs) \in Nat
    BY DEF Table
  <1>2. S = {i}
    BY DEF Table, Unique
  <1>3. Min(S) \in S
    <2>1. S \in SUBSET Nat /\ S # {}
      BY <1>1
    <2> HIDE DEF S
    <2>2. QED
      BY <2>1, MinInSet
  <1>4. Min(S) = i
    BY <1>2, <1>3
  <1>5. QED
    BY <1>4 DEF find_file_meta

\* The record of a file that has one.
LEMMA RecordOf ==
  ASSUME NEW rs \in Seq(Record), NEW n \in FileNames(rs)
  PROVE  find_file_meta(rs, n) \in Record /\ find_file_meta(rs, n).filename = n
  <1> DEFINE S == {j \in DOMAIN rs : rs[j].filename = n}
  <1>1. S \in SUBSET Nat /\ S # {}
    BY DEF FileNames
  <1>2. Min(S) \in S
    <2> HIDE DEF S
    <2>1. QED
      BY <1>1, MinInSet
  <1>3. Min(S) \in DOMAIN rs /\ rs[Min(S)].filename = n
    BY <1>2
  <1>4. rs[Min(S)] \in Record
    BY <1>3
  <1>5. QED
    BY <1>3, <1>4 DEF find_file_meta

\* The names it has.
LEMMA TableNames ==
  ASSUME NEW rs \in Seq(Record)
  PROVE  FileNames(rs) \subseteq Names
  <1>1. \A r \in Record : r.filename \in Names
    BY DEF Record
  <1>2. \A i \in DOMAIN rs : rs[i] \in Record
    OBVIOUS
  <1>3. QED
    BY <1>1, <1>2 DEF FileNames

\* More names may have several records.
LEMMA TableGrows ==
  ASSUME NEW rs, NEW D, Table(rs, D), NEW E, D \subseteq E
  PROVE  Table(rs, E)
  BY DEF Table, Unique

\* A table that has the records of another, if not all of them: rs[at[i]] is
\* the record that came to place i.
LEMMA KeptRecords ==
  ASSUME NEW rs, NEW D, Table(rs, D), NEW ts \in Seq(Record),
         NEW at, \A i \in DOMAIN ts : at[i] \in DOMAIN rs /\ ts[i] = rs[at[i]],
         \A i, j \in DOMAIN ts : at[i] = at[j] => i = j
  PROVE  /\ Table(ts, D)
         /\ FileNames(ts) \subseteq FileNames(rs)
         /\ \A n \in FileNames(ts) \ D : find_file_meta(ts, n) = find_file_meta(rs, n)
  <1>1. Table(ts, D)
    BY DEF Table, Unique
  <1>2. FileNames(ts) \subseteq FileNames(rs)
    BY DEF FileNames
  <1>3. ASSUME NEW n \in FileNames(ts) \ D PROVE find_file_meta(ts, n) = find_file_meta(rs, n)
    <2>1. PICK i \in DOMAIN ts : ts[i].filename = n
      BY <1>3 DEF FileNames
    <2>2. find_file_meta(ts, n) = ts[i]
      BY <1>1, <2>1, FindRecord
    <2>3. at[i] \in DOMAIN rs /\ rs[at[i]] = ts[i]
      OBVIOUS
    <2>4. find_file_meta(rs, n) = rs[at[i]]
      BY <2>1, <2>3, FindRecord
    <2>5. QED
      BY <2>2, <2>3, <2>4
  <1>4. QED
    BY <1>1, <1>2, <1>3

\* What rewrite_meta_matching reads.
LEMMA ReadRecords ==
  ASSUME NEW rs, NEW D, Table(rs, D)
  PROVE  /\ Table(Read(rs), D) /\ Len(Read(rs)) <= MaxRecords
         /\ FileNames(Read(rs)) \subseteq FileNames(rs)
         /\ \A n \in FileNames(Read(rs)) \ D : find_file_meta(Read(rs), n) = find_file_meta(rs, n)
  <1> DEFINE m == IF Len(rs) < MaxRecords THEN Len(rs) ELSE MaxRecords
             at == [i \in 1 .. m |-> i]
  <1>1. rs \in Seq(Record) /\ Len(rs) \in Nat /\ DOMAIN rs = 1 .. Len(rs)
    BY DEF Table
  <1>2. m \in 0 .. Len(rs) /\ m <= MaxRecords
    BY <1>1, MaxRecordsAssumption
  <1>3. Read(rs) = SubSeq(rs, 1, m)
    BY DEF Read
  <1> HIDE DEF m
  <1>4. /\ Read(rs) \in Seq(Record) /\ Len(Read(rs)) = m
        /\ \A i \in 1 .. m : Read(rs)[i] = rs[i]
    BY <1>1, <1>2, <1>3
  <1>5. DOMAIN Read(rs) = 1 .. m
    BY <1>4
  <1>6. \A i \in DOMAIN Read(rs) : at[i] \in DOMAIN rs /\ Read(rs)[i] = rs[at[i]]
    BY <1>1, <1>2, <1>4, <1>5
  <1>7. \A i, j \in DOMAIN Read(rs) : at[i] = at[j] => i = j
    BY <1>5
  <1> HIDE DEF at
  <1>8. PICK ts : ts = Read(rs)
    OBVIOUS
  <1>9. /\ Table(ts, D) /\ FileNames(ts) \subseteq FileNames(rs)
        /\ \A n \in FileNames(ts) \ D : find_file_meta(ts, n) = find_file_meta(rs, n)
    BY <1>4, <1>6, <1>7, <1>8, KeptRecords
  <1>10. QED
    BY <1>2, <1>4, <1>8, <1>9

\* The table ts is rs with one more record, of the file n and the owner o.
Appended(rs, D, n, o, ts) ==
  /\ Table(ts, D \cup {n}) /\ FileNames(ts) = FileNames(rs) \cup {n}
  /\ \A m \in FileNames(rs) \ (D \cup {n}) : find_file_meta(ts, m) = find_file_meta(rs, m)
  /\ n \notin FileNames(rs) =>
       /\ Table(ts, D \ {n})
       /\ find_file_meta(ts, n).owner = o /\ ~find_file_meta(ts, n).is_encrypted

\* What create_file_meta appends.
LEMMA CreateRecord ==
  ASSUME NEW rs, NEW D, Table(rs, D), NEW n \in Names,
         NEW o \in Owners, NEW g \in OwnerGroups, NEW p \in ValidPerms,
         NEW ts, ts = create_file_meta(rs, n, o, g, p)
  PROVE  Appended(rs, D, n, o, ts)
  <1> DEFINE r == [filename |-> n, owner |-> o, group |-> g, permissions |-> p,
                   is_encrypted |-> FALSE]
  <1>1. r \in Record /\ r.filename = n /\ r.owner = o /\ ~r.is_encrypted
    BY DEF Record
  <1>2. ts = Append(rs, r)
    BY DEF create_file_meta
  <1> HIDE DEF r
  <1>3. rs \in Seq(Record) /\ Len(rs) \in Nat /\ DOMAIN rs = 1 .. Len(rs)
    BY DEF Table
  <1>4. /\ ts \in Seq(Record) /\ DOMAIN ts = 1 .. Len(rs) + 1
        /\ \A i \in DOMAIN rs : ts[i] = rs[i]
        /\ ts[Len(rs) + 1] = r
    BY <1>1, <1>2, <1>3
  <1>5. FileNames(ts) = FileNames(rs) \cup {n}
    BY <1>1, <1>3, <1>4 DEF FileNames
  <1>6. ASSUME NEW i \in DOMAIN ts, NEW j \in DOMAIN ts, ts[i].filename = ts[j].filename,
               ts[i].filename \notin D \/ ts[i].filename = n,
               ts[i].filename = n => n \notin FileNames(rs)
        PROVE  i = j
    <2>1. CASE ts[i].filename = n
      <3>1. \A k \in DOMAIN rs : rs[k].filename # n
        BY <1>6, <2>1 DEF FileNames
      <3>2. \A k \in DOMAIN ts : ts[k].filename = n => k = Len(rs) + 1
        BY <1>3, <1>4, <3>1
      <3>3. QED
        BY <1>6, <2>1, <3>2
    <2>2. CASE ts[i].filename # n
      <3>1. i \in DOMAIN rs /\ j \in DOMAIN rs
        BY <1>1, <1>3, <1>4, <1>6, <2>2
      <3>2. QED
        BY <1>4, <1>6, <2>2, <3>1 DEF Table, Unique
    <2>3. QED
      BY <2>1, <2>2
  <1>7. Table(ts, D \cup {n})
    BY <1>4, <1>6 DEF Table, Unique
  <1>8. ASSUME NEW m \in FileNames(rs) \ (D \cup {n})
        PROVE  find_file_meta(ts, m) = find_file_meta(rs, m)
    <2>1. PICK i \in DOMAIN rs : rs[i].filename = m
      BY <1>8 DEF FileNames
    <2>2. i \in DOMAIN ts /\ ts[i] = rs[i]
      BY <1>3, <1>4
    <2>3. find_file_meta(rs, m) = rs[i] /\ find_file_meta(ts, m) = ts[i]
      BY <1>7, <1>8, <2>1, <2>2, FindRecord
    <2>4. QED
      BY <2>2, <2>3
  <1>9. ASSUME n \notin FileNames(rs)
        PROVE  Table(ts, D \ {n}) /\ find_file_meta(ts, n) = r
    <2>1. Table(ts, D \ {n})
      BY <1>4, <1>6, <1>9 DEF Table, Unique
    <2>2. Len(rs) + 1 \in DOMAIN ts
      BY <1>3, <1>4
    <2>3. QED
      BY <1>1, <1>4, <2>1, <2>2, FindRecord
  <1>10. QED
    BY <1>1, <1>5, <1>7, <1>8, <1>9 DEF Appended

\* The place of the k-th element of a finite set of positions.
UpTo(S, i) == {j \in S : j <= i}
LEMMA CountUpTo ==
  ASSUME NEW n \in Nat, NEW S \in SUBSET (1 .. n)
  PROVE  /\ IsFiniteSet(S) /\ Cardinality(S) \in Nat
         /\ \A i \in 0 .. n : IsFiniteSet(UpTo(S, i)) /\ Cardinality(UpTo(S, i)) \in Nat
         /\ Cardinality(UpTo(S, 0)) = 0 /\ UpTo(S, n) = S
         /\ \A i \in 1 .. n : Cardinality(UpTo(S, i)) =
              Cardinality(UpTo(S, i - 1)) + IF i \in S THEN 1 ELSE 0
  <1>1. \A j \in S : j \in Int /\ 1 <= j /\ j <= n
    OBVIOUS
  <1>2. IsFiniteSet(1 .. n)
    BY FS_Interval
  <1>3. IsFiniteSet(S) /\ Cardinality(S) \in Nat
    BY <1>2, FS_Subset, FS_CardinalityType
  <1>4. ASSUME NEW i \in 0 .. n PROVE IsFiniteSet(UpTo(S, i)) /\ Cardinality(UpTo(S, i)) \in Nat
    <2>1. UpTo(S, i) \subseteq S
      BY DEF UpTo
    <2>2. QED
      BY <1>3, <2>1, FS_Subset, FS_CardinalityType
  <1>5. Cardinality(UpTo(S, 0)) = 0
    <2>1. \A j \in S : ~(j <= 0)
      BY <1>1
    <2>2. UpTo(S, 0) = {}
      BY <2>1, Zenon DEF UpTo
    <2>3. QED
      BY <2>2, FS_EmptySet
  <1>6. UpTo(S, n) = S
    BY <1>1 DEF UpTo
  <1>7. ASSUME NEW i \in 1 .. n
        PROVE  Cardinality(UpTo(S, i)) = Cardinality(UpTo(S, i - 1)) + IF i \in S THEN 1 ELSE 0
    <2>1. IsFiniteSet(UpTo(S, i - 1)) /\ Cardinality(UpTo(S, i - 1)) \in Nat
      BY <1>4
    <2>2. CASE i \in S
      <3>1. (\A j \in S : j <= i <=> j <= i - 1 \/ j = i) /\ ~(i <= i - 1)
        BY <1>1
      <3>2. UpTo(S, i) = UpTo(S, i - 1) \cup {i} /\ i \notin UpTo(S, i - 1)
        BY <2>2, <3>1, Zenon DEF UpTo
      <3>3. Cardinality(UpTo(S, i - 1) \cup {i}) = Cardinality(UpTo(S, i - 1)) + 1
        BY <2>1, <3>2, FS_AddElement
      <3>4. QED
        BY <2>2, <3>2, <3>3, Zenon
    <2>3. CASE i \notin S
      <3>1. \A j \in S : j <= i <=> j <= i - 1
        BY <1>1, <2>3
      <3>2. UpTo(S, i) = UpTo(S, i - 1)
        BY <3>1, Zenon DEF UpTo
      <3>3. Cardinality(UpTo(S, i)) = Cardinality(UpTo(S, i - 1))
        BY <3>2, Zenon
      <3>4. QED
        BY <2>1, <2>3, <3>3
    <2>4. QED
      BY <2>2, <2>3
  <1>8. QED
    BY <1>3, <1>4, <1>5, <1>6, <1>7

\* There is one for every number up to the size of the set.
LEMMA NthElement ==
  ASSUME NEW n \in Nat, NEW S \in SUBSET (1 .. n), NEW k \in 1 .. Cardinality(S)
  PROVE  \E i \in S : Cardinality(UpTo(S, i)) = k
  <1> DEFINE C(i) == Cardinality(UpTo(S, i))
             T == {i \in 0 .. n : k <= C(i)}
  <1>1. /\ Cardinality(S) \in Nat /\ C(0) = 0 /\ \A i \in 0 .. n : C(i) \in Nat
        /\ \A i \in 1 .. n : C(i) = C(i - 1) + IF i \in S THEN 1 ELSE 0
    BY CountUpTo
  <1>2. C(n) = Cardinality(S)
    <2>1. UpTo(S, n) = S
      BY CountUpTo
    <2>2. QED
      BY <2>1, Zenon
  <1> HIDE DEF C
  <1>3. T \in SUBSET Nat /\ n \in T
    BY <1>1, <1>2
  <1>4. Min(T) \in T /\ \A y \in T : Min(T) <= y
    <2> HIDE DEF T
    <2>1. QED
      BY <1>3, MinInSet
  <1> DEFINE m == Min(T)
  <1>5. m \in T /\ \A y \in T : m <= y
    BY <1>4
  <1> HIDE DEF m
  <1>6. m \in 1 .. n
    BY <1>1, <1>5
  <1>7. C(m - 1) < k
    <2>1. m - 1 \in 0 .. n /\ m - 1 \notin T
      BY <1>5, <1>6
    <2>2. C(m - 1) \in Nat
      BY <1>1, <2>1
    <2>3. QED
      BY <1>1, <2>1, <2>2
  <1>8. m \in S /\ C(m) = k
    <2>1. C(m - 1) \in Nat /\ C(m) \in Nat /\ k <= C(m)
      BY <1>1, <1>5, <1>6
    <2>2. C(m) = C(m - 1) + IF m \in S THEN 1 ELSE 0
      BY <1>1, <1>6
    <2>3. QED
      BY <1>7, <2>1, <2>2
  <1>9. QED
    BY <1>8 DEF C

\* And only one.
LEMMA NthUnique ==
  ASSUME NEW n \in Nat, NEW S \in SUBSET (1 .. n), NEW i \in S, NEW j \in S,
         Cardinality(UpTo(S, i)) = Cardinality(UpTo(S, j))
  PROVE  i = j
  <1>1. \A a \in S : a \in Int /\ a \in 0 .. n
    OBVIOUS
  <1>2. ASSUME NEW a \in S, NEW b \in S, a < b
        PROVE  Cardinality(UpTo(S, a)) # Cardinality(UpTo(S, b))
    <2>1. (\A x \in S : x <= a => x <= b) /\ b <= b /\ ~(b <= a)
      BY <1>1, <1>2
    <2>2. UpTo(S, a) \subseteq UpTo(S, b) /\ b \in UpTo(S, b) /\ b \notin UpTo(S, a)
      BY <2>1, Zenon DEF UpTo
    <2>3. IsFiniteSet(UpTo(S, b))
      BY <1>1, CountUpTo
    <2>4. UpTo(S, a) # UpTo(S, b)
      BY <2>2
    <2>5. QED
      BY <2>2, <2>3, <2>4, FS_Subset
  <1>3. i \in Int /\ j \in Int
    OBVIOUS
  <1>4. QED
    BY <1>2, <1>3

\* What delete_file_meta writes back.
LEMMA DeleteRecord ==
  ASSUME NEW rs, NEW D, Table(rs, D), NEW n, NEW ts, ts = delete_file_meta(rs, n)
  PROVE  /\ Table(ts, D) /\ FileNames(ts) = FileNames(rs) \ {n}
         /\ \A m \in FileNames(ts) \ D : find_file_meta(ts, m) = find_file_meta(rs, m)
  <1> DEFINE kept == {i \in DOMAIN rs : rs[i].filename # n}
             C(i) == Cardinality(UpTo(kept, i))
             nth(k) == CHOOSE i \in kept : C(i) = k
             at == [k \in 1 .. Cardinality(kept) |-> nth(k)]
  <1>1. rs \in Seq(Record) /\ Len(rs) \in Nat /\ DOMAIN rs = 1 .. Len(rs)
    BY DEF Table
  <1>2. kept \in SUBSET (1 .. Len(rs))
    BY <1>1
  <1>3. ts = [k \in 1 .. Cardinality(kept) |-> rs[nth(k)]]
    BY DEF delete_file_meta, UpTo
  <1>4. \A i \in kept : i \in DOMAIN rs /\ rs[i].filename # n /\ rs[i] \in Record
    BY <1>1
  <1>5. \A i \in DOMAIN rs : i \notin kept => rs[i].filename = n
    OBVIOUS
  <1> HIDE DEF kept
  <1>6. Cardinality(kept) \in Nat
    BY <1>1, <1>2, CountUpTo
  <1>7. ASSUME NEW k \in 1 .. Cardinality(kept) PROVE nth(k) \in kept /\ C(nth(k)) = k
    <2>1. \E i \in kept : C(i) = k
      BY <1>1, <1>2, NthElement
    <2> HIDE DEF C
    <2>2. QED
      BY <2>1
  <1> HIDE DEF nth
  <1>8. DOMAIN ts = 1 .. Cardinality(kept) /\ \A k \in DOMAIN ts : ts[k] = rs[nth(k)]
    BY <1>3
  <1>9. ts \in Seq(Record)
    BY <1>3, <1>4, <1>6, <1>7
  <1>10. \A k \in DOMAIN ts : at[k] \in DOMAIN rs /\ ts[k] = rs[at[k]]
    BY <1>4, <1>7, <1>8
  <1>11. \A k, l \in DOMAIN ts : at[k] = at[l] => k = l
    BY <1>7, <1>8
  <1>12. FileNames(rs) \ {n} \subseteq FileNames(ts)
    <2> SUFFICES ASSUME NEW i \in DOMAIN rs, rs[i].filename # n
                 PROVE  \E k \in DOMAIN ts : ts[k] = rs[i]
      BY DEF FileNames
    <2>1. i \in kept
      BY <1>5
    <2>2. C(i) \in 1 .. Cardinality(kept)
      <3>1. UpTo(kept, i) \subseteq kept /\ i \in UpTo(kept, i)
        BY <1>1, <2>1 DEF UpTo
      <3>2. IsFiniteSet(kept) /\ IsFiniteSet(UpTo(kept, i)) /\ C(i) \in Nat
        <4>1. i \in 0 .. Len(rs)
          BY <1>1
        <4>2. QED
          BY <1>1, <1>2, <4>1, CountUpTo
      <3>3. C(i) <= Cardinality(kept)
        BY <3>1, <3>2, FS_Subset
      <3>4. C(i) # 0
        BY <3>1, <3>2, FS_EmptySet
      <3>5. QED
        BY <1>6, <3>2, <3>3, <3>4
    <2>3. nth(C(i)) \in kept /\ C(nth(C(i))) = C(i)
      BY <1>7, <2>2
    <2>4. nth(C(i)) = i
      BY <1>1, <1>2, <2>1, <2>3, NthUnique
    <2>5. QED
      BY <1>8, <2>2, <2>4
  <1>13. n \notin FileNames(ts)
    BY <1>4, <1>7, <1>8 DEF FileNames
  <1> HIDE DEF at
  <1>14. QED
    BY <1>9, <1>10, <1>11, <1>12, <1>13, KeptRecords

\* What chmod_file and set_encrypted_flag write back: one record has changed.
Changed(rs, n, ts) ==
  /\ DOMAIN ts = DOMAIN rs /\ ts \in Seq(Record)
  /\ \A i \in DOMAIN rs : /\ ts[i].filename = rs[i].filename
                          /\ rs[i].filename # n => ts[i] = rs[i]
LEMMA ChangeRecord ==
  ASSUME NEW rs, NEW D, Table(rs, D), NEW n, NEW ts, Changed(rs, n, ts)
  PROVE  /\ Table(ts, D) /\ FileNames(ts) = FileNames(rs)
         /\ \A m \in FileNames(rs) \ (D \cup {n}) : find_file_meta(ts, m) = find_file_meta(rs, m)
  <1>1. Table(ts, D)
    BY DEF Table, Unique, Changed
  <1>2. FileNames(ts) = FileNames(rs)
    BY DEF FileNames, Changed
  <1>3. ASSUME NEW m \in FileNames(rs) \ (D \cup {n})
        PROVE  find_file_meta(ts, m) = find_file_meta(rs, m)
    <2>1. PICK i \in DOMAIN rs : rs[i].filename = m
      BY <1>3 DEF FileNames
    <2>2. i \in DOMAIN ts /\ ts[i] = rs[i]
      BY <1>3, <2>1 DEF Changed
    <2>3. find_file_meta(rs, m) = rs[i] /\ find_file_meta(ts, m) = ts[i]
      BY <1>1, <1>3, <2>1, <2>2, FindRecord
    <2>4. QED
      BY <2>2, <2>3
  <1>4. QED
    BY <1>1, <1>2, <1>3

\* chmod_file leaves the flags alone.
LEMMA ChmodRecord ==
  ASSUME NEW rs, NEW D, Table(rs, D), NEW n, NEW p \in ValidPerms, NEW ts, ts = chmod_file(rs, n, p)
  PROVE  /\ Table(ts, D) /\ FileNames(ts) = FileNames(rs)
         /\ \A m \in FileNames(rs) \ (D \cup {n}) : find_file_meta(ts, m) = find_file_meta(rs, m)
         /\ \A m \in FileNames(rs) \ D :
              find_file_meta(ts, m).is_encrypted = find_file_meta(rs, m).is_encrypted
  <1>1. DOMAIN rs = 1 .. Len(rs) /\ Len(rs) \in Nat /\ \A i \in DOMAIN rs : rs[i] \in Record
    BY DEF Table
  <1>2. /\ DOMAIN ts = DOMAIN rs
        /\ \A i \in DOMAIN rs : ts[i] = IF rs[i].filename # n THEN rs[i]
                                        ELSE [rs[i] EXCEPT !.permissions = p]
    BY DEF chmod_file
  <1>3. ASSUME NEW r \in Record
        PROVE  LET q == [r EXCEPT !.permissions = p]
               IN  q \in Record /\ q.filename = r.filename /\ q.is_encrypted = r.is_encrypted
    BY DEF Record
  <1>4. \A i \in DOMAIN rs : /\ ts[i] \in Record /\ ts[i].filename = rs[i].filename
                             /\ ts[i].is_encrypted = rs[i].is_encrypted
                             /\ rs[i].filename # n => ts[i] = rs[i]
    BY <1>1, <1>2, <1>3
  <1>5. ts \in Seq(Record)
    <2>1. ts = [i \in 1 .. Len(rs) |-> ts[i]]
      BY <1>1 DEF chmod_file
    <2>2. QED
      BY <1>1, <1>4, <2>1
  <1>6. Table(ts, D)
    BY <1>2, <1>4, <1>5 DEF Table, Unique
  <1>7. ASSUME NEW m \in FileNames(rs) \ D
        PROVE  find_file_meta(ts, m).is_encrypted = find_file_meta(rs, m).is_encrypted
    <2>1. PICK i \in DOMAIN rs : rs[i].filename = m
      BY <1>7 DEF FileNames
    <2>2. find_file_meta(ts, m) = ts[i] /\ find_file_meta(rs, m) = rs[i]
      BY <1>2, <1>4, <1>6, <1>7, <2>1, FindRecord
    <2>3. QED
      BY <1>4, <2>2
  <1>8. Changed(rs, n, ts)
    BY <1>2, <1>4, <1>5 DEF Changed
  <1>9. /\ FileNames(ts) = FileNames(rs)
        /\ \A m \in FileNames(rs) \ (D \cup {n}) : find_file_meta(ts, m) = find_file_meta(rs, m)
    BY <1>8, ChangeRecord
  <1>10. QED
    BY <1>6, <1>7, <1>9

\* set_encrypted_flag changes only the flag of its file.
LEMMA FlagRecord ==
  ASSUME NEW rs, NEW D, Table(rs, D), NEW n, NEW b \in BOOLEAN, NEW ts,
         ts = set_encrypted_flag(rs, n, b)
  PROVE  /\ Table(ts, D) /\ FileNames(ts) = FileNames(rs)
         /\ \A m \in FileNames(rs) \ (D \cup {n}) : find_file_meta(ts, m) = find_file_meta(rs, m)
         /\ n \in FileNames(rs) \ D => find_file_meta(ts, n).is_encrypted = b
  <1>1. DOMAIN rs = 1 .. Len(rs) /\ Len(rs) \in Nat /\ \A i \in DOMAIN rs : rs[i] \in Record
    BY DEF Table
  <1>2. /\ DOMAIN ts = DOMAIN rs
        /\ \A i \in DOMAIN rs : ts[i] = IF rs[i].filename # n THEN rs[i]
                                        ELSE [rs[i] EXCEPT !.is_encrypted = b]
    BY DEF set_encrypted_flag
  <1>3. ASSUME NEW r \in Record
        PROVE  LET q == [r EXCEPT !.is_encrypted = b]
               IN  q \in Record /\ q.filename = r.filename /\ q.is_encrypted = b
    BY DEF Record
  <1>4. \A i \in DOMAIN rs : /\ ts[i] \in Record /\ ts[i].filename = rs[i].filename
                             /\ rs[i].filename = n => ts[i].is_encrypted = b
                             /\ rs[i].filename # n => ts[i] = rs[i]
    <2> TAKE i \in DOMAIN rs
    <2>1. CASE rs[i].filename = n
      <3>1. ts[i] = [rs[i] EXCEPT !.is_encrypted = b] /\ rs[i] \in Record
        BY <1>1, <1>2, <2>1
      <3>2. QED
        BY <1>3, <2>1, <3>1
    <2>2. CASE rs[i].filename # n
      BY <1>1, <1>2, <2>2
    <2>3. QED
      BY <2>1, <2>2
  <1>5. ts \in Seq(Record)
    <2>1. ts = [i \in 1 .. Len(rs) |-> ts[i]]
      BY <1>1 DEF set_encrypted_flag
    <2>2. QED
      BY <1>1, <1>4, <2>1
  <1>6. Table(ts, D)
    BY <1>2, <1>4, <1>5 DEF Table, Unique
  <1>7. ASSUME n \in FileNames(rs) \ D PROVE find_file_meta(ts, n).is_encrypted = b
    <2>1. PICK i \in DOMAIN rs : rs[i].filename = n
      BY <1>7 DEF FileNames
    <2>2. find_file_meta(ts, n) = ts[i]
      BY <1>2, <1>4, <1>6, <1>7, <2>1, FindRecord
    <2>3. QED
      BY <1>4, <2>1, <2>2
  <1>8. Changed(rs, n, ts)
    BY <1>2, <1>4, <1>5 DEF Changed
  <1>9. /\ FileNames(ts) = FileNames(rs)
        /\ \A m \in FileNames(rs) \ (D \cup {n}) : find_file_meta(ts, m) = find_file_meta(rs, m)
    BY <1>8, ChangeRecord
  <1>10. QED
    BY <1>6, <1>7, <1>9

-----------------------------------------------------------------------------
(* The invariant.                                                          *)

\* What an operation may have left to do.
LogOnly    == <<"log">>
Writing    == <<"write", "log">>
Opening    == <<"open", "write", "log">>
Rewriting  == <<"rewrite", "log">>
Truncating == <<"truncate", "rewrite", "log">>
Removing   == <<"remove", "truncate", "rewrite", "log">>
Reflushing == <<"write", "truncate", "rewrite", "log">>
Reopening  == <<"open", "write", "truncate", "rewrite", "log">>

Writers     == {"CREATE", "WRITE", "APPEND"}
Transforms  == {"ENCRYPT", "DECRYPT"}
Rewriters   == {"CREATE", "DELETE", "CHMOD"} \cup Transforms
FileActions == Writers \cup Rewriters \cup {"READ"}

\* Every variable has its type.
FileTypes ==
  /\ users \in Seq(Accounts)
  /\ meta \in Seq(Record)
  /\ storage \in [Paths -> Seq(Byte) \cup {Missing}]
  /\ audit \in [Names -> {"none", "CREATE", "DELETE", "ENCRYPT", "DECRYPT"}]
ProcessTypes ==
  /\ running \in BOOLEAN
  /\ current_user \in Accounts \cup {NoUser}
  /\ records \in Seq(Record) /\ Len(records) <= MaxRecords
HistoryTypes ==
  /\ plain \in [Names -> Seq(Characters(Contents))]
  /\ mixed \subseteq Names /\ harmed \subseteq Names /\ misfiled \subseteq Names
  /\ events \in 0 .. MaxEvents
OpType(o) ==
  /\ DOMAIN o = DOMAIN NoOp
  /\ o.name \in Names \cup {NoName} /\ o.ok \in BOOLEAN
  /\ o.buf \in Seq(Byte) /\ o.passphrase \in Passphrases \cup {Blank}
Types == FileTypes /\ ProcessTypes /\ HistoryTypes /\ OpType(op)

\* The operation o may have the steps left to do.
Plan(o, steps) ==
  /\ steps # << >> /\ o.action \in FileActions => o.name \in Names
  /\ \/ steps \in {<< >>, LogOnly} /\ o = NoOp
     \/ steps = LogOnly /\ o.action \in FileActions
     \/ steps = LogOnly /\ o.action \in {"REGISTER", "LOGIN", "LOGOUT"} /\ o.name = NoName /\ ~o.ok
     \/ steps \in {Opening, Writing} /\ o.ok /\ o.action \in Writers
     \/ /\ steps \in {Truncating, Rewriting} /\ o.action \in Rewriters
        /\ o.ok <=> o.action # "CREATE"
        /\ o.action = "CHMOD" => o.perm_str \in ValidPerms
     \/ steps = Removing /\ o.ok /\ o.action = "DELETE"
     \/ steps \in {Reflushing, Reopening} /\ o.ok /\ o.action \in Transforms

\* While the metadata file is truncated the records are in memory.
TableInv ==
  /\ Unique(meta, misfiled) /\ Unique(records, misfiled) /\ misfiled \subseteq harmed
  /\ IF todo = Rewriting THEN meta = << >> ELSE records = << >>
UsersInv ==
  \A i, j \in DOMAIN users :
    users[i].username = users[j].username /\ users[i].username \notin twins => i = j

Current == IF todo = Rewriting THEN records ELSE meta
Has(n)  == n \in FileNames(Current)
Flag(n) == find_file_meta(Current, n).is_encrypted

\* Metadata, contents and log agree about a file; or it is not there.
Agree(n) ==
  /\ Has(n) <=> storage[PathOf[n]] # Missing
  /\ Has(n) <=> audit[n] \notin {"none", "DELETE"}
  /\ Has(n) => (Flag(n) <=> audit[n] = "ENCRYPT")
Absent(n) == storage[PathOf[n]] = Missing /\ audit[n] \in {"none", "DELETE"}

\* The operation has begun to change what the three say about its file.
Busy ==
  \/ op.action = "CREATE" /\ (op.ok \/ todo # LogOnly)
  \/ op.action = "DELETE" /\ op.ok /\ todo # Removing
  \/ op.action \in Transforms /\ op.ok /\ todo # Reopening

AgreeInv == \A n \in Names : n \notin harmed /\ (Busy => n # op.name) => Agree(n)

\* How far it has got.
CreateInv ==
  op.action = "CREATE" /\ op.ok /\ op.name \notin misfiled =>
    /\ Has(op.name) /\ ~Flag(op.name)
    /\ find_file_meta(Current, op.name).owner = current_user.username
    /\ todo = Opening /\ op.name \notin harmed => Absent(op.name)
    /\ todo # Opening => storage[PathOf[op.name]] # Missing
    /\ todo = Writing => storage[PathOf[op.name]] = << >>
RollbackInv ==
  op.action = "CREATE" /\ ~op.ok /\ todo # LogOnly /\ op.name \notin harmed => Absent(op.name)
DeleteInv ==
  op.action = "DELETE" /\ op.ok /\ op.name \notin harmed =>
    /\ Has(op.name) <=> todo # LogOnly
    /\ todo # Removing => storage[PathOf[op.name]] = Missing
TransformInv ==
  op.action \in Transforms /\ op.ok /\ op.name \notin harmed =>
    /\ Has(op.name) /\ storage[PathOf[op.name]] # Missing
    /\ Flag(op.name) <=> ((op.action = "ENCRYPT") <=> (todo = LogOnly))
OpInv == CreateInv /\ RollbackInv /\ DeleteInv /\ TransformInv

\* An operation that changes the content was allowed to.
PermInv ==
  /\ op.action # "CREATE"
  /\ todo \in {Opening, Writing, Removing, Reflushing, Reopening}
  => Allowed(op.name, PERM_WRITE)

\* fclose finds the file that fopen opened, and no other name of it is settled.
StoredInv ==
  todo \in {Writing, Reflushing} =>
    storage[PathOf[op.name]] # Missing /\ Aliases(op.name) \subseteq harmed

Inv ==
  /\ Types /\ Plan(op, todo) /\ TableInv /\ UsersInv
  /\ AgreeInv /\ OpInv /\ PermInv /\ StoredInv

-----------------------------------------------------------------------------
(* Steps, and what they leave alone.                                       *)

\* The lists of steps, one by one.
LEMMA PlanSteps ==
  /\ Head(LogOnly) = "log" /\ Tail(LogOnly) = << >> /\ LogOnly # << >>
  /\ Head(Writing) = "write" /\ Tail(Writing) = LogOnly /\ Writing # << >>
  /\ Head(Opening) = "open" /\ Tail(Opening) = Writing /\ Opening # << >>
  /\ Head(Rewriting) = "rewrite" /\ Tail(Rewriting) = LogOnly /\ Rewriting # << >>
  /\ Head(Truncating) = "truncate" /\ Tail(Truncating) = Rewriting /\ Truncating # << >>
  /\ Head(Removing) = "remove" /\ Tail(Removing) = Truncating /\ Removing # << >>
  /\ Head(Reflushing) = "write" /\ Tail(Reflushing) = Truncating /\ Reflushing # << >>
  /\ Head(Reopening) = "open" /\ Tail(Reopening) = Reflushing /\ Reopening # << >>
  BY DEF LogOnly, Writing, Opening, Rewriting, Truncating, Removing, Reflushing, Reopening

\* No two of them are the same.
LEMMA PlansDiffer ==
  /\ LogOnly \notin {Writing, Opening, Rewriting, Truncating, Removing, Reflushing, Reopening}
  /\ Rewriting \notin {Writing, Opening, Truncating, Removing, Reflushing, Reopening}
  /\ Opening \notin {Writing, Truncating, Removing, Reflushing, Reopening}
  /\ Removing \notin {Writing, Truncating, Reflushing, Reopening}
  /\ Writing # Reflushing
  <1>1. /\ Len(LogOnly) = 1 /\ Len(Writing) = 2 /\ Len(Opening) = 3 /\ Len(Rewriting) = 2
        /\ Len(Truncating) = 3 /\ Len(Removing) = 4 /\ Len(Reflushing) = 4 /\ Len(Reopening) = 5
    BY DEF LogOnly, Writing, Opening, Rewriting, Truncating, Removing, Reflushing, Reopening
  <1>2. QED
    BY <1>1, PlanSteps

\* Where an operation is when its next step is s.
LEMMA AtStep ==
  ASSUME Plan(op, todo), todo # << >>
  PROVE  /\ Head(todo) = "open" =>
              /\ op.ok /\ op.name \in Names
              /\ \/ todo = Opening /\ Tail(todo) = Writing /\ op.action \in Writers
                 \/ todo = Reopening /\ Tail(todo) = Reflushing /\ op.action \in Transforms
         /\ Head(todo) = "write" =>
              /\ op.ok /\ op.name \in Names
              /\ \/ todo = Writing /\ Tail(todo) = LogOnly /\ op.action \in Writers
                 \/ todo = Reflushing /\ Tail(todo) = Truncating /\ op.action \in Transforms
         /\ Head(todo) = "remove" =>
              /\ op.ok /\ op.name \in Names
              /\ todo = Removing /\ Tail(todo) = Truncating /\ op.action = "DELETE"
         /\ Head(todo) \in {"truncate", "rewrite"} =>
              /\ op.name \in Names /\ op.action \in Rewriters
              /\ op.ok <=> op.action # "CREATE"
              /\ op.action = "CHMOD" => op.perm_str \in ValidPerms
         /\ Head(todo) = "truncate" => todo = Truncating /\ Tail(todo) = Rewriting
         /\ Head(todo) = "rewrite" => todo = Rewriting /\ Tail(todo) = LogOnly
         /\ Head(todo) = "log" => todo = LogOnly /\ Tail(todo) = << >>
         /\ Head(todo) # "rewrite" => todo # Rewriting
  BY PlanSteps DEF Plan, Writers, Rewriters, Transforms, FileActions

\* What the invariant says of a file about which nothing changes.
LEMMA AgreeStays ==
  ASSUME NEW n, Agree(n), (storage'[PathOf[n]] = Missing <=> storage[PathOf[n]] = Missing), audit'[n] = audit[n],
         Has(n)' <=> Has(n), Has(n) => (Flag(n)' <=> Flag(n))
  PROVE  Agree(n)'
  BY DEF Agree

\* The contents that are written are sequences of bytes.
LEMMA ByteTypes ==
  /\ << >> \in Seq(Byte) /\ << >> # Missing
  /\ \A s \in Seq(Byte) : s # Missing /\ Text(s) \in Seq(Characters(Contents))
  /\ \A t \in Contents : Bytes(t) \in Seq(Byte)
  <1>1. << >> \in Seq(Byte) /\ \A s \in Seq(Byte) : s # Missing
    BY MissingAssumption
  <1>2. \A b \in Byte : b.char \in Characters(Contents)
    BY DEF Byte
  <1>3. ASSUME NEW s \in Seq(Byte) PROVE Text(s) \in Seq(Characters(Contents))
    <2>1. DOMAIN s = 1 .. Len(s) /\ Len(s) \in Nat /\ \A i \in DOMAIN s : s[i] \in Byte
      OBVIOUS
    <2>2. QED
      BY <1>2, <2>1 DEF Text
  <1>4. \A x \in Characters(Contents) : [char |-> x, keys |-> {}] \in Byte
    BY DEF Byte
  <1>5. ASSUME NEW t \in Contents PROVE Bytes(t) \in Seq(Byte)
    <2>1. t \in Seq(Characters(Contents))
      BY StringsAssumption
    <2>2. DOMAIN t = 1 .. Len(t) /\ Len(t) \in Nat /\ \A i \in DOMAIN t : t[i] \in Characters(Contents)
      BY <2>1
    <2>3. QED
      BY <1>4, <2>2 DEF Bytes
  <1>6. QED
    BY <1>1, <1>3, <1>5

\* So are the results of xor_cipher.
LEMMA XorType ==
  ASSUME NEW s \in Seq(Byte), NEW p \in Passphrases
  PROVE  xor_cipher(s, p) \in Seq(Byte)
  <1>1. DOMAIN s = 1 .. Len(s) /\ Len(s) \in Nat /\ \A i \in DOMAIN s : s[i] \in Byte
    OBVIOUS
  <1>2. ASSUME NEW b \in Byte, NEW i \in 1 .. Len(s)
        PROVE  [b EXCEPT !.keys = Toggle(@, <<p, (i - 1) % HashLen>>)] \in Byte
    <2>1. (i - 1) % HashLen \in 0 .. HashLen - 1
      BY ConstantsAssumption
    <2>2. <<p, (i - 1) % HashLen>> \in Passphrases \X (0 .. HashLen - 1)
      BY <2>1
    <2> DEFINE x == <<p, (i - 1) % HashLen>>
               D == Passphrases \X (0 .. HashLen - 1)
    <2>3. x \in D
      BY <2>2
    <2> HIDE DEF x
    <2>4. b.keys \in SUBSET D /\ b.char \in Characters(Contents) /\ b \in [char : Characters(Contents), keys : SUBSET D]
      BY DEF Byte
    <2> HIDE DEF D
    <2>5. Toggle(b.keys, x) \in SUBSET D
      BY <2>3, <2>4 DEF Toggle
    <2>6. [b EXCEPT !.keys = Toggle(@, x)] \in [char : Characters(Contents), keys : SUBSET D]
      BY <2>4, <2>5
    <2>7. QED
      BY <2>6 DEF Byte, x, D
  <1>3. QED
    BY <1>1, <1>2 DEF xor_cipher

\* Decode does nothing or XORs.
LEMMA DecodeType ==
  ASSUME NEW s \in Seq(Byte), NEW p \in Passphrases, NEW n
  PROVE  Decode(n, s, p) \in Seq(Byte)
  BY XorType DEF Decode

\* Between two operations everything agrees.
LEMMA IdleAgrees ==
  ASSUME Inv, Idle
  PROVE  /\ todo = << >> /\ op = NoOp /\ Current = meta /\ records = << >> /\ Table(meta, misfiled)
         /\ \A n \in Names : n \notin harmed => Agree(n)
  <1>1. todo = << >> /\ op = NoOp
    BY PlanSteps DEF Inv, Idle, Plan
  <1>2. todo # Rewriting /\ ~Busy
    BY <1>1, PlanSteps DEF Busy, NoOp, Transforms
  <1>3. QED
    BY <1>1, <1>2 DEF Inv, Current, TableInv, AgreeInv, Types, FileTypes, Table

\* An operation begins; it has changed nothing yet.
LEMMA Begins ==
  ASSUME Inv, Idle, NEW o, NEW steps, Begin(o, steps),
         UNCHANGED <<meta, storage, audit, plain, mixed, marks>>,
         OpType(o), Plan(o, steps), steps \notin {Rewriting, Writing, Reflushing},
         users' \in Seq(Accounts), UsersInv', events' \in 0 .. MaxEvents,
         current_user' \in Accounts \cup {NoUser},
         OpInv', PermInv'
  PROVE  Inv'
  <1>1. /\ todo = << >> /\ op = NoOp /\ Current = meta /\ records = << >>
        /\ \A n \in Names : n \notin harmed => Agree(n)
    BY IdleAgrees
  <1>2. /\ op' = o /\ todo' = steps /\ running' = running /\ records' = records
        /\ harmed' = harmed /\ misfiled' = misfiled
    BY DEF Begin, marks
  <1>3. Types'
    BY <1>2 DEF Inv, Types, FileTypes, ProcessTypes, HistoryTypes
  <1>4. Plan(op, todo)'
    BY <1>2
  <1>5. TableInv' /\ Current' = meta
    BY <1>1, <1>2 DEF Inv, TableInv, Current
  <1>6. AgreeInv'
    BY <1>1, <1>2, <1>5 DEF AgreeInv, Agree, Has, Flag
  <1>7. StoredInv'
    BY <1>2 DEF StoredInv
  <1>8. QED
    BY <1>3, <1>4, <1>5, <1>6, <1>7 DEF Inv

\* What the beginning of a file operation does.
LEMMA FileOpFrame ==
  ASSUME Inv, NEW o, NEW steps, NEW failed \in 0 .. 2, BeginFileOp(o, steps, failed)
  PROVE  /\ Idle /\ Begin(o, steps) /\ events' \in 0 .. MaxEvents
         /\ current_user # NoUser
         /\ UNCHANGED <<users, storage, audit, current_user, plain, mixed, twins>>
  <1> DEFINE cost == failed + IF steps = <<"log">> THEN 0 ELSE 1
  <1>1. /\ Prompt("somebody") /\ events + cost <= MaxEvents /\ events' = events + cost
        /\ Begin(o, steps)
        /\ UNCHANGED <<users, storage, audit, current_user, plain, mixed, twins>>
    BY DEF BeginFileOp
  <1>2. cost \in Nat
    OBVIOUS
  <1>3. events \in Nat /\ MaxEvents \in Nat
    BY ConstantsAssumption DEF Inv, Types, HistoryTypes
  <1> HIDE DEF cost
  <1>4. events' \in 0 .. MaxEvents
    BY <1>1, <1>2, <1>3
  <1>5. QED
    BY <1>1, <1>4 DEF Prompt

\* The same from the menu.
LEMMA FileOpBegins ==
  ASSUME Inv, NEW o, NEW steps, NEW failed \in 0 .. 2, BeginFileOp(o, steps, failed),
         UNCHANGED <<meta, marks>>,
         OpType(o), Plan(o, steps), steps \notin {Rewriting, Writing, Reflushing}, OpInv', PermInv'
  PROVE  Inv'
  <1>1. /\ Idle /\ Begin(o, steps) /\ events' \in 0 .. MaxEvents
        /\ UNCHANGED <<users, storage, audit, current_user, plain, mixed, twins>>
    BY FileOpFrame
  <1>2. /\ users' \in Seq(Accounts) /\ current_user' \in Accounts \cup {NoUser} /\ UsersInv'
    BY <1>1 DEF Inv, Types, FileTypes, ProcessTypes, UsersInv
  <1>3. QED
    BY <1>1, <1>2, Begins

\* The operations of the login screen, and a logout, have only their log entry left.
LEMMA LoginScreenPreserves ==
  ASSUME Inv,
         \/ \E a \in Accounts : Register(a)
         \/ \E a \in Accounts, q \in {b.password : b \in Accounts} : Login(a.username, q)
         \/ Logout
  PROVE  Inv'
  <1>1. ASSUME NEW act \in {"REGISTER", "LOGIN", "LOGOUT"}, Idle,
               Begin([NoOp EXCEPT !.action = act], <<"log">>),
               UNCHANGED <<meta, storage, audit, plain, mixed, marks>>,
               users' \in Seq(Accounts), events' \in 0 .. MaxEvents,
               current_user' \in Accounts \cup {NoUser}, UsersInv'
        PROVE  Inv'
    <2> DEFINE o == [NoOp EXCEPT !.action = act]
    <2>1. OpType(o) /\ o.action = act /\ o.name = NoName /\ ~o.ok
      BY ByteTypes DEF OpType, NoOp
    <2>2. Begin(o, LogOnly)
      BY <1>1 DEF LogOnly
    <2> HIDE DEF o
    <2>3. act \notin FileActions
      BY DEF FileActions, Writers, Rewriters, Transforms
    <2>4. Plan(o, LogOnly)
      BY <2>1, <2>3 DEF Plan
    <2>5. op' = o /\ todo' = LogOnly
      BY <2>2 DEF Begin
    <2>6. OpInv'
      BY <2>1, <2>5 DEF OpInv, CreateInv, RollbackInv, DeleteInv, TransformInv
    <2>7. PermInv'
      BY <2>5, PlansDiffer DEF PermInv
    <2>8. QED
      BY <1>1, <2>1, <2>2, <2>4, <2>6, <2>7, PlansDiffer, Begins
  <1>2. /\ users \in Seq(Accounts) /\ current_user \in Accounts \cup {NoUser}
        /\ events \in 0 .. MaxEvents /\ UsersInv
    BY DEF Inv, Types, FileTypes, ProcessTypes, HistoryTypes
  <1>3. ASSUME Fault \/ NoFault PROVE events' \in 0 .. MaxEvents
    BY <1>2, <1>3, ConstantsAssumption DEF NoFault, Fault
  <1>4. ASSUME NEW a \in Accounts, Register(a) PROVE Inv'
    <2>1. /\ Idle /\ Begin([NoOp EXCEPT !.action = "REGISTER"], <<"log">>)
          /\ UNCHANGED <<meta, storage, audit, plain, mixed, marks, current_user>>
      BY <1>4 DEF Register, Prompt
    <2>2. events' \in 0 .. MaxEvents
      BY <1>3, <1>4 DEF Register
    <2>3. \/ users' = users /\ twins' = twins
          \/ /\ users' = Append(users, a)
             /\ \/ find_user(a.username) = {} /\ twins' = twins
                \/ twins' = twins \cup {a.username}
      BY <1>4 DEF Register
    <2>4. users' \in Seq(Accounts) /\ UsersInv'
      <3>1. CASE users' = users /\ twins' = twins
        BY <1>2, <3>1 DEF UsersInv
      <3>2. CASE users' = Append(users, a)
        <4>1. /\ users' \in Seq(Accounts) /\ DOMAIN users' = 1 .. Len(users) + 1
              /\ DOMAIN users = 1 .. Len(users) /\ Len(users) \in Nat
              /\ \A i \in DOMAIN users : users'[i] = users[i]
              /\ users'[Len(users) + 1] = a
          BY <1>2, <3>2
        <4>2. ASSUME find_user(a.username) = {} \/ a.username \in twins'
              PROVE  \A i \in DOMAIN users : users[i].username = a.username => a.username \in twins'
          BY <4>2 DEF find_user
        <4>3. twins \subseteq twins' /\ (find_user(a.username) = {} \/ a.username \in twins')
          <5>1. users' # users
            <6>1. Len(users) + 1 \notin DOMAIN users
              BY <4>1
            <6>2. QED
              BY <4>1, <6>1
          <5>2. QED
            BY <2>3, <5>1
        <4>4. ASSUME NEW i \in DOMAIN users', NEW j \in DOMAIN users',
                     users'[i].username = users'[j].username, users'[i].username \notin twins'
              PROVE  i = j
          <5>1. CASE i \in DOMAIN users /\ j \in DOMAIN users
            BY <1>2, <4>1, <4>3, <4>4, <5>1 DEF UsersInv
          <5>2. QED
            BY <4>1, <4>2, <4>3, <4>4, <5>1
        <4>5. QED
          BY <4>1, <4>4 DEF UsersInv
      <3>3. QED
        BY <2>3, <3>1, <3>2
    <2>5. QED
      BY <1>1, <1>2, <2>1, <2>2, <2>4
  <1>5. ASSUME NEW a \in Accounts, NEW q, Login(a.username, q) PROVE Inv'
    <2>1. /\ Idle /\ Begin([NoOp EXCEPT !.action = "LOGIN"], <<"log">>)
          /\ UNCHANGED <<meta, storage, audit, plain, mixed, marks, users, twins>>
      BY <1>5 DEF Login, Prompt, history, files
    <2>2. events' \in 0 .. MaxEvents
      BY <1>3, <1>5 DEF Login
    <2>3. current_user' \in Accounts \cup {NoUser}
      <3> DEFINE found == find_user(a.username)
      <3>1. current_user' = NoUser \/ (found # {} /\ current_user' = users[Min(found)])
        BY <1>5 DEF Login
      <3>2. found \in SUBSET Nat /\ found \subseteq DOMAIN users
        BY <1>2 DEF find_user
      <3> HIDE DEF found
      <3>3. CASE found # {} /\ current_user' = users[Min(found)]
        <4>1. Min(found) \in DOMAIN users
          BY <3>2, <3>3, MinInSet
        <4>2. QED
          BY <1>2, <3>3, <4>1
      <3>4. QED
        BY <3>1, <3>3
    <2>4. UsersInv'
      BY <1>2, <2>1 DEF UsersInv
    <2>5. QED
      BY <1>1, <1>2, <2>1, <2>2, <2>3, <2>4
  <1>6. CASE Logout
    <2>1. /\ Idle /\ Begin([NoOp EXCEPT !.action = "LOGOUT"], <<"log">>)
          /\ UNCHANGED <<meta, storage, audit, plain, mixed, marks, users, twins, events, current_user>>
      BY <1>6 DEF Logout, Prompt, history, files
    <2>2. UsersInv'
      BY <1>2, <2>1 DEF UsersInv
    <2>3. QED
      BY <1>1, <1>2, <2>1, <2>2
  <1>7. QED
    BY <1>4, <1>5, <1>6

\* READ and CHMOD leave the three stores alone, and so does what is refused.
LEMMA ModestOpPreserves ==
  ASSUME Inv, NEW o, NEW steps, NEW failed \in 0 .. 2, BeginFileOp(o, steps, failed),
         UNCHANGED <<meta, marks>>, OpType(o),
         \/ steps = LogOnly /\ o = NoOp
         \/ steps = LogOnly /\ o.action = "READ" /\ o.name \in Names
         \/ /\ steps = Truncating /\ o.action = "CHMOD" /\ o.name \in Names /\ o.ok
            /\ o.perm_str \in ValidPerms
  PROVE  Inv'
  <1>1. Plan(o, steps)
    BY DEF Plan, Rewriters, FileActions, Writers, Transforms, NoOp
  <1>2. op' = o /\ todo' = steps
    BY DEF BeginFileOp, Begin
  <1>3. o.action \in {"none", "READ", "CHMOD"}
    BY DEF NoOp
  <1>4. OpInv'
    BY <1>2, <1>3 DEF OpInv, CreateInv, RollbackInv, DeleteInv, TransformInv, Transforms
  <1>5. steps \notin {Opening, Writing, Removing, Reflushing, Reopening, Rewriting}
    <2>1. Truncating \notin {Opening, Writing, Removing, Reflushing, Reopening, Rewriting}
      BY PlansDiffer, PlanSteps
    <2>2. QED
      BY <2>1, PlansDiffer
  <1>6. PermInv'
    BY <1>2, <1>5 DEF PermInv
  <1>7. QED
    BY <1>1, <1>4, <1>5, <1>6, FileOpBegins

\* An operation that is refused.
LEMMA RefusePreserves ==
  ASSUME Inv, NEW ok, Refuse(ok), UNCHANGED <<meta, marks>>
  PROVE  Inv'
  <1> DEFINE failed == IF ok THEN 1 ELSE 0
  <1>1. failed \in 0 .. 2
    OBVIOUS
  <1>2. BeginFileOp(NoOp, LogOnly, failed)
    BY DEF Refuse, LogOnly
  <1> HIDE DEF failed
  <1>3. OpType(NoOp)
    BY ByteTypes DEF OpType, NoOp
  <1>4. QED
    BY <1>1, <1>2, <1>3, ModestOpPreserves

\* An operation that may write, and has the file's content to write.
LEMMA AllowedOpPreserves ==
  ASSUME Inv, NEW o, NEW steps, BeginFileOp(o, steps, 0),
         UNCHANGED <<meta, marks>>, OpType(o), o.name \in Names, o.ok,
         Allowed(o.name, PERM_WRITE),
         \/ steps = Opening /\ o.action \in {"WRITE", "APPEND"}
         \/ steps = Removing /\ o.action = "DELETE"
         \/ steps = Reopening /\ o.action \in Transforms /\ CanTransform(o.action, o.name)
  PROVE  Inv'
  <1>1. Plan(o, steps)
    BY DEF Plan, Writers
  <1>2. op' = o /\ todo' = steps /\ Idle /\ UNCHANGED <<storage, current_user, harmed>>
    BY DEF BeginFileOp, Begin, Prompt, marks
  <1>3. steps \notin {LogOnly, Writing, Reflushing, Rewriting}
    <2>1. Reopening # Reflushing /\ Reopening # Writing
      BY PlanSteps
    <2>2. QED
      BY <2>1, PlansDiffer
  <1>4. Current' = meta /\ Current = meta
    BY <1>2, <1>3, IdleAgrees DEF Current
  <1>5. PermInv'
    BY <1>2 DEF PermInv, Allowed
  <1>6. CreateInv' /\ RollbackInv'
    BY <1>2 DEF CreateInv, RollbackInv, Transforms
  <1>7. DeleteInv'
    <2>1. Has(o.name)'
      BY <1>4 DEF Has, Allowed
    <2>2. QED
      BY <1>2, <1>3, <2>1 DEF DeleteInv, Transforms
  <1>8. TransformInv'
    <2> SUFFICES ASSUME o.action \in Transforms PROVE TransformInv'
      BY <1>2 DEF TransformInv
    <2>1. CanTransform(o.action, o.name)
      BY DEF Transforms
    <2>2. /\ o.name \in FileNames(meta) /\ storage[PathOf[o.name]] # Missing
          /\ find_file_meta(meta, o.name).is_encrypted <=> o.action = "DECRYPT"
      BY <2>1 DEF CanTransform, Allowed, Encrypted
    <2>3. QED
      BY <1>2, <1>3, <1>4, <2>2 DEF TransformInv, Has, Flag, Transforms
  <1>9. QED
    BY <1>1, <1>3, <1>5, <1>6, <1>7, <1>8, FileOpBegins DEF OpInv

\* What CREATE does to the metadata file and the marks, with the calls that fail.
Creates(n, perm_str, lost) ==
  LET failed == Overlooked(n) + lost IN
  /\ meta' = IF lost = 1 THEN meta
             ELSE create_file_meta(meta, n, current_user.username, current_user.group, perm_str)
  /\ misfiled' = IF failed = 0 THEN misfiled \ {n} ELSE misfiled \cup {n}
  /\ harmed' = IF failed = 0 THEN harmed ELSE harmed \cup {n}

\* A file that is marked as misfiled after that is marked as harmed; one that is
\* not has one new record, and the other records stay.
LEMMA CreatedTable ==
  ASSUME Inv, Idle, NEW n \in Names, NEW perm_str \in ValidPerms, NEW lost \in {0, 1},
         Creates(n, perm_str, lost)
  PROVE  /\ Table(meta', misfiled') /\ harmed \subseteq harmed' /\ harmed' \subseteq harmed \cup {n}
         /\ misfiled' \subseteq harmed' /\ misfiled' \subseteq Names
         /\ n \notin misfiled' =>
              /\ n \notin FileNames(meta) /\ n \in FileNames(meta')
              /\ find_file_meta(meta', n).owner = current_user.username
              /\ ~find_file_meta(meta', n).is_encrypted
         /\ \A m \in Names \ (misfiled \cup {n}) :
              /\ m \in FileNames(meta') <=> m \in FileNames(meta)
              /\ m \in FileNames(meta) => find_file_meta(meta', m) = find_file_meta(meta, m)
  <1> DEFINE failed == Overlooked(n) + lost
             ts == create_file_meta(meta, n, current_user.username, current_user.group, perm_str)
  <1>1. /\ Table(meta, misfiled) /\ misfiled \subseteq harmed /\ misfiled \subseteq Names
    BY IdleAgrees DEF Inv, TableInv, Types, HistoryTypes
  <1>2. /\ current_user.username \in Owners /\ current_user.group \in OwnerGroups
    <2>1. current_user \in Accounts \cup {NoUser}
      BY DEF Inv, Types, ProcessTypes
    <2>2. QED
      BY <2>1 DEF Owners, OwnerGroups
  <1>3. /\ Table(ts, misfiled \cup {n}) /\ FileNames(ts) = FileNames(meta) \cup {n}
        /\ \A m \in FileNames(meta) \ (misfiled \cup {n}) :
             find_file_meta(ts, m) = find_file_meta(meta, m)
        /\ n \notin FileNames(meta) =>
             /\ Table(ts, misfiled \ {n})
             /\ find_file_meta(ts, n).owner = current_user.username
             /\ ~find_file_meta(ts, n).is_encrypted
    <2>1. PICK rs, D, o, g, us : /\ rs = meta /\ D = misfiled /\ us = ts
                                 /\ o = current_user.username /\ g = current_user.group
      OBVIOUS
    <2>2. Table(rs, D) /\ o \in Owners /\ g \in OwnerGroups
          /\ us = create_file_meta(rs, n, o, g, perm_str)
      BY <1>1, <1>2, <2>1
    <2> HIDE DEF ts
    <2>3. Appended(rs, D, n, o, us)
      BY <2>2, CreateRecord
    <2>4. QED
      BY <2>1, <2>3 DEF Appended
  <1>4. Table(meta, misfiled \cup {n})
    BY <1>1, TableGrows
  <1>5. /\ meta' = IF lost = 1 THEN meta ELSE ts
        /\ misfiled' = IF failed = 0 THEN misfiled \ {n} ELSE misfiled \cup {n}
        /\ harmed' = IF failed = 0 THEN harmed ELSE harmed \cup {n}
    BY DEF Creates
  <1>6. failed = 0 => lost = 0 /\ n \notin FileNames(meta)
    BY DEF Overlooked
  <1> HIDE DEF failed, ts
  <1>7. Table(meta', misfiled')
    <2>1. CASE failed = 0
      <3>1. meta' = ts /\ misfiled' = misfiled \ {n} /\ n \notin FileNames(meta)
        BY <1>5, <1>6, <2>1
      <3>2. QED
        BY <1>3, <3>1
    <2>2. CASE failed # 0
      BY <1>3, <1>4, <1>5, <2>2
    <2>3. QED
      BY <2>1, <2>2
  <1>8. /\ harmed \subseteq harmed' /\ harmed' \subseteq harmed \cup {n}
        /\ misfiled' \subseteq harmed' /\ misfiled' \subseteq Names
    BY <1>1, <1>5
  <1>9. ASSUME n \notin misfiled'
        PROVE  /\ n \notin FileNames(meta) /\ n \in FileNames(meta')
               /\ find_file_meta(meta', n).owner = current_user.username
               /\ ~find_file_meta(meta', n).is_encrypted
    <2>1. failed = 0
      BY <1>5, <1>9
    <2>2. QED
      BY <1>3, <1>5, <1>6, <2>1
  <1>10. ASSUME NEW m \in Names \ (misfiled \cup {n})
         PROVE  /\ m \in FileNames(meta') <=> m \in FileNames(meta)
                /\ m \in FileNames(meta) => find_file_meta(meta', m) = find_file_meta(meta, m)
    BY <1>3, <1>5, <1>10
  <1>11. QED
    BY <1>7, <1>8, <1>9, <1>10

\* CREATE appends the record first.
LEMMA CreateBegins ==
  ASSUME Inv, NEW n \in Names, NEW perm_str \in ValidPerms, NEW lost \in {0, 1}, NEW o,
         Creates(n, perm_str, lost), NEW failed \in 0 .. 2, BeginFileOp(o, Opening, failed),
         OpType(o), o.name = n, o.action = "CREATE", o.ok
  PROVE  Inv'
  <1>1. /\ Idle /\ Begin(o, Opening) /\ events' \in 0 .. MaxEvents
        /\ UNCHANGED <<users, storage, audit, current_user, plain, mixed, twins>>
    BY FileOpFrame
  <1>2. /\ todo = << >> /\ Current = meta /\ records = << >>
        /\ \A m \in Names : m \notin harmed => Agree(m)
    BY <1>1, IdleAgrees
  <1>3. /\ op' = o /\ todo' = Opening /\ running' = running /\ records' = records
    BY <1>1 DEF Begin
  <1>4. /\ Table(meta', misfiled') /\ harmed \subseteq harmed' /\ harmed' \subseteq harmed \cup {n}
        /\ misfiled' \subseteq harmed' /\ misfiled' \subseteq Names
        /\ n \notin misfiled' =>
             /\ n \notin FileNames(meta) /\ n \in FileNames(meta')
             /\ find_file_meta(meta', n).owner = current_user.username
             /\ ~find_file_meta(meta', n).is_encrypted
        /\ \A m \in Names \ (misfiled \cup {n}) :
             /\ m \in FileNames(meta') <=> m \in FileNames(meta)
             /\ m \in FileNames(meta) => find_file_meta(meta', m) = find_file_meta(meta, m)
    BY <1>1, CreatedTable
  <1>5. Current' = meta'
    BY <1>3, PlansDiffer DEF Current
  <1>6. Types'
    BY <1>1, <1>3, <1>4 DEF Inv, Types, FileTypes, ProcessTypes, HistoryTypes, Table
  <1>7. Plan(op, todo)'
    BY <1>3 DEF Plan, Writers
  <1>8. TableInv' /\ UsersInv'
    <2>1. records = << >> /\ todo' # Rewriting
      BY <1>2, <1>3, PlansDiffer
    <2>2. Unique(<< >>, misfiled')
      BY DEF Unique
    <2>3. QED
      BY <1>1, <1>3, <1>4, <2>1, <2>2 DEF Inv, TableInv, UsersInv, Table
  <1>9. AgreeInv'
    <2> SUFFICES ASSUME NEW m \in Names, m \notin harmed', m # n PROVE Agree(m)'
      BY <1>3 DEF AgreeInv, Busy
    <2>1. m \notin harmed /\ m \notin misfiled \cup {n}
      BY <1>4 DEF Inv, TableInv
    <2>2. Has(m)' <=> Has(m)
      BY <1>2, <1>4, <1>5, <2>1 DEF Has
    <2>3. Has(m) => (Flag(m)' <=> Flag(m))
      BY <1>2, <1>4, <1>5, <2>1 DEF Has, Flag
    <2>4. Agree(m) /\ storage' = storage /\ audit'[m] = audit[m]
      BY <1>1, <1>2, <2>1
    <2>5. QED
      BY <2>2, <2>3, <2>4, AgreeStays
  <1>10. OpInv'
    <2>1. n \notin misfiled' =>
            /\ Has(n)' /\ ~Flag(n)'
            /\ (find_file_meta(Current, n).owner = current_user.username)'
      BY <1>1, <1>4, <1>5 DEF Has, Flag
    <2>2. n \notin harmed' => Absent(n)'
      <3>1. ASSUME n \notin harmed' PROVE ~Has(n) /\ Agree(n)
        BY <1>2, <1>4, <3>1 DEF Has
      <3>2. QED
        BY <1>1, <3>1 DEF Agree, Absent
    <2>3. todo' # Writing
      BY <1>3, PlansDiffer
    <2>4. CreateInv'
      BY <1>3, <2>1, <2>2, <2>3 DEF CreateInv
    <2>5. QED
      BY <1>3, <2>4 DEF OpInv, RollbackInv, DeleteInv, TransformInv, Transforms
  <1>11. PermInv' /\ StoredInv'
    BY <1>3, PlansDiffer DEF PermInv, StoredInv
  <1>12. QED
    BY <1>6, <1>7, <1>8, <1>9, <1>10, <1>11 DEF Inv

\* Every operation of the menu.
LEMMA MenuPreserves ==
  ASSUME Inv, Menu
  PROVE  Inv'
  <1> USE DEF OpType
  <1>1. << >> \in Seq(Byte) /\ "blank" = Blank
    BY ByteTypes DEF Blank
  <1>2. ASSUME NEW n \in Names, NEW perm_str \in PermStrings, Chmod(n, perm_str) PROVE Inv'
    <2> DEFINE o == [NoOp EXCEPT !.action = "CHMOD", !.name = n, !.perm_str = perm_str]
               q == [o EXCEPT !.ok = TRUE]
    <2>1. /\ UNCHANGED <<meta, marks>>
          /\ \/ perm_str \in ValidPerms /\ BeginFileOp(q, Truncating, 0)
             \/ Refuse(is_valid_perm_string(perm_str))
      BY <1>2 DEF Chmod, ValidPerms, Truncating
    <2>2. OpType(q) /\ q.action = "CHMOD" /\ q.name = n /\ q.perm_str = perm_str /\ q.ok
      BY <1>1 DEF NoOp
    <2> HIDE DEF q
    <2>3. CASE perm_str \in ValidPerms /\ BeginFileOp(q, Truncating, 0)
      <3>1. 0 \in 0 .. 2
        OBVIOUS
      <3>2. QED
        BY <2>1, <2>2, <2>3, <3>1, ModestOpPreserves
    <2>4. QED
      BY <2>1, <2>3, RefusePreserves
  <1>3. ASSUME NEW n \in Names, NEW perm_str \in PermStrings, NEW text \in Contents,
               Create(n, perm_str, text)
        PROVE  Inv'
    <2> DEFINE o == [NoOp EXCEPT !.action = "CREATE", !.name = n, !.buf = Bytes(text)]
               q == [o EXCEPT !.ok = TRUE]
    <2>1. Bytes(text) \in Seq(Byte)
      BY ByteTypes
    <2>2. OpType(q) /\ q.action = "CREATE" /\ q.name = n /\ q.ok
      BY <2>1 DEF NoOp
    <2>3. \/ \E lost \in {0, 1} :
               /\ perm_str \in ValidPerms /\ Creates(n, perm_str, lost)
               /\ BeginFileOp(q, Opening, Overlooked(n) + lost)
          \/ /\ Refuse(is_valid_perm_string(perm_str) /\ Overlooked(n) = 0)
             /\ UNCHANGED <<meta, marks>>
      BY <1>3 DEF Create, Creates, Opening, ValidPerms
    <2> HIDE DEF o, q
    <2>4. CASE \E lost \in {0, 1} :
                 /\ perm_str \in ValidPerms /\ Creates(n, perm_str, lost)
                 /\ BeginFileOp(q, Opening, Overlooked(n) + lost)
      <3>1. PICK lost \in {0, 1} :
                 /\ perm_str \in ValidPerms /\ Creates(n, perm_str, lost)
                 /\ BeginFileOp(q, Opening, Overlooked(n) + lost)
        BY <2>4
      <3>2. Overlooked(n) + lost \in 0 .. 2
        BY DEF Overlooked
      <3>3. QED
        BY <2>2, <3>1, <3>2, CreateBegins
    <2>5. QED
      BY <2>3, <2>4, RefusePreserves
  <1>4. ASSUME NEW n \in Names, NEW p \in Passphrases, ReadFile(n, p) PROVE Inv'
    <2> DEFINE o == [NoOp EXCEPT !.action = "READ", !.name = n, !.passphrase = p]
               q == [o EXCEPT !.ok = TRUE]
    <2>1. /\ UNCHANGED <<meta, marks>>
          /\ BeginFileOp(q, LogOnly, 0) \/ \E ok \in BOOLEAN : Refuse(ok)
      <3> DEFINE ok == Allowed(n, PERM_READ) /\ storage[PathOf[n]] # Missing
      <3>1. /\ UNCHANGED <<meta, marks>>
            /\ BeginFileOp(q, LogOnly, 0) \/ Refuse(ok)
        BY <1>4 DEF ReadFile, LogOnly
      <3>2. ok \in BOOLEAN
        OBVIOUS
      <3> HIDE DEF ok
      <3>3. QED
        BY <3>1, <3>2
    <2>2. OpType(q) /\ q.action = "READ" /\ q.name = n
      BY <1>1 DEF NoOp
    <2> HIDE DEF q
    <2>3. QED
      BY <2>1, <2>2, ModestOpPreserves, RefusePreserves
  <1>5. ASSUME NEW n \in Names, NEW p \in Passphrases, NEW text \in Contents,
               NEW action \in {"WRITE", "APPEND"}, WriteFile(action, n, p, text)
        PROVE  Inv'
    <2> DEFINE o == [NoOp EXCEPT !.action = action, !.name = n, !.passphrase = p]
               b == Decode(n, Bytes(text), p)
               q == [o EXCEPT !.buf = b, !.ok = TRUE]
    <2>1. b \in Seq(Byte)
      BY ByteTypes, DecodeType
    <2>2. /\ UNCHANGED <<meta, marks>>
          /\ \/ Allowed(n, PERM_WRITE) /\ BeginFileOp(q, Opening, 0)
             \/ Refuse(Allowed(n, PERM_WRITE))
      BY <1>5 DEF WriteFile, Opening
    <2> HIDE DEF b
    <2>3. OpType(q) /\ q.action = action /\ q.name = n /\ q.ok
      BY <2>1 DEF NoOp
    <2> HIDE DEF o, q
    <2>4. QED
      BY <2>2, <2>3, AllowedOpPreserves, RefusePreserves
  <1>6. ASSUME NEW n \in Names, DeleteFile(n) PROVE Inv'
    <2> DEFINE o == [NoOp EXCEPT !.action = "DELETE", !.name = n]
               q == [o EXCEPT !.ok = TRUE]
    <2>1. /\ UNCHANGED <<meta, marks>>
          /\ \/ Allowed(n, PERM_WRITE) /\ BeginFileOp(q, Removing, 0)
             \/ Refuse(Allowed(n, PERM_WRITE))
      BY <1>6 DEF DeleteFile, Removing
    <2>2. OpType(q) /\ q.action = "DELETE" /\ q.name = n /\ q.ok
      BY <1>1 DEF NoOp
    <2> HIDE DEF q
    <2>3. QED
      BY <2>1, <2>2, AllowedOpPreserves, RefusePreserves
  <1>7. ASSUME NEW n \in Names, NEW p \in Passphrases, NEW action \in {"ENCRYPT", "DECRYPT"},
               Transform(action, n, p)
        PROVE  Inv'
    <2> DEFINE o == [NoOp EXCEPT !.action = action, !.name = n, !.passphrase = p]
               b == xor_cipher(storage[PathOf[n]], p)
               q == [o EXCEPT !.buf = b, !.ok = TRUE]
    <2>1. CanTransform(action, n) => b \in Seq(Byte) /\ Allowed(n, PERM_WRITE)
      BY XorType DEF CanTransform, Inv, Types, FileTypes, Paths
    <2>2. /\ UNCHANGED <<meta, marks>>
          /\ \/ CanTransform(action, n) /\ BeginFileOp(q, Reopening, 0)
             \/ Refuse(CanTransform(action, n))
      BY <1>7 DEF Transform, Reopening
    <2> HIDE DEF b
    <2>3. b \in Seq(Byte) => OpType(q) /\ q.action = action /\ q.name = n /\ q.ok
      BY DEF NoOp
    <2> HIDE DEF o, q
    <2>4. QED
      BY <2>1, <2>2, <2>3, AllowedOpPreserves, RefusePreserves DEF Transforms
  <1>8. CASE Logout
    BY <1>8, LoginScreenPreserves
  <1>9. QED
    BY <1>2, <1>3, <1>4, <1>5, <1>6, <1>7, <1>8 DEF Menu

-----------------------------------------------------------------------------
(* The writes.                                                             *)

\* While the metadata file is not rewritten its records stay.
LEMMA SameTable ==
  ASSUME todo # Rewriting, todo' # Rewriting, meta' = meta
  PROVE  /\ Current = meta /\ Current' = Current
         /\ \A n : (Has(n)' <=> Has(n)) /\ Flag(n)' = Flag(n)
  BY DEF Current, Has, Flag

\* A write to the content of a file is one to that of its other names, and to no
\* other file's.
LEMMA PathWritten ==
  ASSUME NEW x \in Seq(Byte) \cup {Missing}, FileTypes, op.name \in Names,
         storage' = [storage EXCEPT ![PathOf[op.name]] = x]
  PROVE  /\ storage'[PathOf[op.name]] = x
         /\ \A n \in Names : PathOf[n] # PathOf[op.name] =>
                             storage'[PathOf[n]] = storage[PathOf[n]]
         /\ \A n \in Names : n # op.name /\ n \notin Aliases(op.name) =>
                             storage'[PathOf[n]] = storage[PathOf[n]]
         /\ storage' \in [Paths -> Seq(Byte) \cup {Missing}]
  <1>1. PathOf[op.name] \in Paths /\ \A n \in Names : PathOf[n] \in Paths
    BY DEF Paths
  <1>2. storage \in [Paths -> Seq(Byte) \cup {Missing}]
    BY DEF FileTypes
  <1>3. \A n \in Names : n # op.name /\ n \notin Aliases(op.name) => PathOf[n] # PathOf[op.name]
    BY DEF Aliases
  <1>4. QED
    BY <1>1, <1>2, <1>3

\* fopen of the content.
LEMMA OpenPreserves ==
  ASSUME Inv, Open
  PROVE  Inv'
  <1> DEFINE restored == IF op.action = "CREATE" /\ op.name \notin misfiled THEN {op.name} ELSE {}
             data == storage[PathOf[op.name]]
             x == IF op.action = "APPEND" /\ data # Missing THEN data ELSE << >>
  <1>1. /\ Step("open") /\ todo' = Tail(todo)
        /\ storage' = [storage EXCEPT ![PathOf[op.name]] = x]
        /\ harmed' = (harmed \ restored) \cup Aliases(op.name)
        /\ UNCHANGED <<meta, audit, current_user, op, records, plain, mixed, misfiled, twins, events>>
        /\ UNCHANGED <<users, running>>
    BY DEF Open, Step
  <1>2. /\ op.ok /\ op.name \in Names
        /\ \/ todo = Opening /\ todo' = Writing /\ op.action \in Writers
           \/ todo = Reopening /\ todo' = Reflushing /\ op.action \in Transforms
    BY <1>1, AtStep DEF Step, Inv
  <1>3. todo \notin {LogOnly, Rewriting, Removing} /\ todo' \notin {LogOnly, Rewriting, Opening, Removing, Reopening}
    BY <1>2, PlansDiffer, PlanSteps
  <1>4. x \in Seq(Byte) /\ x # Missing /\ (op.action # "APPEND" => x = << >>)
    <2>1. data \in Seq(Byte) \cup {Missing}
      BY <1>2 DEF Inv, Types, FileTypes, Paths
    <2>2. QED
      BY <2>1, ByteTypes
  <1> HIDE DEF x
  <1>5. /\ storage'[PathOf[op.name]] = x
        /\ \A n \in Names : n # op.name /\ n \notin Aliases(op.name) =>
                            storage'[PathOf[n]] = storage[PathOf[n]]
        /\ storage' \in [Paths -> Seq(Byte) \cup {Missing}]
    BY <1>1, <1>2, <1>4, PathWritten DEF Inv, Types
  <1>6. Current' = Current /\ \A n : (Has(n)' <=> Has(n)) /\ Flag(n)' = Flag(n)
    BY <1>1, <1>3, SameTable
  <1>7. /\ restored \subseteq {op.name} /\ restored \cap misfiled = {}
        /\ op.action # "CREATE" => restored = {}
    OBVIOUS
  <1> HIDE DEF restored
  <1>8. Types'
    <2>1. harmed' \subseteq Names
      BY <1>1 DEF Inv, Types, HistoryTypes, Aliases
    <2>2. QED
      BY <1>1, <1>5, <2>1 DEF Inv, Types, FileTypes, ProcessTypes, HistoryTypes
  <1>9. Plan(op, todo)'
    BY <1>1, <1>2 DEF Plan
  <1>10. TableInv' /\ UsersInv'
    BY <1>1, <1>3, <1>7 DEF Inv, TableInv, UsersInv
  <1>11. PermInv'
    BY <1>1, <1>2 DEF Inv, PermInv, Allowed
  <1>12. AgreeInv'
    <2> SUFFICES ASSUME NEW n \in Names, n \notin harmed', Busy' => n # op.name PROVE Agree(n)'
      BY <1>1 DEF AgreeInv
    <2>1. Busy => Busy'
      BY <1>1, <1>2, <1>3 DEF Busy
    <2>2. CASE n # op.name
      <3>1. n \notin harmed /\ n \notin Aliases(op.name)
        BY <1>1, <1>7, <2>2
      <3>2. Agree(n)
        BY <2>2, <3>1 DEF Inv, AgreeInv
      <3>3. QED
        BY <1>1, <1>5, <1>6, <2>2, <3>1, <3>2, AgreeStays
    <2>3. CASE n = op.name
      <3>1. op.action \notin {"CREATE"} \cup Transforms
        BY <1>1, <1>2, <1>3, <2>3 DEF Busy
      <3>2. Agree(n)
        BY <1>1, <1>7, <2>1, <2>3, <3>1 DEF Inv, AgreeInv
      <3>3. n \in FileNames(meta)
        BY <1>2, <2>3, <3>1 DEF Inv, PermInv, Allowed
      <3>4. Has(n)
        BY <1>3, <3>3 DEF Has, Current
      <3>5. QED
        BY <1>1, <1>4, <1>5, <1>6, <2>3, <3>2, <3>4 DEF Agree
    <2>4. QED
      BY <2>2, <2>3
  <1>13. CreateInv'
    BY <1>1, <1>3, <1>4, <1>5, <1>6 DEF Inv, OpInv, CreateInv
  <1>14. TransformInv'
    BY <1>1, <1>3, <1>4, <1>5, <1>6, <1>7 DEF Inv, OpInv, TransformInv, Transforms
  <1>15. OpInv'
    BY <1>1, <1>2, <1>13, <1>14 DEF OpInv, RollbackInv, DeleteInv, Writers, Transforms
  <1>16. StoredInv'
    BY <1>1, <1>4, <1>5 DEF StoredInv
  <1>17. QED
    BY <1>8, <1>9, <1>10, <1>11, <1>12, <1>15, <1>16 DEF Inv

\* It fails.
LEMMA OpenFailsPreserves ==
  ASSUME Inv, OpenFails
  PROVE  Inv'
  <1>1. /\ Step("open") /\ op.action \in Writers
        /\ op' = [op EXCEPT !.ok = FALSE] /\ todo' = Rollback(op.action)
        /\ events < MaxEvents /\ events' = events + 1
        /\ UNCHANGED <<meta, storage, audit, current_user, records, plain, mixed>>
        /\ UNCHANGED <<users, running, harmed, misfiled, twins>>
    BY DEF OpenFails, Step, history, marks, Fault, Writers
  <1>2. op.ok /\ op.name \in Names /\ todo = Opening
    BY <1>1, AtStep DEF Step, Inv, Writers, Transforms
  <1>3. /\ DOMAIN op = DOMAIN NoOp
        /\ op'.action = op.action /\ op'.name = op.name /\ op'.ok = FALSE
        /\ op'.buf = op.buf /\ op'.passphrase = op.passphrase /\ DOMAIN op' = DOMAIN NoOp
    BY <1>1 DEF Inv, Types, OpType, NoOp
  <1>4. IF op.action = "CREATE" THEN todo' = Truncating ELSE todo' = LogOnly
    BY <1>1 DEF Rollback, Truncating, LogOnly
  <1>5. Truncating \notin {Opening, Writing, Removing, Reflushing, Reopening, Rewriting}
    BY PlansDiffer, PlanSteps
  <1>6. todo # Rewriting /\ todo' # Rewriting /\ todo # LogOnly
    BY <1>2, <1>4, <1>5, PlansDiffer
  <1>7. \A n : (Has(n)' <=> Has(n)) /\ Flag(n)' = Flag(n)
    BY <1>1, <1>6, SameTable
  <1>8. Types'
    <2>1. events' \in 0 .. MaxEvents
      BY <1>1, ConstantsAssumption DEF Inv, Types, HistoryTypes
    <2>2. QED
      BY <1>1, <1>3, <2>1 DEF Inv, Types, FileTypes, ProcessTypes, HistoryTypes, OpType
  <1>9. Plan(op, todo)'
    BY <1>1, <1>2, <1>3, <1>4 DEF Plan, Rewriters, FileActions, Writers
  <1>10. TableInv' /\ UsersInv'
    BY <1>1, <1>6 DEF Inv, TableInv, UsersInv
  <1>11. PermInv' /\ StoredInv'
    BY <1>3, <1>4, <1>5, PlansDiffer DEF PermInv, StoredInv
  <1>12. AgreeInv'
    <2> SUFFICES ASSUME NEW n \in Names, n \notin harmed, Busy' => n # op.name PROVE Agree(n)'
      BY <1>1, <1>3 DEF AgreeInv
    <2>1. Busy => n # op.name
      BY <1>1, <1>3, <1>4, <1>5, PlansDiffer DEF Busy, Writers, Transforms
    <2>2. Agree(n)
      BY <2>1 DEF Inv, AgreeInv
    <2>3. QED
      BY <1>1, <1>7, <2>2, AgreeStays
  <1>13. OpInv'
    BY <1>1, <1>2, <1>3 DEF Inv, TableInv, OpInv, CreateInv, RollbackInv, DeleteInv, TransformInv, Absent
  <1>14. QED
    BY <1>8, <1>9, <1>10, <1>11, <1>12, <1>13 DEF Inv

\* fclose: the data reach the file.
LEMMA FlushPreserves ==
  ASSUME Inv, Flush
  PROVE  Inv'
  <1> DEFINE data == storage[PathOf[op.name]]
  <1>1. /\ Step("write") /\ todo' = Tail(todo)
        /\ storage' = [storage EXCEPT ![PathOf[op.name]] = data \o op.buf]
        /\ plain' = [plain EXCEPT ![op.name] =
             CASE op.action \in {"CREATE", "WRITE"} -> Text(op.buf)
               [] op.action = "APPEND" -> @ \o Text(op.buf)
               [] OTHER -> @]
        /\ mixed' = mixed \cup {op.name} \/ mixed' = mixed \ {op.name}
        /\ UNCHANGED <<meta, audit, current_user, op, records, harmed, misfiled, twins, events>>
        /\ UNCHANGED <<users, running>>
    BY DEF Flush, Step, marks
  <1>2. /\ op.ok /\ op.name \in Names
        /\ \/ todo = Writing /\ todo' = LogOnly /\ op.action \in Writers
           \/ todo = Reflushing /\ todo' = Truncating /\ op.action \in Transforms
    BY <1>1, AtStep DEF Step, Inv
  <1>3. /\ todo \notin {LogOnly, Rewriting, Removing, Opening, Reopening}
        /\ todo' \notin {Opening, Writing, Removing, Reflushing, Reopening, Rewriting}
    <2>1. Truncating \notin {Opening, Writing, Removing, Reflushing, Reopening, Rewriting}
      BY PlansDiffer, PlanSteps
    <2>2. QED
      BY <1>2, <2>1, PlansDiffer, PlanSteps
  <1>4. data \in Seq(Byte) /\ data # Missing /\ op.buf \in Seq(Byte)
    <2>1. data \in Seq(Byte) \cup {Missing}
      BY <1>2 DEF Inv, Types, FileTypes, Paths
    <2>2. QED
      BY <1>2, <2>1 DEF Inv, StoredInv, Types, OpType
  <1>5. data \o op.buf \in Seq(Byte) /\ data \o op.buf # Missing
    <2> HIDE DEF data
    <2>1. data \o op.buf \in Seq(Byte)
      BY <1>4
    <2>2. QED
      BY <2>1, ByteTypes
  <1>6. /\ storage'[PathOf[op.name]] # Missing
        /\ \A n \in Names : PathOf[n] # PathOf[op.name] =>
                            storage'[PathOf[n]] = storage[PathOf[n]]
        /\ storage' \in [Paths -> Seq(Byte) \cup {Missing}]
    <2> DEFINE x == data \o op.buf
    <2>1. x \in Seq(Byte) \cup {Missing} /\ x # Missing /\ storage' = [storage EXCEPT ![PathOf[op.name]] = x]
      BY <1>1, <1>5
    <2> HIDE DEF x
    <2>2. QED
      BY <1>2, <2>1, PathWritten DEF Inv, Types
  <1>7. plain' \in [Names -> Seq(Characters(Contents))]
    <2>1. Text(op.buf) \in Seq(Characters(Contents))
      BY <1>4, ByteTypes
    <2>2. plain[op.name] \in Seq(Characters(Contents)) /\ plain \in [Names -> Seq(Characters(Contents))]
      BY <1>2 DEF Inv, Types, HistoryTypes
    <2>3. plain[op.name] \o Text(op.buf) \in Seq(Characters(Contents))
      BY <2>1, <2>2
    <2>4. QED
      BY <1>1, <2>1, <2>2, <2>3
  <1>8. Current' = Current /\ \A n : (Has(n)' <=> Has(n)) /\ Flag(n)' = Flag(n)
    BY <1>1, <1>3, SameTable
  <1>9. Types'
    <2>1. mixed' \subseteq Names
      BY <1>1, <1>2 DEF Inv, Types, HistoryTypes
    <2>2. QED
      BY <1>1, <1>6, <1>7, <2>1 DEF Inv, Types, FileTypes, ProcessTypes, HistoryTypes
  <1>10. Plan(op, todo)'
    BY <1>1, <1>2 DEF Plan, Writers, Rewriters, Transforms, FileActions
  <1>11. TableInv' /\ UsersInv'
    BY <1>1, <1>3 DEF Inv, TableInv, UsersInv
  <1>12. PermInv' /\ StoredInv'
    BY <1>3 DEF PermInv, StoredInv
  <1>13. \A n \in Names : storage'[PathOf[n]] = Missing <=> storage[PathOf[n]] = Missing
    BY <1>4, <1>6
  <1>14. AgreeInv'
    <2> SUFFICES ASSUME NEW n \in Names, n \notin harmed, Busy' => n # op.name PROVE Agree(n)'
      BY <1>1 DEF AgreeInv
    <2>1. Busy => n # op.name
      BY <1>1, <1>2, <1>3 DEF Busy
    <2>2. Agree(n)
      BY <2>1 DEF Inv, AgreeInv
    <2>3. QED
      BY <1>1, <1>8, <1>13, <2>2, AgreeStays
  <1>15. OpInv'
    <2>1. CreateInv'
      BY <1>1, <1>3, <1>6, <1>8 DEF Inv, OpInv, CreateInv
    <2>2. TransformInv'
      BY <1>1, <1>2, <1>3, <1>6, <1>8, PlansDiffer DEF Inv, OpInv, TransformInv, Writers, Transforms
    <2>3. QED
      BY <1>1, <1>2, <2>1, <2>2 DEF OpInv, RollbackInv, DeleteInv, Writers, Transforms
  <1>16. QED
    BY <1>9, <1>10, <1>11, <1>12, <1>14, <1>15 DEF Inv

\* A failed call that only the file of the operation pays for.
LEMMA HarmPreserves ==
  ASSUME Inv, running, todo # << >>, Head(todo) \in {"write", "remove"},
         todo' = Tail(todo), Fault,
         harmed' = harmed \cup {op.name} \/ (op.action = "APPEND" /\ harmed' = harmed),
         UNCHANGED <<users, running, meta, storage, audit, current_user, op, records, plain, mixed,
                     misfiled, twins>>
  PROVE  Inv'
  <1>1. /\ op.ok /\ op.name \in Names
        /\ \/ todo = Writing /\ todo' = LogOnly /\ op.action \in Writers
           \/ todo = Reflushing /\ todo' = Truncating /\ op.action \in Transforms
           \/ todo = Removing /\ todo' = Truncating /\ op.action = "DELETE"
    BY AtStep DEF Inv
  <1>2. /\ todo \notin {LogOnly, Rewriting}
        /\ todo' \notin {Opening, Writing, Removing, Reflushing, Reopening, Rewriting}
    <2>1. Truncating \notin {Opening, Writing, Removing, Reflushing, Reopening, Rewriting}
      BY PlansDiffer, PlanSteps
    <2>2. QED
      BY <1>1, <2>1, PlansDiffer
  <1>3. harmed' \subseteq Names /\ harmed \subseteq harmed' /\ events' \in 0 .. MaxEvents
    BY <1>1, ConstantsAssumption DEF Inv, Types, HistoryTypes, Fault
  <1>4. Current' = Current /\ \A n : (Has(n)' <=> Has(n)) /\ Flag(n)' = Flag(n)
    BY <1>2, SameTable
  <1>5. Types'
    BY <1>3 DEF Inv, Types, FileTypes, ProcessTypes, HistoryTypes
  <1>6. Plan(op, todo)'
    BY <1>1 DEF Plan, Writers, Rewriters, Transforms, FileActions
  <1>7. TableInv' /\ UsersInv'
    BY <1>2, <1>3 DEF Inv, TableInv, UsersInv
  <1>8. PermInv' /\ StoredInv'
    BY <1>2 DEF PermInv, StoredInv
  <1>9. AgreeInv'
    <2> SUFFICES ASSUME NEW n \in Names, n \notin harmed' PROVE Agree(n)'
      BY DEF AgreeInv
    <2>1. n \notin harmed /\ (Busy => n # op.name)
      BY <1>3 DEF Busy, Transforms
    <2>2. Agree(n)
      BY <2>1 DEF Inv, AgreeInv
    <2>3. QED
      BY <1>4, <2>2, AgreeStays
  <1>10. OpInv'
    <2>1. CreateInv'
      BY <1>1, <1>2, <1>4, PlansDiffer DEF Inv, OpInv, CreateInv, Transforms
    <2>2. op.action # "APPEND" => op.name \in harmed'
      OBVIOUS
    <2>3. QED
      BY <1>1, <2>1, <2>2 DEF OpInv, RollbackInv, DeleteInv, TransformInv, Transforms
  <1>11. QED
    BY <1>5, <1>6, <1>7, <1>8, <1>9, <1>10 DEF Inv

\* The data that do not reach the file, and the content that is not removed.
LEMMA UnnoticedPreserves ==
  ASSUME Inv, FlushFails \/ RemoveFails
  PROVE  Inv'
  <1>1. CASE FlushFails
    <2>1. /\ Step("write") /\ Fault /\ todo' = Tail(todo)
          /\ harmed' = IF op.action = "APPEND" THEN harmed ELSE harmed \cup {op.name}
          /\ UNCHANGED <<meta, storage, audit, current_user, op, records, plain, mixed, misfiled, twins>>
      BY <1>1 DEF FlushFails
    <2>2. QED
      BY <2>1, HarmPreserves DEF Step
  <1>2. CASE RemoveFails
    <2>1. /\ Step("remove") /\ Fault /\ todo' = Tail(todo)
          /\ harmed' = harmed \cup {op.name}
          /\ UNCHANGED <<meta, storage, audit, current_user, op, records, plain, mixed, misfiled, twins>>
      BY <1>2 DEF RemoveFails
    <2>2. QED
      BY <2>1, HarmPreserves DEF Step
  <1>3. QED
    BY <1>1, <1>2

\* remove of the content.
LEMMA RemovePreserves ==
  ASSUME Inv, Remove
  PROVE  Inv'
  <1>1. /\ Step("remove") /\ todo' = Tail(todo)
        /\ storage' = [storage EXCEPT ![PathOf[op.name]] = Missing]
        /\ harmed' = harmed \cup Aliases(op.name)
        /\ UNCHANGED <<meta, audit, current_user, op, records, plain, mixed, misfiled, twins, events>>
        /\ UNCHANGED <<users, running>>
    BY DEF Remove, Step
  <1>2. /\ op.ok /\ op.name \in Names /\ op.action = "DELETE"
        /\ todo = Removing /\ todo' = Truncating
    BY <1>1, AtStep DEF Step, Inv
  <1>3. /\ todo \notin {LogOnly, Rewriting}
        /\ todo' \notin {LogOnly, Opening, Writing, Removing, Reflushing, Reopening, Rewriting}
    BY <1>2, PlansDiffer, PlanSteps
  <1>4. /\ storage'[PathOf[op.name]] = Missing
        /\ \A n \in Names : n # op.name /\ n \notin Aliases(op.name) =>
                            storage'[PathOf[n]] = storage[PathOf[n]]
        /\ storage' \in [Paths -> Seq(Byte) \cup {Missing}]
    BY <1>1, <1>2, PathWritten DEF Inv, Types
  <1>5. \A n : (Has(n)' <=> Has(n)) /\ Flag(n)' = Flag(n)
    BY <1>1, <1>3, SameTable
  <1>6. Types'
    <2>1. harmed' \subseteq Names
      BY <1>1 DEF Inv, Types, HistoryTypes, Aliases
    <2>2. QED
      BY <1>1, <1>4, <2>1 DEF Inv, Types, FileTypes, ProcessTypes, HistoryTypes
  <1>7. Plan(op, todo)'
    BY <1>1, <1>2 DEF Plan, Rewriters
  <1>8. TableInv' /\ UsersInv'
    BY <1>1, <1>3 DEF Inv, TableInv, UsersInv
  <1>9. PermInv' /\ StoredInv'
    BY <1>3 DEF PermInv, StoredInv
  <1>10. AgreeInv'
    <2> SUFFICES ASSUME NEW n \in Names, n \notin harmed', n # op.name PROVE Agree(n)'
      BY <1>1, <1>2, <1>3 DEF AgreeInv, Busy
    <2>1. Agree(n) /\ n \notin Aliases(op.name)
      BY <1>1 DEF Inv, AgreeInv
    <2>2. QED
      BY <1>1, <1>4, <1>5, <2>1, AgreeStays
  <1>11. OpInv'
    <2>1. DeleteInv'
      BY <1>1, <1>2, <1>3, <1>4, <1>5 DEF Inv, OpInv, DeleteInv
    <2>2. QED
      BY <1>1, <1>2, <2>1 DEF OpInv, CreateInv, RollbackInv, TransformInv, Transforms
  <1>12. QED
    BY <1>6, <1>7, <1>8, <1>9, <1>10, <1>11 DEF Inv

\* The records that rewrite_meta_matching reads stay what they were; the files
\* of the others are harmed.
LEMMA TruncateRecords ==
  ASSUME Inv, Truncate
  PROVE  /\ Table(Read(meta), misfiled) /\ Len(Read(meta)) <= MaxRecords /\ Table(meta, misfiled)
         /\ \A n : n \notin harmed' => /\ n \notin harmed /\ (Has(n)' <=> Has(n))
                                       /\ Has(n) => Flag(n)' = Flag(n)
  <1>1. /\ Step("truncate") /\ todo' = Tail(todo) /\ records' = Read(meta) /\ meta' = << >>
        /\ harmed' = harmed \cup (FileNames(meta) \ FileNames(Read(meta)))
    BY DEF Truncate
  <1>2. todo = Truncating /\ todo' = Rewriting /\ todo # Rewriting
    BY <1>1, AtStep, PlansDiffer DEF Step, Inv
  <1>3. Table(meta, misfiled) /\ Current = meta /\ Current' = Read(meta)
    BY <1>1, <1>2 DEF Inv, Types, FileTypes, TableInv, Table, Current
  <1>4. /\ Table(Read(meta), misfiled) /\ Len(Read(meta)) <= MaxRecords
        /\ FileNames(Read(meta)) \subseteq FileNames(meta)
        /\ \A n \in FileNames(Read(meta)) \ misfiled :
             find_file_meta(Read(meta), n) = find_file_meta(meta, n)
    BY <1>3, ReadRecords
  <1>5. ASSUME NEW n, n \notin harmed'
        PROVE  n \notin harmed /\ (Has(n)' <=> Has(n)) /\ (Has(n) => Flag(n)' = Flag(n))
    <2>1. n \notin harmed /\ n \notin misfiled
      BY <1>1, <1>5 DEF Inv, TableInv
    <2>2. n \in FileNames(Read(meta)) <=> n \in FileNames(meta)
      BY <1>1, <1>4, <1>5
    <2>3. Has(n)' <=> Has(n)
      BY <1>3, <2>2 DEF Has
    <2>4. Has(n) => find_file_meta(Read(meta), n) = find_file_meta(meta, n)
      BY <1>3, <1>4, <2>1, <2>2 DEF Has
    <2>5. QED
      BY <1>3, <2>1, <2>3, <2>4 DEF Flag
  <1>6. QED
    BY <1>3, <1>4, <1>5

\* rewrite_meta_matching: the records are in memory, as far as there is room, and
\* the file is empty.
LEMMA TruncatePreserves ==
  ASSUME Inv, Truncate
  PROVE  Inv'
  <1>1. /\ Step("truncate") /\ todo' = Tail(todo) /\ records' = Read(meta) /\ meta' = << >>
        /\ harmed' = harmed \cup (FileNames(meta) \ FileNames(Read(meta)))
        /\ UNCHANGED <<storage, audit, current_user, op, plain, mixed, misfiled, twins, events>>
        /\ UNCHANGED <<users, running>>
    BY DEF Truncate, Step
  <1>2. /\ op.name \in Names /\ op.action \in Rewriters /\ (op.ok <=> op.action # "CREATE")
        /\ op.action = "CHMOD" => op.perm_str \in ValidPerms
        /\ todo = Truncating /\ todo' = Rewriting
    BY <1>1, AtStep DEF Step, Inv
  <1>3. /\ todo \notin {Rewriting, LogOnly, Opening, Removing, Reopening}
        /\ todo' \notin {LogOnly, Removing, Reopening}
    BY <1>2, PlansDiffer, PlanSteps
  <1>4. /\ Table(Read(meta), misfiled) /\ Len(Read(meta)) <= MaxRecords /\ Table(meta, misfiled)
        /\ \A n : n \notin harmed' => /\ n \notin harmed /\ (Has(n)' <=> Has(n))
                                      /\ Has(n) => Flag(n)' = Flag(n)
    BY TruncateRecords
  <1>5. Types'
    <2>1. FileNames(meta) \subseteq Names
      BY <1>4, TableNames DEF Table
    <2>2. harmed' \subseteq Names
      BY <1>1, <2>1 DEF Inv, Types, HistoryTypes
    <2>3. << >> \in Seq(Record)
      OBVIOUS
    <2>4. QED
      BY <1>1, <1>4, <2>2, <2>3 DEF Inv, Types, FileTypes, ProcessTypes, HistoryTypes, Table
  <1>6. Plan(op, todo)'
    BY <1>1, <1>2 DEF Plan
  <1>7. TableInv' /\ UsersInv'
    <2>1. misfiled' \subseteq harmed' /\ Unique(<< >>, misfiled)
      BY <1>1 DEF Inv, TableInv, Unique
    <2>2. QED
      BY <1>1, <1>2, <1>4, <2>1 DEF Inv, TableInv, UsersInv, Table
  <1>8. PermInv' /\ StoredInv'
    BY <1>2, PlansDiffer DEF PermInv, StoredInv
  <1>9. AgreeInv'
    <2> SUFFICES ASSUME NEW n \in Names, n \notin harmed', Busy' => n # op.name PROVE Agree(n)'
      BY <1>1 DEF AgreeInv
    <2>1. Busy => n # op.name
      BY <1>1, <1>3 DEF Busy
    <2>2. Agree(n)
      BY <1>4, <2>1 DEF Inv, AgreeInv
    <2>3. QED
      BY <1>1, <1>4, <2>2, AgreeStays
  <1>10. OpInv'
    <2>1. RollbackInv' /\ DeleteInv'
      BY <1>1, <1>3, <1>4 DEF Inv, OpInv, RollbackInv, DeleteInv, Absent
    <2>2. TransformInv'
      BY <1>1, <1>3, <1>4 DEF Inv, OpInv, TransformInv
    <2>3. QED
      BY <1>1, <1>2, <2>1, <2>2 DEF OpInv, CreateInv
  <1>11. QED
    BY <1>5, <1>6, <1>7, <1>8, <1>9, <1>10 DEF Inv

\* The file cannot be opened, and the record of the operation's file is stale.
LEMMA TruncateFailsPreserves ==
  ASSUME Inv, TruncateFails
  PROVE  Inv'
  <1>1. /\ Step("truncate") /\ op' = [op EXCEPT !.ok = op.ok /\ op.action # "CHMOD"]
        /\ harmed' = IF op.action = "CHMOD" THEN harmed ELSE harmed \cup {op.name}
        /\ todo' = LogOnly /\ events < MaxEvents /\ events' = events + 1
        /\ UNCHANGED <<meta, storage, audit, current_user, records, plain, mixed>>
        /\ UNCHANGED <<users, running, misfiled, twins>>
    BY DEF TruncateFails, Step, Fault, LogOnly
  <1>2. /\ op.name \in Names /\ op.action \in Rewriters /\ (op.ok <=> op.action # "CREATE")
        /\ todo = Truncating
    BY <1>1, AtStep DEF Step, Inv
  <1>3. /\ DOMAIN op = DOMAIN NoOp /\ op.ok \in BOOLEAN
        /\ op'.action = op.action /\ op'.name = op.name /\ op'.ok = (op.ok /\ op.action # "CHMOD")
        /\ op'.buf = op.buf /\ op'.passphrase = op.passphrase /\ DOMAIN op' = DOMAIN NoOp
    BY <1>1 DEF Inv, Types, OpType, NoOp
  <1>4. todo \notin {Rewriting, LogOnly, Opening, Removing, Reopening} /\ todo' # Rewriting
    BY <1>1, <1>2, PlansDiffer, PlanSteps
  <1>5. \A n : (Has(n)' <=> Has(n)) /\ Flag(n)' = Flag(n)
    BY <1>1, <1>4, SameTable
  <1>6. Types'
    <2>1. events' \in 0 .. MaxEvents
      BY <1>1, ConstantsAssumption DEF Inv, Types, HistoryTypes
    <2>2. harmed' \subseteq Names
      BY <1>1, <1>2 DEF Inv, Types, HistoryTypes
    <2>3. QED
      BY <1>1, <1>3, <2>1, <2>2 DEF Inv, Types, FileTypes, ProcessTypes, HistoryTypes, OpType
  <1>7. Plan(op, todo)'
    BY <1>1, <1>2, <1>3 DEF Plan, FileActions
  <1>8. TableInv' /\ UsersInv'
    BY <1>1, <1>4 DEF Inv, TableInv, UsersInv
  <1>9. PermInv' /\ StoredInv'
    BY <1>1, PlansDiffer DEF PermInv, StoredInv
  <1>10. AgreeInv'
    <2> SUFFICES ASSUME NEW n \in Names, n \notin harmed' PROVE Agree(n)'
      BY DEF AgreeInv
    <2>1. n \notin harmed /\ (Busy => n # op.name)
      BY <1>1 DEF Busy, Transforms
    <2>2. Agree(n)
      BY <2>1 DEF Inv, AgreeInv
    <2>3. QED
      BY <1>1, <1>5, <2>2, AgreeStays
  <1>11. OpInv'
    BY <1>1, <1>2, <1>3, <1>4 DEF OpInv, CreateInv, RollbackInv, DeleteInv, TransformInv,
       Transforms
  <1>12. QED
    BY <1>6, <1>7, <1>8, <1>9, <1>10, <1>11 DEF Inv

\* The records that rewrite_meta_matching writes: none of the file's own for
\* CREATE, which takes it back, and DELETE, and a changed one for the others.
LEMMA RewriteRecords ==
  ASSUME Inv, Rewrite
  PROVE  /\ Table(meta', misfiled)
         /\ \A n : n # op.name /\ n \notin misfiled =>
                   (Has(n)' <=> Has(n)) /\ (Has(n) => Flag(n)' = Flag(n))
         /\ op.action \in {"CREATE", "DELETE"} => ~Has(op.name)'
         /\ op.action = "CHMOD" /\ op.name \notin misfiled =>
              (Has(op.name)' <=> Has(op.name)) /\ (Has(op.name) => Flag(op.name)' = Flag(op.name))
         /\ op.action \in Transforms /\ op.name \notin misfiled =>
              /\ Has(op.name)' <=> Has(op.name)
              /\ Has(op.name) => Flag(op.name)' = (op.action = "ENCRYPT")
  <1>1. Step("rewrite") /\ todo' = Tail(todo) /\ records' = << >>
    BY DEF Rewrite, WriteBack
  <1>2. /\ op.name \in Names /\ op.action \in Rewriters
        /\ op.action = "CHMOD" => op.perm_str \in ValidPerms
        /\ todo = Rewriting /\ todo' = LogOnly
    BY <1>1, AtStep DEF Step, Inv
  <1>3. op'.name = op.name
    BY DEF Rewrite, WriteBack, Inv, Types, OpType, NoOp
  <1>4. Table(records, misfiled) /\ Current = records /\ Current' = meta'
    BY <1>1, <1>2, PlansDiffer DEF Inv, Types, ProcessTypes, TableInv, Table, Current
  <1>5. \A n : /\ Has(n) <=> n \in FileNames(records)
               /\ Flag(n) = find_file_meta(records, n).is_encrypted
               /\ Has(n)' <=> n \in FileNames(meta')
               /\ Flag(n)' = find_file_meta(meta', n).is_encrypted
    BY <1>4 DEF Has, Flag
  <1>6. CASE op.action \in {"CREATE", "DELETE"}
    <2>1. meta' = delete_file_meta(records, op.name)
      BY <1>6 DEF Rewrite
    <2>2. /\ Table(meta', misfiled) /\ FileNames(meta') = FileNames(records) \ {op.name}
          /\ \A m \in FileNames(meta') \ misfiled : find_file_meta(meta', m) = find_file_meta(records, m)
      BY <1>4, <2>1, DeleteRecord
    <2>3. op.action \notin Transforms /\ op.action # "CHMOD"
      BY <1>6 DEF Transforms
    <2>4. ~Has(op.name)'
      BY <1>3, <1>5, <2>2
    <2>5. ASSUME NEW n, n # op.name, n \notin misfiled
          PROVE  (Has(n)' <=> Has(n)) /\ (Has(n) => Flag(n)' = Flag(n))
      <3>1. n \in FileNames(meta') <=> n \in FileNames(records)
        BY <2>2, <2>5
      <3>2. Has(n)' <=> Has(n)
        BY <1>5, <3>1
      <3>3. Has(n) => find_file_meta(meta', n) = find_file_meta(records, n)
        BY <1>5, <2>2, <2>5, <3>1
      <3>4. QED
        BY <1>5, <3>2, <3>3
    <2>6. QED
      BY <1>6, <2>2, <2>3, <2>4, <2>5
  <1>7. CASE op.action = "CHMOD"
    <2>1. meta' = chmod_file(records, op.name, op.perm_str)
      BY <1>7 DEF Rewrite
    <2>2. /\ Table(meta', misfiled) /\ FileNames(meta') = FileNames(records)
          /\ \A m \in FileNames(records) \ misfiled :
               find_file_meta(meta', m).is_encrypted = find_file_meta(records, m).is_encrypted
      BY <1>2, <1>4, <1>7, <2>1, ChmodRecord
    <2>3. op.action \notin Transforms /\ op.action \notin {"CREATE", "DELETE"}
      BY <1>7 DEF Transforms
    <2>4. ASSUME NEW n, n \notin misfiled
          PROVE  (Has(n)' <=> Has(n)) /\ (Has(n) => Flag(n)' = Flag(n))
      <3>1. Has(n)' <=> Has(n)
        BY <1>5, <2>2
      <3>2. Has(n) => find_file_meta(meta', n).is_encrypted = find_file_meta(records, n).is_encrypted
        BY <1>5, <2>2, <2>4
      <3>3. QED
        BY <1>5, <3>1, <3>2
    <2>5. QED
      BY <1>3, <2>2, <2>3, <2>4
  <1>8. CASE op.action \in Transforms
    <2> DEFINE b == op.action = "ENCRYPT"
    <2>1. meta' = set_encrypted_flag(records, op.name, b) /\ b \in BOOLEAN
      BY <1>8 DEF Rewrite, Transforms
    <2> HIDE DEF b
    <2>2. /\ Table(meta', misfiled) /\ FileNames(meta') = FileNames(records)
          /\ \A m \in FileNames(records) \ (misfiled \cup {op.name}) :
               find_file_meta(meta', m) = find_file_meta(records, m)
          /\ op.name \in FileNames(records) \ misfiled =>
               find_file_meta(meta', op.name).is_encrypted = b
      BY <1>4, <2>1, FlagRecord
    <2>3. op.action \notin {"CREATE", "DELETE", "CHMOD"}
      BY <1>8 DEF Transforms
    <2>4. ASSUME NEW n PROVE Has(n)' <=> Has(n)
      BY <1>5, <2>2
    <2>5. ASSUME NEW n, n # op.name, n \notin misfiled, Has(n) PROVE Flag(n)' = Flag(n)
      <3>1. find_file_meta(meta', n) = find_file_meta(records, n)
        BY <1>5, <2>2, <2>5
      <3>2. QED
        BY <1>5, <3>1
    <2>6. Has(op.name) /\ op.name \notin misfiled => Flag(op.name)' = b
      BY <1>3, <1>5, <2>2
    <2>7. QED
      BY <1>3, <2>2, <2>3, <2>4, <2>5, <2>6 DEF b
  <1>9. QED
    BY <1>2, <1>6, <1>7, <1>8 DEF Rewriters

\* The records are on their way back, wherever they get to.
LEMMA WriteBackPreserves ==
  ASSUME Inv, WriteBack, Table(meta', misfiled),
         harmed \subseteq harmed', harmed' \subseteq Names, events' \in 0 .. MaxEvents,
         \A n \in Names : n \notin harmed' /\ n # op.name =>
           (Has(n)' <=> Has(n)) /\ (Has(n) => Flag(n)' = Flag(n)),
         op.name \notin harmed' =>
           /\ op.action \in {"CREATE", "DELETE"} => ~Has(op.name)'
           /\ op.action = "CHMOD" =>
                (Has(op.name)' <=> Has(op.name)) /\ (Has(op.name) => Flag(op.name)' = Flag(op.name))
           /\ op.action \in Transforms =>
                /\ Has(op.name)' <=> Has(op.name)
                /\ Has(op.name) => Flag(op.name)' = (op.action = "ENCRYPT")
  PROVE  Inv'
  <1> DEFINE ok == op.ok /\ (op.action = "CHMOD" => op.name \in FileNames(records))
  <1>1. /\ Step("rewrite") /\ todo' = Tail(todo) /\ records' = << >>
        /\ op' = [op EXCEPT !.ok = ok]
        /\ UNCHANGED <<storage, audit, current_user, plain, mixed, misfiled, twins>>
        /\ UNCHANGED <<users, running>>
    BY DEF WriteBack, Step
  <1>2. /\ op.name \in Names /\ op.action \in Rewriters /\ (op.ok <=> op.action # "CREATE")
        /\ todo = Rewriting /\ todo' = LogOnly
    BY <1>1, AtStep DEF Step, Inv
  <1>3. ok \in BOOLEAN /\ (op.action # "CHMOD" => ok = op.ok)
    BY DEF Inv, Types, OpType
  <1> HIDE DEF ok
  <1>4. /\ DOMAIN op = DOMAIN NoOp
        /\ op'.action = op.action /\ op'.name = op.name /\ op'.ok = ok
        /\ op'.buf = op.buf /\ op'.passphrase = op.passphrase /\ DOMAIN op' = DOMAIN NoOp
    BY <1>1 DEF Inv, Types, OpType, NoOp
  <1>5. /\ todo \notin {LogOnly, Removing, Reopening}
        /\ todo' \notin {Rewriting, Opening, Writing, Removing, Reflushing, Reopening}
    BY <1>2, PlansDiffer
  <1>6. Types'
    <2>1. << >> \in Seq(Record) /\ Len(<< >>) = 0 /\ 0 <= MaxRecords
      BY MaxRecordsAssumption
    <2>2. QED
      BY <1>1, <1>3, <1>4, <2>1 DEF Inv, Types, FileTypes, ProcessTypes, HistoryTypes, OpType, Table
  <1>7. Plan(op, todo)'
    BY <1>2, <1>4 DEF Plan, FileActions
  <1>8. TableInv' /\ UsersInv'
    BY <1>1, <1>5 DEF Inv, TableInv, UsersInv, Table, Unique
  <1>9. PermInv' /\ StoredInv'
    BY <1>5 DEF PermInv, StoredInv
  <1>10. AgreeInv'
    <2> SUFFICES ASSUME NEW n \in Names, n \notin harmed', Busy' => n # op.name PROVE Agree(n)'
      BY <1>1, <1>4 DEF AgreeInv
    <2>1. CASE n # op.name
      <3>1. Agree(n)
        BY <2>1 DEF Inv, AgreeInv
      <3>2. QED
        BY <1>1, <2>1, <3>1, AgreeStays
    <2>2. CASE n = op.name
      <3>1. op.action \in {"CREATE", "CHMOD"}
        BY <1>2, <1>3, <1>4, <1>5, <2>2 DEF Busy, Rewriters
      <3>2. CASE op.action = "CREATE"
        <4>1. Absent(n)
          BY <1>2, <1>5, <2>2, <3>2 DEF Inv, OpInv, RollbackInv
        <4>2. QED
          BY <1>1, <2>2, <3>2, <4>1 DEF Agree, Absent
      <3>3. CASE op.action = "CHMOD"
        <4>1. Agree(n)
          BY <2>2, <3>3 DEF Inv, AgreeInv, Busy, Transforms
        <4>2. QED
          BY <1>1, <2>2, <3>3, <4>1, AgreeStays
      <3>4. QED
        BY <3>1, <3>2, <3>3
    <2>3. QED
      BY <2>1, <2>2
  <1>11. OpInv'
    <2>1. CreateInv' /\ RollbackInv'
      BY <1>2, <1>3, <1>4 DEF CreateInv, RollbackInv
    <2>2. DeleteInv'
      BY <1>1, <1>2, <1>3, <1>4, <1>5 DEF Inv, OpInv, DeleteInv
    <2>3. TransformInv'
      <3> SUFFICES ASSUME op.action \in Transforms, op.name \notin harmed' PROVE TransformInv'
        BY <1>1, <1>4 DEF TransformInv
      <3>1. Has(op.name) /\ storage[PathOf[op.name]] # Missing
        BY <1>2 DEF Inv, OpInv, TransformInv, Transforms
      <3>2. QED
        BY <1>1, <1>2, <1>4, <3>1 DEF TransformInv
    <2>4. QED
      BY <2>1, <2>2, <2>3 DEF OpInv
  <1>12. QED
    BY <1>6, <1>7, <1>8, <1>9, <1>10, <1>11 DEF Inv

\* They are written, without or with the file's own changed.
LEMMA RewritePreserves ==
  ASSUME Inv, Rewrite
  PROVE  Inv'
  <1>1. WriteBack /\ harmed' = harmed /\ events' = events
    BY DEF Rewrite
  <1>2. harmed' \subseteq Names /\ events' \in 0 .. MaxEvents /\ misfiled \subseteq harmed
    BY <1>1 DEF Inv, Types, HistoryTypes, TableInv
  <1>3. /\ Table(meta', misfiled)
        /\ \A n : n # op.name /\ n \notin misfiled =>
                  (Has(n)' <=> Has(n)) /\ (Has(n) => Flag(n)' = Flag(n))
        /\ op.action \in {"CREATE", "DELETE"} => ~Has(op.name)'
        /\ op.action = "CHMOD" /\ op.name \notin misfiled =>
             (Has(op.name)' <=> Has(op.name)) /\ (Has(op.name) => Flag(op.name)' = Flag(op.name))
        /\ op.action \in Transforms /\ op.name \notin misfiled =>
             /\ Has(op.name)' <=> Has(op.name)
             /\ Has(op.name) => Flag(op.name)' = (op.action = "ENCRYPT")
    BY RewriteRecords
  <1>4. QED
    BY <1>1, <1>2, <1>3, WriteBackPreserves

\* They are lost with the write, and their files with them.
LEMMA RewriteFailsPreserves ==
  ASSUME Inv, RewriteFails
  PROVE  Inv'
  <1>1. /\ WriteBack /\ Fault /\ harmed' = harmed \cup FileNames(records) /\ meta' = meta
    BY DEF RewriteFails
  <1>2. op.name \in Names /\ todo = Rewriting /\ todo' = LogOnly /\ op'.name = op.name
    BY <1>1, AtStep DEF WriteBack, Step, Inv, Types, OpType, NoOp
  <1>3. meta = << >> /\ Current = records /\ Current' = << >>
    BY <1>1, <1>2, PlansDiffer DEF Inv, TableInv, Current
  <1>4. FileNames(records) \subseteq Names
    BY TableNames DEF Inv, Types, ProcessTypes
  <1>5. harmed' \subseteq Names /\ events' \in 0 .. MaxEvents
    BY <1>1, <1>4, ConstantsAssumption DEF Inv, Types, HistoryTypes, Fault
  <1>6. ASSUME NEW n, n \notin harmed' PROVE ~Has(n) /\ ~Has(n)'
    BY <1>1, <1>3, <1>6 DEF Has, FileNames
  <1>7. Table(meta', misfiled)
    BY <1>1, <1>3 DEF Table, Unique
  <1>8. op.name \notin harmed' => ~Has(op.name) /\ ~Has(op.name)'
    BY <1>2, <1>6
  <1>9. QED
    BY <1>1, <1>5, <1>6, <1>7, <1>8, WriteBackPreserves

\* Nothing is left to do, and the three agree about every file.
LEMMA EndPreserves ==
  ASSUME FileTypes', ProcessTypes', HistoryTypes', op' = NoOp, todo' = << >>, records' = << >>,
         (\A n \in Names : n \notin harmed => Agree(n))', Unique(meta, misfiled)',
         (misfiled \subseteq harmed)', UsersInv'
  PROVE  Inv'
  <1>1. /\ NoOp.action = "none" /\ NoOp.name = NoName /\ NoOp.ok = FALSE
        /\ NoOp.buf = << >> /\ NoOp.passphrase = Blank
    BY DEF NoOp
  <1>2. OpType(NoOp)
    BY <1>1, ByteTypes DEF OpType
  <1>3. Types'
    BY <1>2 DEF Types
  <1>4. Plan(op, todo)'
    BY DEF Plan
  <1>5. todo' \notin {Rewriting, Opening, Writing, Removing, Reflushing, Reopening}
    BY PlanSteps
  <1>6. TableInv'
    BY <1>5 DEF TableInv, Unique
  <1>7. AgreeInv'
    BY DEF AgreeInv
  <1>8. OpInv' /\ PermInv' /\ StoredInv'
    BY <1>1, <1>5 DEF OpInv, CreateInv, RollbackInv, DeleteInv, TransformInv, Transforms, PermInv,
       StoredInv
  <1>9. QED
    BY <1>3, <1>4, <1>6, <1>7, <1>8 DEF Inv

\* The entry in the log ends an operation, written or lost.
LEMMA LogPreserves ==
  ASSUME Inv, LogAction \/ LogFails
  PROVE  Inv'
  <1>1. /\ Step("log") /\ todo' = Tail(todo) /\ op' = NoOp
        /\ current_user' \in {current_user, NoUser}
        /\ UNCHANGED <<meta, storage, records, plain, mixed, misfiled, twins, users, running>>
    BY DEF LogAction, LogFails, Logged, Step
  <1>2. todo = LogOnly /\ todo' = << >>
    BY <1>1, AtStep DEF Step, Inv
  <1>3. todo \notin {Rewriting, Removing, Reopening, Opening} /\ todo' # Rewriting
    BY <1>2, PlanSteps, PlansDiffer
  <1>4. Current = meta /\ Current' = meta /\ records = << >> /\ records' = << >>
    BY <1>1, <1>3 DEF Inv, TableInv, Current
  <1>5. \A n : (Has(n)' <=> Has(n)) /\ Flag(n)' = Flag(n)
    BY <1>4 DEF Has, Flag
  <1>6. Audited => op.name \in Names
    BY <1>2, PlanSteps, PlansDiffer DEF Audited, Inv, Plan, NoOp
  <1>7. \A n \in Names : n \notin harmed /\ (Busy => n # op.name) => Agree(n)
    BY DEF Inv, AgreeInv
  <1>8. Busy <=> Audited
    BY <1>2, <1>3 DEF Busy, Audited, Transforms
  <1>9. UsersInv' /\ Unique(meta, misfiled) /\ misfiled \subseteq harmed
    BY <1>1 DEF Inv, TableInv, UsersInv
  <1>10. CASE LogAction
    <2>1. /\ audit' = IF Audited THEN [audit EXCEPT ![op.name] = op.action] ELSE audit
          /\ harmed' = harmed /\ events' = events
      BY <1>10 DEF LogAction
    <2>2. audit' \in [Names -> {"none", "CREATE", "DELETE", "ENCRYPT", "DECRYPT"}]
      <3>1. audit \in [Names -> {"none", "CREATE", "DELETE", "ENCRYPT", "DECRYPT"}]
        BY DEF Inv, Types, FileTypes
      <3>2. QED
        BY <1>6, <2>1, <3>1 DEF Audited
    <2>3. FileTypes' /\ ProcessTypes' /\ HistoryTypes'
      BY <1>1, <1>4, <2>1, <2>2 DEF Inv, Types, FileTypes, ProcessTypes, HistoryTypes
    <2>4. ASSUME NEW n \in Names, n \notin harmed' PROVE Agree(n)'
      <3>1. CASE ~Audited \/ n # op.name
        <4>1. audit'[n] = audit[n]
          BY <1>6, <2>1, <3>1 DEF Inv, Types, FileTypes
        <4>2. QED
          BY <1>1, <1>5, <1>7, <1>8, <2>1, <2>4, <3>1, <4>1, AgreeStays
      <3>2. CASE Audited /\ n = op.name
        <4>1. audit'[n] = op.action /\ n \notin harmed /\ op.ok
          BY <1>6, <2>1, <2>4, <3>2 DEF Inv, Types, FileTypes, Audited
        <4>2. CASE op.action = "CREATE"
          <5>1. op.name \notin misfiled
            BY <1>9, <3>2, <4>1
          <5>2. Has(n) /\ ~Flag(n) /\ storage[PathOf[n]] # Missing
            BY <1>3, <3>2, <4>1, <4>2, <5>1 DEF Inv, OpInv, CreateInv
          <5>3. QED
            BY <1>1, <1>5, <4>1, <4>2, <5>2 DEF Agree
        <4>3. CASE op.action = "DELETE"
          <5>1. ~Has(n) /\ storage[PathOf[n]] = Missing
            BY <1>2, <1>3, <3>2, <4>1, <4>3 DEF Inv, OpInv, DeleteInv
          <5>2. QED
            BY <1>1, <1>5, <4>1, <4>3, <5>1 DEF Agree
        <4>4. CASE op.action \in Transforms
          <5>1. Has(n) /\ storage[PathOf[n]] # Missing /\ (Flag(n) <=> op.action = "ENCRYPT")
            BY <1>2, <3>2, <4>1, <4>4 DEF Inv, OpInv, TransformInv
          <5>2. QED
            BY <1>1, <1>5, <4>1, <4>4, <5>1 DEF Agree, Transforms
        <4>5. QED
          BY <3>2, <4>2, <4>3, <4>4 DEF Transforms, Audited
      <3>3. QED
        BY <3>1, <3>2
    <2>5. (misfiled \subseteq harmed)'
      BY <1>1, <1>9, <2>1
    <2>6. QED
      BY <1>1, <1>2, <1>4, <1>9, <2>3, <2>4, <2>5, EndPreserves
  <1>11. CASE LogFails
    <2>1. /\ audit' = audit /\ harmed' = IF Audited THEN harmed \cup {op.name} ELSE harmed
          /\ events < MaxEvents /\ events' = events + 1
      BY <1>11 DEF LogFails, Fault
    <2>2. events' \in 0 .. MaxEvents
      BY <2>1, ConstantsAssumption DEF Inv, Types, HistoryTypes
    <2>3. harmed' \subseteq Names
      BY <1>6, <2>1 DEF Inv, Types, HistoryTypes
    <2>4. FileTypes' /\ ProcessTypes' /\ HistoryTypes'
      BY <1>1, <1>4, <2>1, <2>2, <2>3 DEF Inv, Types, FileTypes, ProcessTypes, HistoryTypes
    <2>5. ASSUME NEW n \in Names, n \notin harmed' PROVE Agree(n)'
      <3>1. n \notin harmed /\ (Busy => n # op.name)
        BY <1>8, <2>1, <2>5
      <3>2. QED
        BY <1>1, <1>5, <1>7, <2>1, <3>1, AgreeStays
    <2>6. (misfiled \subseteq harmed)'
      BY <1>1, <1>9, <2>1
    <2>7. QED
      BY <1>1, <1>2, <1>4, <1>9, <2>4, <2>5, <2>6, EndPreserves
  <1>12. QED
    BY <1>10, <1>11

\* An operation that a crash has stopped half way.
LEMMA HalfDoneOps ==
  ASSUME Inv, Busy, todo # Rewriting
  PROVE  HalfDone
  <1>1. todo # << >>
    BY PlanSteps DEF Inv, Plan, Busy, NoOp, Transforms
  <1>2. CASE op.action = "CREATE" /\ op.ok
    <2>1. todo \in {LogOnly, Opening, Writing}
      BY <1>1, <1>2 DEF Inv, Plan, Transforms, NoOp
    <2>2. QED
      BY <1>1, <1>2, <2>1, PlanSteps DEF HalfDone, Audited
  <1>3. CASE op.action = "CREATE" /\ ~op.ok
    <2>1. todo = Truncating
      BY <1>1, <1>3 DEF Inv, Plan, Transforms, NoOp, Busy
    <2>2. QED
      BY <1>1, <1>3, <2>1, PlanSteps DEF HalfDone
  <1>4. CASE op.action = "DELETE" /\ op.ok /\ todo # Removing
    <2>1. todo \in {LogOnly, Truncating}
      BY <1>1, <1>4 DEF Inv, Plan, Writers, Transforms, NoOp
    <2>2. QED
      BY <1>1, <1>4, <2>1, PlanSteps DEF HalfDone, Audited
  <1>5. CASE op.action \in Transforms /\ op.ok /\ todo # Reopening
    <2>1. todo \in {LogOnly, Truncating, Reflushing}
      BY <1>1, <1>5 DEF Inv, Plan, Writers, Transforms, NoOp
    <2>2. QED
      BY <1>1, <1>5, <2>1, PlanSteps DEF HalfDone, Audited, Transforms
  <1>6. QED
    BY <1>2, <1>3, <1>4, <1>5 DEF Busy

\* A crash costs the file of an operation that is half done, and the records of a
\* rewrite.
LEMMA CrashPreserves ==
  ASSUME Inv, Crash
  PROVE  Inv'
  <1>1. /\ harmed' = harmed \cup FileNames(records) \cup (IF HalfDone THEN {op.name} ELSE {})
        /\ running' = FALSE /\ current_user' = NoUser
        /\ op' = NoOp /\ todo' = << >> /\ records' = << >>
        /\ UNCHANGED <<users, meta, storage, audit, plain, mixed, misfiled, twins>>
        /\ events < MaxEvents /\ events' = events + 1
    BY DEF Crash, Fault, files
  <1>2. HalfDone => op.name \in Names
    BY AtStep, PlanSteps DEF HalfDone, Inv, Plan, Audited, FileActions, Writers, Rewriters, Transforms, NoOp
  <1>3. harmed' \subseteq Names
    <2>1. FileNames(records) \subseteq Names
      BY TableNames DEF Inv, Types, ProcessTypes
    <2>2. QED
      BY <1>1, <1>2, <2>1 DEF Inv, Types, HistoryTypes
  <1>4. events' \in 0 .. MaxEvents
    BY <1>1, ConstantsAssumption DEF Inv, Types, HistoryTypes
  <1>5. << >> \in Seq(Record) /\ Len(<< >>) = 0 /\ 0 <= MaxRecords
    BY MaxRecordsAssumption
  <1>6. FileTypes' /\ ProcessTypes' /\ HistoryTypes'
    BY <1>1, <1>3, <1>4, <1>5 DEF Inv, Types, FileTypes, ProcessTypes, HistoryTypes
  <1>7. Current' = meta
    BY <1>1, PlanSteps DEF Current
  <1>8. ASSUME NEW n \in Names, n \notin harmed' PROVE Agree(n)'
    <2>1. n \notin harmed /\ n \notin FileNames(records) /\ (HalfDone => n # op.name)
      BY <1>1, <1>8
    <2>2. CASE todo = Rewriting
      <3>1. Current = records /\ meta = << >>
        BY <2>2 DEF Inv, TableInv, Current
      <3>2. ~Has(n)
        BY <2>1, <3>1 DEF Has
      <3>3. ~Has(n)'
        BY <1>7, <3>1 DEF Has, FileNames
      <3>4. CASE Busy => n # op.name
        <4>1. Agree(n)
          BY <2>1, <3>4 DEF Inv, AgreeInv
        <4>2. QED
          BY <1>1, <3>2, <3>3, <4>1, AgreeStays
      <3>5. CASE Busy /\ n = op.name
        <4>1. todo # LogOnly
          BY <2>2, PlansDiffer
        <4>2. op.action = "CREATE" /\ ~op.ok
          <5>1. ~(op.action = "DELETE" /\ op.ok)
            BY <2>1, <3>2, <3>5, <4>1 DEF Inv, OpInv, DeleteInv
          <5>2. ~(op.action \in Transforms /\ op.ok)
            BY <2>1, <3>2, <3>5 DEF Inv, OpInv, TransformInv
          <5>3. op.ok <=> op.action # "CREATE"
            BY <2>2, AtStep, PlanSteps DEF Inv
          <5>4. QED
            BY <3>5, <5>1, <5>2, <5>3 DEF Busy
        <4>3. Absent(n)
          BY <2>1, <3>5, <4>1, <4>2 DEF Inv, OpInv, RollbackInv
        <4>4. QED
          BY <1>1, <3>3, <4>3 DEF Agree, Absent
      <3>6. QED
        BY <3>4, <3>5
    <2>3. CASE todo # Rewriting
      <3>1. (Has(n)' <=> Has(n)) /\ Flag(n)' = Flag(n)
        BY <1>7, <2>3 DEF Has, Flag, Current
      <3>2. Busy => n # op.name
        BY <2>1, <2>3, HalfDoneOps
      <3>3. Agree(n)
        BY <2>1, <3>2 DEF Inv, AgreeInv
      <3>4. QED
        BY <1>1, <3>1, <3>3, AgreeStays
    <2>4. QED
      BY <2>2, <2>3
  <1>9. Unique(meta, misfiled)' /\ (misfiled \subseteq harmed)' /\ UsersInv'
    BY <1>1 DEF Inv, TableInv, UsersInv
  <1>10. QED
    BY <1>1, <1>6, <1>8, <1>9, EndPreserves

\* Nothing changes but whether the process runs.
LEMMA FramePreserves ==
  ASSUME Inv, UNCHANGED <<files, current_user, op, todo, records, history, events>>,
         running' \in BOOLEAN
  PROVE  Inv'
  <1>1. UNCHANGED <<users, meta, storage, audit, current_user, op, todo, records, plain, mixed,
                    harmed, misfiled, twins, events>>
    BY DEF files, history, marks
  <1>2. Types' /\ Plan(op, todo)' /\ TableInv' /\ UsersInv'
    BY <1>1 DEF Inv, Types, FileTypes, ProcessTypes, HistoryTypes, OpType, Plan, TableInv,
       UsersInv, Unique
  <1>3. \A n : (Has(n)' <=> Has(n)) /\ Flag(n)' = Flag(n)
    BY <1>1 DEF Has, Flag, Current
  <1>4. AgreeInv'
    BY <1>1, <1>3 DEF Inv, AgreeInv, Agree, Busy
  <1>5. OpInv'
    BY <1>1, <1>3 DEF Inv, OpInv, CreateInv, RollbackInv, DeleteInv, TransformInv, Absent, Current
  <1>6. PermInv' /\ StoredInv'
    BY <1>1 DEF Inv, PermInv, StoredInv, Allowed
  <1>7. QED
    BY <1>2, <1>4, <1>5, <1>6 DEF Inv

-----------------------------------------------------------------------------
(* The theorems.                                                           *)

LEMMA InvInit ==
  ASSUME Init
  PROVE  Inv
  <1>1. /\ users = << >> /\ meta = << >> /\ records = << >> /\ todo = << >> /\ op = NoOp
        /\ storage = [p \in Paths |-> Missing] /\ audit = [n \in Names |-> "none"]
        /\ plain = [n \in Names |-> << >>] /\ harmed = {} /\ misfiled = {} /\ mixed = {}
        /\ events = 0 /\ running = TRUE /\ current_user = NoUser
    BY DEF Init
  <1>2. /\ NoOp.action = "none" /\ NoOp.name = NoName /\ NoOp.ok = FALSE
        /\ NoOp.buf = << >> /\ NoOp.passphrase = Blank
    BY DEF NoOp
  <1>3. OpType(NoOp)
    BY <1>2, ByteTypes DEF OpType
  <1>4. << >> \in Seq(Record) /\ Len(<< >>) = 0 /\ 0 <= MaxRecords /\ 0 \in 0 .. MaxEvents
    BY MaxRecordsAssumption, ConstantsAssumption
  <1>5. Types
    <2>1. << >> \in Seq(Accounts) /\ << >> \in Seq(Characters(Contents))
      OBVIOUS
    <2>2. FileTypes
      BY <1>1, <1>4, <2>1 DEF FileTypes
    <2>3. ProcessTypes
      BY <1>1, <1>4 DEF ProcessTypes
    <2>4. HistoryTypes
      BY <1>1, <1>4, <2>1 DEF HistoryTypes
    <2>5. QED
      BY <1>1, <1>3, <2>2, <2>3, <2>4 DEF Types
  <1>6. todo \notin {Rewriting, Opening, Writing, Removing, Reflushing, Reopening}
    BY <1>1, PlanSteps
  <1>7. Plan(op, todo) /\ TableInv /\ UsersInv
    BY <1>1, <1>6 DEF Plan, TableInv, UsersInv, Unique
  <1>8. \A n : ~Has(n)
    BY <1>1, <1>6 DEF Has, Current, FileNames
  <1>9. AgreeInv
    BY <1>1, <1>8 DEF AgreeInv, Agree, Paths
  <1>10. OpInv /\ PermInv /\ StoredInv
    BY <1>1, <1>2, <1>6 DEF OpInv, CreateInv, RollbackInv, DeleteInv, TransformInv, Transforms,
       PermInv, StoredInv
  <1>11. QED
    BY <1>5, <1>7, <1>9, <1>10 DEF Inv

LEMMA InvStep ==
  ASSUME Inv, [Next]_vars
  PROVE  Inv'
  <1>1. CASE LoginScreen \/ Menu
    <2>1. CASE Exit
      BY <2>1, FramePreserves DEF Exit, Inv, Types, ProcessTypes
    <2>2. QED
      BY <1>1, <2>1, LoginScreenPreserves, MenuPreserves DEF LoginScreen, Menu
  <1>2. CASE Work
    BY <1>2, OpenPreserves, OpenFailsPreserves, FlushPreserves, RemovePreserves,
       UnnoticedPreserves, TruncatePreserves, TruncateFailsPreserves, RewritePreserves,
       RewriteFailsPreserves, LogPreserves DEF Work
  <1>3. CASE Start
    BY <1>3, FramePreserves DEF Start
  <1>4. CASE Crash
    BY <1>4, CrashPreserves
  <1>5. CASE UNCHANGED vars \/ InvalidChoice
    <2>1. UNCHANGED <<files, current_user, op, todo, records, history, events, running>>
      BY <1>5 DEF InvalidChoice, vars, process
    <2>2. QED
      BY <2>1, FramePreserves DEF Inv, Types, ProcessTypes
  <1>6. QED
    BY <1>1, <1>2, <1>3, <1>4, <1>5 DEF Next

\* The invariant, of every step of every operation, with every fault.
THEOREM Invariance == Spec => []Inv
  <1>1. Init => Inv
    BY InvInit
  <1>2. Inv /\ [Next]_vars => Inv'
    BY InvStep
  <1>3. QED
    BY <1>1, <1>2, PTL DEF Spec

\* Every variable has its type, and a rewrite never holds more records than its
\* array has room for, whatever has been lost and typed.
THEOREM TypeCorrect == Spec => []TypeOK
  <1>1. ASSUME Inv PROVE TypeOK
    <2>1. FileNames(meta) \cup FileNames(records) \subseteq Names
      <3>1. meta \in Seq(Record) /\ records \in Seq(Record)
        BY <1>1 DEF Inv, Types, FileTypes, ProcessTypes
      <3>2. QED
        BY <3>1, TableNames
    <2>2. ASSUME NEW p \in Paths, storage[p] # Missing, NEW i \in DOMAIN storage[p]
          PROVE  storage[p][i].keys \subseteq Passphrases \X (0 .. HashLen - 1)
      <3>1. storage[p] \in Seq(Byte)
        BY <1>1, <2>2 DEF Inv, Types, FileTypes
      <3>2. storage[p][i] \in Byte
        BY <2>2, <3>1
      <3>3. QED
        BY <3>2 DEF Byte
    <2>3. todo \in Seq({"open", "write", "remove", "truncate", "rewrite", "log"})
      <3> DEFINE S == {"open", "write", "remove", "truncate", "rewrite", "log"}
      <3>1. << >> \in Seq(S) /\ LogOnly \in Seq(S) /\ Writing \in Seq(S)
        BY DEF LogOnly, Writing
      <3>2. Opening \in Seq(S) /\ Rewriting \in Seq(S) /\ Truncating \in Seq(S)
        BY DEF Opening, Rewriting, Truncating
      <3>3. Removing \in Seq(S) /\ Reflushing \in Seq(S) /\ Reopening \in Seq(S)
        BY DEF Removing, Reflushing, Reopening
      <3> HIDE DEF S
      <3>4. todo \in Seq(S)
        BY <1>1, <3>1, <3>2, <3>3 DEF Inv, Plan
      <3>5. QED
        BY <3>4 DEF S
    <2>4. QED
      BY <1>1, <2>1, <2>2, <2>3 DEF Inv, Types, FileTypes, ProcessTypes, HistoryTypes, OpType, TypeOK
  <1>2. QED
    BY <1>1, Invariance, PTL

\* No file has two records and no user two accounts, but those that were given
\* them when the file with the first one could not be opened.
THEOREM UniqueRecordsCorrect == Spec => []UniqueRecords
  <1>1. Inv => UniqueRecords
    BY DEF Inv, TableInv, UsersInv, Unique, UniqueRecords
  <1>2. QED
    BY <1>1, Invariance, PTL

\* The files that Settled speaks of are those the invariant says agree.
LEMMA SettledAgree ==
  ASSUME Inv, NEW n \in Settled
  PROVE  n \in Names /\ n \notin harmed /\ Current = meta /\ Agree(n)
  <1>1. CASE todo = << >>
    <2>1. op = NoOp /\ todo # Rewriting
      BY <1>1, PlanSteps DEF Inv, Plan
    <2>2. ~Busy
      BY <1>1, <2>1, PlanSteps DEF Busy, NoOp, Transforms
    <2>3. QED
      BY <1>1, <2>1, <2>2 DEF Settled, Inv, AgreeInv, Current
  <1>2. CASE todo # << >>
    <2>1. Head(todo) # "rewrite" /\ n \in Names /\ n \notin harmed /\ n # op.name
      BY <1>2 DEF Settled
    <2>2. todo # Rewriting
      BY <2>1, PlanSteps
    <2>3. QED
      BY <2>1, <2>2 DEF Inv, AgreeInv, Current
  <1>3. QED
    BY <1>1, <1>2

\* Metadata and stored contents name the same files.
THEOREM StoresAgreeCorrect == Spec => []StoresAgree
  <1>1. Inv => StoresAgree
    BY SettledAgree DEF StoresAgree, Agree, Has
  <1>2. QED
    BY <1>1, Invariance, PTL

\* The audit log tells which files exist and which are encrypted.
THEOREM AuditExplainsFilesCorrect == Spec => []AuditExplainsFiles
  <1>1. Inv => AuditExplainsFiles
    BY SettledAgree DEF AuditExplainsFiles, Agree, Has, Flag, Encrypted
  <1>2. QED
    BY <1>1, Invariance, PTL

\* The write bits of a record are what check_permission looks at.
LEMMA AllowedMayWrite ==
  ASSUME Inv, NEW n, Allowed(n, PERM_WRITE)
  PROVE  n \in FileNames(meta) /\ MayWrite(current_user, find_file_meta(meta, n))
  <1> DEFINE m == find_file_meta(meta, n)
  <1>1. meta \in Seq(Record) /\ n \in FileNames(meta)
    BY DEF Inv, Types, FileTypes, Allowed
  <1>2. m.permissions \in ValidPerms
    BY <1>1, RecordOf DEF Record
  <1>3. m.permissions[2] \in {"w", "-"} /\ m.permissions[5] \in {"w", "-"}
        /\ m.permissions[8] \in {"w", "-"}
    <2> DEFINE s == m.permissions
    <2>1. s \in Seq(Characters(PermStrings)) /\ is_valid_perm_string(s)
      BY <1>2, StringsAssumption DEF ValidPerms
    <2> HIDE DEF s
    <2>2. Len(s) = 9 /\ DOMAIN s = 1 .. 9
      BY <2>1 DEF is_valid_perm_string
    <2>3. QED
      BY <2>1, <2>2 DEF is_valid_perm_string, s
  <1>4. check_permission(current_user, m, 1)
    BY DEF Allowed, PERM_WRITE
  <1> HIDE DEF m
  <1>5. MayWrite(current_user, m)
    <2> DEFINE u == current_user
    <2>1. CASE u.username = m.owner
      <3>1. m.permissions[2] # "-"
        BY <1>4, <2>1 DEF check_permission
      <3>2. QED
        BY <1>3, <2>1, <3>1 DEF MayWrite
    <2>2. CASE u.username # m.owner /\ u.group = m.group
      <3>1. m.permissions[5] # "-"
        BY <1>4, <2>2 DEF check_permission
      <3>2. QED
        BY <1>3, <2>2, <3>1 DEF MayWrite
    <2>3. CASE u.username # m.owner /\ u.group # m.group
      <3>1. m.permissions[8] # "-"
        BY <1>4, <2>3 DEF check_permission
      <3>2. QED
        BY <1>3, <2>3, <3>1 DEF MayWrite
    <2>4. QED
      BY <2>1, <2>2, <2>3
  <1>6. QED
    BY <1>1, <1>5 DEF m

\* Nobody but those whom its record lets write changes a file's content, and its
\* creator, while it is empty; or somebody who used another name of the file.
THEOREM OnlyWritersChangeCorrect == Spec => OnlyWritersChange
  <1> DEFINE Kept(n) == storage[PathOf[n]] # Missing /\ storage'[PathOf[n]] # storage[PathOf[n]] =>
                          \/ op.name \in Aliases(n)
                          \/ /\ n \in FileNames(meta)
                             /\ MayWrite(current_user, find_file_meta(meta, n)) \/ FirstContent(n)
  <1>1. ASSUME Inv, [Next]_vars PROVE \A n \in Names \ harmed : Kept(n)
    <2>1. CASE Open \/ Flush \/ Remove
      <3>1. /\ todo # << >> /\ Head(todo) \in {"open", "write", "remove"}
            /\ \E x : storage' = [storage EXCEPT ![PathOf[op.name]] = x]
        BY <2>1 DEF Open, Flush, Remove, Step
      <3>2. /\ op.name \in Names /\ todo \notin {Rewriting, LogOnly}
            /\ todo \in {Opening, Writing, Removing, Reflushing, Reopening}
        BY <1>1, <3>1, AtStep, PlansDiffer DEF Inv
      <3>3. op.action # "CREATE" => Allowed(op.name, PERM_WRITE)
        BY <1>1, <3>2 DEF Inv, PermInv
      <3>4. ASSUME NEW n \in Names, storage'[PathOf[n]] # storage[PathOf[n]], n # op.name
            PROVE  op.name \in Aliases(n)
        <4>1. PathOf[n] = PathOf[op.name]
          <5>1. storage \in [Paths -> Seq(Byte) \cup {Missing}] /\ PathOf[n] \in Paths
            BY <1>1 DEF Inv, Types, FileTypes, Paths
          <5>2. QED
            BY <3>1, <3>4, <5>1
        <4>2. QED
          BY <3>2, <3>4, <4>1 DEF Aliases
      <3>5. ASSUME op.name \notin harmed, op.action = "CREATE", storage[PathOf[op.name]] # Missing
            PROVE  op.name \in FileNames(meta) /\ FirstContent(op.name)
        <4>1. op.ok /\ todo \in {Opening, Writing}
          BY <1>1, <3>1, <3>5, AtStep, PlansDiffer DEF Inv, Transforms
        <4>2. op.name \notin misfiled /\ Current = meta
          BY <1>1, <3>2, <3>5 DEF Inv, TableInv, Current
        <4>3. Has(op.name) /\ find_file_meta(meta, op.name).owner = current_user.username
          BY <1>1, <3>5, <4>1, <4>2 DEF Inv, OpInv, CreateInv
        <4>4. todo # Opening
          BY <1>1, <3>5, <4>1, <4>2 DEF Inv, OpInv, CreateInv, Absent
        <4>5. storage[PathOf[op.name]] = << >>
          BY <1>1, <3>5, <4>1, <4>2, <4>4 DEF Inv, OpInv, CreateInv
        <4>6. QED
          BY <3>5, <4>2, <4>3, <4>5 DEF FirstContent, Has
      <3>6. QED
        BY <1>1, <3>3, <3>4, <3>5, AllowedMayWrite
    <2>2. CASE UNCHANGED storage
      BY <2>2
    <2>3. CASE LoginScreen \/ Menu
      BY <2>2, <2>3 DEF LoginScreen, Menu, Register, Login, Exit, Chmod, Create, ReadFile, WriteFile,
         DeleteFile, Transform, Logout, Refuse, BeginFileOp, files
    <2>4. CASE Work
      BY <2>1, <2>2, <2>4 DEF Work, OpenFails, FlushFails, RemoveFails, Truncate, TruncateFails,
         Rewrite, RewriteFails, WriteBack, LogAction, LogFails, Logged
    <2>5. QED
      BY <1>1, <2>2, <2>3, <2>4 DEF Next, Start, InvalidChoice, Crash, files, vars
  <1>2. Inv /\ [Next]_vars => [\A n \in Names \ harmed : Kept(n)]_vars
    BY <1>1
  <1>3. QED
    BY <1>2, Invariance, PTL DEF Spec, OnlyWritersChange

-----------------------------------------------------------------------------
(* What the contents are.                                                  *)

Odd(P) == Cardinality(P) % 2 = 1

\* The text under the key streams of finitely many passphrases.
Coded(buf, text, P) == IsFiniteSet(P) /\ buf = Under(text, P)

\* The content of a file is its text under as many streams as its flag says.
Content(n) ==
  \E P \in SUBSET Passphrases :
    Coded(storage[PathOf[n]], plain[n], P) /\ (Odd(P) <=> Flag(n))

\* The content is being replaced; or is a transformed one, but for the flag.
Loose(n) ==
  /\ n = op.name
  /\ \/ todo \in {Writing, Reflushing} /\ op.action # "APPEND"
     \/ todo \in {Truncating, Rewriting} /\ op.action \in Transforms

ContentInv ==
  \A n \in Names :
    n \notin mixed /\ n \notin harmed /\ storage[PathOf[n]] # Missing /\ ~Loose(n) => Content(n)

\* The streams on a text that is written to a file.
Streams == IF Flag(op.name) /\ op.passphrase # Blank THEN {op.passphrase} ELSE {}

\* What is about to be written, and what has been.
BufferInv ==
  /\ todo \in {Opening, Writing} => op.buf = Under(Text(op.buf), Streams)
  /\ todo \in {Writing, Reflushing} /\ op.action # "APPEND" => storage[PathOf[op.name]] = << >>
ResultInv ==
  op.action \in Transforms /\ op.ok /\ op.name \notin harmed /\ op.name \notin mixed =>
    \E P \in SUBSET Passphrases :
      /\ Odd(P) <=> op.action = "ENCRYPT"
      /\ todo \in {Reopening, Reflushing} => Coded(op.buf, plain[op.name], P)
      /\ todo \in {Truncating, Rewriting} => Coded(storage[PathOf[op.name]], plain[op.name], P)

\* What a read has given its caller.
Beginning(s) == SubSeq(s, 1, IF Len(s) < MaxRead THEN Len(s) ELSE MaxRead)
ReadInv ==
  op.action = "READ" /\ op.ok =>
    /\ storage[PathOf[op.name]] # Missing
    /\ out_buffer = Decode(op.name, Beginning(storage[PathOf[op.name]]), op.passphrase)

CipherInv == ContentInv /\ BufferInv /\ ResultInv /\ ReadInv

\* The key bytes that the streams of P have at a place.
KeysAt(P, k) == P \X {k}

\* XORing one passphrase's stream onto a place.
LEMMA ToggleStream ==
  ASSUME NEW P, NEW p, NEW k
  PROVE  Toggle(KeysAt(P, k), <<p, k>>) = KeysAt(Toggle(P, p), k)
  <1>1. <<p, k>> \in P \X {k} <=> p \in P
    OBVIOUS
  <1>2. \A x : x \in Toggle(P \X {k}, <<p, k>>) <=> x \in Toggle(P, p) \X {k}
    <2>1. CASE p \in P
      <3>1. Toggle(P, p) = P \ {p} /\ Toggle(P \X {k}, <<p, k>>) = (P \X {k}) \ {<<p, k>>}
        BY <1>1, <2>1 DEF Toggle
      <3>2. QED
        BY <3>1
    <2>2. CASE p \notin P
      <3>1. Toggle(P, p) = P \cup {p} /\ Toggle(P \X {k}, <<p, k>>) = (P \X {k}) \cup {<<p, k>>}
        BY <1>1, <2>2 DEF Toggle
      <3>2. QED
        BY <3>1
    <2>3. QED
      BY <2>1, <2>2
  <1>3. QED
    BY <1>2, Zenon DEF KeysAt

\* Streams on a text, and the text under them.
LEMMA UnderText ==
  ASSUME NEW t \in Seq(Characters(Contents)), NEW P
  PROVE  /\ DOMAIN Under(t, P) = 1 .. Len(t) /\ Len(t) \in Nat /\ DOMAIN t = 1 .. Len(t)
         /\ \A i \in 1 .. Len(t) : /\ Under(t, P)[i].char = t[i]
                                   /\ Under(t, P)[i].keys = P \X {(i - 1) % HashLen}
         /\ Text(Under(t, P)) = t
         /\ Under(t, P) = << >> <=> t = << >>
  <1>1. Len(t) \in Nat /\ DOMAIN t = 1 .. Len(t)
    OBVIOUS
  <1>2. DOMAIN Under(t, P) = 1 .. Len(t)
    BY <1>1 DEF Under
  <1>3. \A i \in 1 .. Len(t) : /\ Under(t, P)[i].char = t[i]
                               /\ Under(t, P)[i].keys = P \X {(i - 1) % HashLen}
    BY <1>1 DEF Under
  <1>4. Text(Under(t, P)) = t
    <2>1. Text(Under(t, P)) = [i \in 1 .. Len(t) |-> t[i]]
      BY <1>2, <1>3 DEF Text
    <2>2. QED
      BY <1>1, <2>1
  <1>5. Under(t, P) = << >> => t = << >>
    <2>1. DOMAIN << >> = {}
      OBVIOUS
    <2>2. QED
      BY <1>1, <1>2, <2>1
  <1>6. t = << >> => Under(t, P) = << >>
    BY DEF Under
  <1>7. QED
    BY <1>1, <1>2, <1>3, <1>4, <1>5, <1>6

\* A plain text has no streams on it.
LEMMA BytesUnder ==
  ASSUME NEW t
  PROVE  Bytes(t) = Under(t, {})
  <1>1. \A k : {} \X {k} = {}
    OBVIOUS
  <1>2. QED
    BY <1>1, Zenon DEF Bytes, Under

\* xor_cipher adds a whole stream, or takes it off.
LEMMA XorUnder ==
  ASSUME NEW t \in Seq(Characters(Contents)), NEW P, NEW p
  PROVE  xor_cipher(Under(t, P), p) = Under(t, Toggle(P, p))
  <1> DEFINE u == Under(t, P)
             r(i) == [char |-> t[i], keys |-> Toggle(P, p) \X {(i - 1) % HashLen}]
  <1>1. DOMAIN u = DOMAIN t
    BY UnderText
  <1>2. ASSUME NEW i \in DOMAIN t
        PROVE  [u[i] EXCEPT !.keys = Toggle(@, <<p, (i - 1) % HashLen>>)] = r(i)
    <2> DEFINE k == (i - 1) % HashLen
    <2>1. u[i] = [char |-> t[i], keys |-> P \X {k}]
      BY DEF Under
    <2> HIDE DEF k, u
    <2>2. [u[i] EXCEPT !.keys = Toggle(@, <<p, k>>)]
            = [char |-> t[i], keys |-> Toggle(P \X {k}, <<p, k>>)]
      BY <2>1
    <2>3. Toggle(KeysAt(P, k), <<p, k>>) = KeysAt(Toggle(P, p), k)
      BY ToggleStream
    <2>4. QED
      BY <2>2, <2>3, Zenon DEF k, KeysAt
  <1>3. xor_cipher(u, p) = [i \in DOMAIN t |-> r(i)]
    <2>1. xor_cipher(u, p) = [i \in DOMAIN u |->
             [u[i] EXCEPT !.keys = Toggle(@, <<p, (i - 1) % HashLen>>)]]
      BY DEF xor_cipher
    <2> HIDE DEF u, r
    <2>2. QED
      BY <1>1, <1>2, <2>1
  <1>4. QED
    BY <1>3 DEF Under

\* Each stream that comes or goes changes the parity.
LEMMA ToggleParity ==
  ASSUME NEW P \in SUBSET Passphrases, IsFiniteSet(P), NEW p \in Passphrases
  PROVE  /\ Toggle(P, p) \in SUBSET Passphrases /\ IsFiniteSet(Toggle(P, p))
         /\ Odd(Toggle(P, p)) <=> ~Odd(P)
  <1>1. Cardinality(P) \in Nat
    BY FS_CardinalityType
  <1>2. CASE p \in P
    <2>1. IsFiniteSet(P \ {p}) /\ Cardinality(P \ {p}) = Cardinality(P) - 1
      BY <1>2, FS_RemoveElement
    <2>2. Toggle(P, p) = P \ {p}
      BY <1>2 DEF Toggle
    <2>3. Cardinality(P \ {p}) \in Nat
      BY <2>1, FS_CardinalityType
    <2>4. Odd(Toggle(P, p)) <=> ~Odd(P)
      BY <1>1, <2>1, <2>2, <2>3 DEF Odd
    <2>5. QED
      BY <2>1, <2>2, <2>4
  <1>3. CASE p \notin P
    <2>1. IsFiniteSet(P \cup {p}) /\ Cardinality(P \cup {p}) = Cardinality(P) + 1
      BY <1>3, FS_AddElement
    <2>2. Toggle(P, p) = P \cup {p}
      BY <1>3 DEF Toggle
    <2>3. Odd(Toggle(P, p)) <=> ~Odd(P)
      BY <1>1, <2>1, <2>2 DEF Odd
    <2>4. QED
      BY <2>1, <2>2, <2>3
  <1>4. QED
    BY <1>2, <1>3

\* No stream, and one.
LEMMA FewStreams ==
  ASSUME NEW p
  PROVE  /\ IsFiniteSet({}) /\ IsFiniteSet({p}) /\ ~Odd({}) /\ Odd({p})
         /\ Toggle({}, p) = {p} /\ Toggle({p}, p) = {}
  <1>1. IsFiniteSet({}) /\ Cardinality({}) = 0 /\ IsFiniteSet({p}) /\ Cardinality({p}) = 1
    BY FS_EmptySet, FS_Singleton
  <1>2. Toggle({}, p) = {p} /\ Toggle({p}, p) = {}
    BY DEF Toggle
  <1>3. QED
    BY <1>1, <1>2 DEF Odd

\* An append of a text to a text.
LEMMA UnderConcat ==
  ASSUME NEW s \in Seq(Characters(Contents)), NEW t \in Seq(Characters(Contents))
  PROVE  Under(s, {}) \o Under(t, {}) = Under(s \o t, {})
  <1> DEFINE C == Characters(Contents)
             B == [char : C, keys : {{}}]
             b(x) == [char |-> x, keys |-> {}]
  <1>1. \A q \in Seq(C) : Under(q, {}) = [i \in 1 .. Len(q) |-> b(q[i])]
    <2>1. \A k : {} \X {k} = {}
      OBVIOUS
    <2>2. \A q \in Seq(C) : DOMAIN q = 1 .. Len(q)
      OBVIOUS
    <2>3. QED
      BY <2>1, <2>2, Zenon DEF Under
  <1>2. s \o t \in Seq(C) /\ Len(s \o t) = Len(s) + Len(t) /\ Len(s) \in Nat /\ Len(t) \in Nat
    OBVIOUS
  <1>3. \A x \in C : b(x) \in B
    OBVIOUS
  <1> DEFINE u == Under(s, {})  v == Under(t, {})  w == Under(s \o t, {})
  <1>4. /\ u \in Seq(B) /\ Len(u) = Len(s) /\ \A i \in 1 .. Len(s) : u[i] = b(s[i])
        /\ v \in Seq(B) /\ Len(v) = Len(t) /\ \A i \in 1 .. Len(t) : v[i] = b(t[i])
        /\ w \in Seq(B) /\ Len(w) = Len(s) + Len(t)
        /\ \A i \in 1 .. Len(s) + Len(t) : w[i] = b((s \o t)[i])
    <2> HIDE DEF b, B
    <2>1. ASSUME NEW q \in Seq(C)
          PROVE  /\ Under(q, {}) \in Seq(B) /\ Len(Under(q, {})) = Len(q)
                 /\ \A i \in 1 .. Len(q) : Under(q, {})[i] = b(q[i])
      <3>1. \A i \in 1 .. Len(q) : q[i] \in C
        OBVIOUS
      <3>2. Under(q, {}) = [i \in 1 .. Len(q) |-> b(q[i])] /\ Len(q) \in Nat
        BY <1>1
      <3>3. QED
        BY <1>3, <3>1, <3>2
    <2>2. QED
      BY <1>2, <2>1
  <1> HIDE DEF u, v, w, b, B
  <1>5. u \o v \in Seq(B) /\ Len(u \o v) = Len(s) + Len(t)
    <2>1. u \in Seq(B) /\ v \in Seq(B)
      BY <1>4
    <2>2. u \o v \in Seq(B) /\ Len(u \o v) = Len(u) + Len(v)
      BY <2>1
    <2>3. QED
      BY <1>4, <2>2
  <1>6. ASSUME NEW i \in 1 .. Len(s) + Len(t) PROVE (u \o v)[i] = w[i]
    <2>1. CASE i <= Len(s)
      <3>1. i \in 1 .. Len(s)
        BY <1>2, <2>1
      <3>2. (u \o v)[i] = u[i] /\ (s \o t)[i] = s[i]
        BY <1>2, <1>4, <3>1
      <3>3. QED
        BY <1>4, <3>1, <3>2
    <2>2. CASE i > Len(s)
      <3>1. i - Len(s) \in 1 .. Len(t)
        BY <1>2, <2>2
      <3>2. (u \o v)[i] = v[i - Len(s)] /\ (s \o t)[i] = t[i - Len(s)]
        BY <1>2, <1>4, <2>2, <3>1
      <3>3. QED
        BY <1>4, <3>1, <3>2
    <2>3. Len(s) \in Nat /\ Len(t) \in Nat
      BY <1>2
    <2>4. i <= Len(s) \/ i > Len(s)
      BY <2>3
    <2>5. QED
      BY <2>1, <2>2, <2>4
  <1>7. u \o v = w
    BY <1>4, <1>5, <1>6, SeqEqual
  <1>8. QED
    BY <1>7 DEF u, v, w

\* A stored content has its record, unless a fault has hit the file.
LEMMA StoredHas ==
  ASSUME Inv, NEW n \in Names, n \notin harmed, storage[PathOf[n]] # Missing
  PROVE  Has(n)
  <1>1. CASE Busy => n # op.name
    BY <1>1 DEF Inv, AgreeInv, Agree
  <1>2. CASE Busy /\ n = op.name
    <2>1. CASE op.action = "CREATE"
      <3>1. op.name \notin misfiled
        BY <1>2 DEF Inv, TableInv
      <3>2. QED
        BY <1>2, <2>1, <3>1 DEF Busy, Inv, OpInv, CreateInv, RollbackInv, Absent, Transforms
    <2>2. CASE op.action = "DELETE"
      BY <1>2, <2>2 DEF Busy, Inv, OpInv, DeleteInv, Transforms
    <2>3. CASE op.action \in Transforms
      BY <1>2, <2>3 DEF Busy, Inv, OpInv, TransformInv, Transforms
    <2>4. QED
      BY <1>2, <2>1, <2>2, <2>3 DEF Busy
  <1>3. QED
    BY <1>1, <1>2

\* A content that is left alone.
LEMMA ContentStays ==
  ASSUME Inv, ContentInv, NEW n \in Names, n \notin mixed, n \notin harmed,
         storage[PathOf[n]] # Missing, ~Loose(n), storage'[PathOf[n]] = storage[PathOf[n]],
         plain'[n] = plain[n], Has(n) => (Flag(n)' <=> Flag(n))
  PROVE  Content(n)'
  <1>1. Has(n)
    BY StoredHas
  <1>2. Content(n)
    BY DEF ContentInv
  <1>3. QED
    BY <1>1, <1>2 DEF Content

\* An operation begins.
LEMMA BeginCipher ==
  ASSUME Inv, CipherInv, Idle, NEW o, NEW steps, op' = o, todo' = steps,
         UNCHANGED <<storage, plain, mixed>>, harmed \subseteq harmed',
         \A n \in Names : n \notin harmed' /\ Has(n) => (Flag(n)' <=> Flag(n)),
         BufferInv', ResultInv', ReadInv'
  PROVE  CipherInv'
  <1>1. todo = << >>
    BY DEF Idle
  <1>2. todo \notin {Writing, Reflushing, Rewriting, Truncating}
    BY <1>1, PlanSteps
  <1>3. \A n : ~Loose(n)
    BY <1>2 DEF Loose
  <1>4. ContentInv'
    <2> SUFFICES ASSUME NEW n \in Names, n \notin mixed, storage[PathOf[n]] # Missing, n \notin harmed'
                 PROVE  Content(n)'
      BY DEF ContentInv
    <2>1. QED
      BY <1>3, ContentStays DEF CipherInv
  <1>5. QED
    BY <1>4 DEF CipherInv

\* One that has no content to write and has read none.
LEMMA ModestCipher ==
  ASSUME Inv, CipherInv, Idle, NEW o, NEW steps, op' = o, todo' = steps,
         UNCHANGED <<meta, storage, plain, mixed, harmed>>,
         steps \in {LogOnly, Truncating, Removing},
         o.action \in {"CHMOD", "DELETE"} \/ ~o.ok
  PROVE  CipherInv'
  <1>1. /\ steps \notin {Writing, Reflushing, Rewriting, Opening, Reopening}
        /\ todo # Rewriting
    BY PlansDiffer, PlanSteps DEF Idle
  <1>2. BufferInv' /\ ResultInv' /\ ReadInv'
    BY <1>1 DEF BufferInv, ResultInv, ReadInv, Transforms
  <1>3. \A n : Flag(n)' = Flag(n)
    BY <1>1, SameTable
  <1>4. QED
    BY <1>2, <1>3, BeginCipher

\* One that is refused.
LEMMA RefuseCipher ==
  ASSUME Inv, CipherInv, NEW ok, Refuse(ok), UNCHANGED <<meta, marks>>
  PROVE  CipherInv'
  <1>1. /\ Idle /\ op' = NoOp /\ todo' = LogOnly
        /\ UNCHANGED <<meta, storage, plain, mixed, harmed>>
    BY DEF Refuse, BeginFileOp, Begin, Prompt, LogOnly, marks
  <1>2. ~NoOp.ok
    BY DEF NoOp
  <1>3. QED
    BY <1>1, <1>2, ModestCipher

\* A text on its way to a file, as fs_write_file has it.
LEMMA DecodeText ==
  ASSUME Idle, NEW n, NEW t \in Contents, NEW p
  PROVE  Decode(n, Bytes(t), p) = Under(t, IF Flag(n) /\ p # Blank THEN {p} ELSE {})
  <1>1. t \in Seq(Characters(Contents))
    BY StringsAssumption
  <1>2. Encrypted(n) = Flag(n)
    BY PlanSteps DEF Idle, Encrypted, Flag, Current
  <1>3. Bytes(t) = Under(t, {})
    BY BytesUnder
  <1>4. xor_cipher(Under(t, {}), p) = Under(t, {p})
    <2>1. xor_cipher(Under(t, {}), p) = Under(t, Toggle({}, p))
      BY <1>1, XorUnder
    <2>2. Toggle({}, p) = {p}
      BY DEF Toggle
    <2>3. QED
      BY <2>1, <2>2, Zenon
  <1>5. QED
    BY <1>2, <1>3, <1>4 DEF Decode

\* The operations that create a file and that write to one.
LEMMA WriterCipher ==
  ASSUME Inv, CipherInv, Idle, NEW o, op' = o, todo' = Opening,
         UNCHANGED <<storage, plain, mixed>>, harmed \subseteq harmed', o.action \in Writers,
         NEW t \in Contents, NEW P, o.buf = Under(t, P), Streams' = P,
         \A n \in Names : n \notin harmed' /\ Has(n) => (Flag(n)' <=> Flag(n))
  PROVE  CipherInv'
  <1>1. Opening \notin {Writing, Reflushing}
    BY PlansDiffer
  <1>2. Text(Under(t, P)) = t
    BY StringsAssumption, UnderText
  <1>3. op'.buf = Under(Text(op'.buf), Streams')
    BY <1>2
  <1>4. BufferInv'
    BY <1>1, <1>3 DEF BufferInv
  <1>5. ResultInv' /\ ReadInv'
    BY DEF ResultInv, ReadInv, Writers, Transforms
  <1>6. QED
    BY <1>4, <1>5, BeginCipher

\* The operations that encrypt and decrypt.
LEMMA TransformCipher ==
  ASSUME Inv, CipherInv, Idle, NEW o, op' = o, todo' = Reopening,
         UNCHANGED <<meta, storage, plain, mixed, harmed>>, o.action \in Transforms, o.ok,
         o.name \in Names, CanTransform(o.action, o.name),
         NEW p \in Passphrases, o.buf = xor_cipher(storage[PathOf[o.name]], p)
  PROVE  CipherInv'
  <1> DEFINE n == o.name
  <1>1. /\ todo \notin {Writing, Reflushing, Rewriting, Truncating}
        /\ Reopening \notin {Writing, Reflushing, Rewriting, Truncating, LogOnly, Opening}
    BY PlanSteps DEF Idle
  <1>2. \A m : (Has(m)' <=> Has(m)) /\ Flag(m)' = Flag(m)
    BY <1>1, SameTable
  <1>3. BufferInv' /\ ReadInv'
    BY <1>1 DEF BufferInv, ReadInv, Transforms
  <1>4. ResultInv'
    <2> SUFFICES ASSUME n \notin harmed, n \notin mixed
                 PROVE  \E P \in SUBSET Passphrases :
                          (Odd(P) <=> o.action = "ENCRYPT") /\ Coded(o.buf, plain[n], P)
      BY <1>1 DEF ResultInv
    <2>1. /\ storage[PathOf[n]] # Missing
          /\ Flag(n) <=> o.action = "DECRYPT"
      BY <1>1 DEF CanTransform, Encrypted, Flag, Current
    <2>2. ~Loose(n)
      BY <1>1 DEF Loose
    <2>3. PICK P \in SUBSET Passphrases :
            Coded(storage[PathOf[n]], plain[n], P) /\ (Odd(P) <=> Flag(n))
      BY <2>1, <2>2 DEF CipherInv, ContentInv, Content
    <2>4. /\ IsFiniteSet(P) /\ storage[PathOf[n]] = Under(plain[n], P)
          /\ plain[n] \in Seq(Characters(Contents))
      BY <2>3 DEF Coded, Inv, Types, HistoryTypes
    <2>5. o.buf = Under(plain[n], Toggle(P, p))
      BY <2>4, XorUnder
    <2>6. /\ Toggle(P, p) \in SUBSET Passphrases /\ IsFiniteSet(Toggle(P, p))
          /\ Odd(Toggle(P, p)) <=> ~Odd(P)
      BY <2>4, ToggleParity
    <2>7. Odd(Toggle(P, p)) <=> o.action = "ENCRYPT"
      BY <2>1, <2>3, <2>6 DEF Transforms
    <2>8. QED
      BY <2>5, <2>6, <2>7 DEF Coded
  <1>5. QED
    BY <1>1, <1>2, <1>3, <1>4, BeginCipher DEF Transforms

\* Every operation of the menu and of the login screen.
LEMMA PromptCipher ==
  ASSUME Inv, CipherInv, LoginScreen \/ Menu, ~Exit
  PROVE  CipherInv'
  <1> USE DEF history, marks, files
  <1>1. ASSUME NEW act \in {"REGISTER", "LOGIN", "LOGOUT"}, Idle,
               Begin([NoOp EXCEPT !.action = act], <<"log">>),
               UNCHANGED <<meta, storage, plain, mixed, harmed>>
        PROVE  CipherInv'
    <2> DEFINE o == [NoOp EXCEPT !.action = act]
    <2>1. op' = o /\ todo' = LogOnly /\ ~o.ok
      BY <1>1 DEF Begin, LogOnly, NoOp
    <2> HIDE DEF o
    <2>2. QED
      BY <1>1, <2>1, ModestCipher
  <1>2. ASSUME NEW o, NEW steps, NEW failed, BeginFileOp(o, steps, failed)
        PROVE  /\ Idle /\ op' = o /\ todo' = steps
               /\ UNCHANGED <<storage, current_user, plain, mixed>>
    BY <1>2 DEF BeginFileOp, Begin, Prompt
  <1>3. ASSUME NEW n \in Names, NEW perm_str \in PermStrings, Chmod(n, perm_str)
        PROVE  CipherInv'
    <2> DEFINE o == [NoOp EXCEPT !.action = "CHMOD", !.name = n, !.perm_str = perm_str]
               q == [o EXCEPT !.ok = TRUE]
    <2>1. /\ UNCHANGED <<meta, harmed, misfiled>>
          /\ BeginFileOp(q, Truncating, 0) \/ Refuse(is_valid_perm_string(perm_str))
      BY <1>3 DEF Chmod, Truncating
    <2>2. q.action = "CHMOD"
      BY DEF NoOp
    <2> HIDE DEF q
    <2>3. QED
      BY <1>2, <2>1, <2>2, ModestCipher, RefuseCipher
  <1>4. ASSUME NEW n \in Names, DeleteFile(n) PROVE CipherInv'
    <2> DEFINE o == [NoOp EXCEPT !.action = "DELETE", !.name = n]
               q == [o EXCEPT !.ok = TRUE]
    <2>1. /\ UNCHANGED <<meta, harmed, misfiled>>
          /\ BeginFileOp(q, Removing, 0) \/ Refuse(Allowed(n, PERM_WRITE))
      BY <1>4 DEF DeleteFile, Removing
    <2>2. q.action = "DELETE"
      BY DEF NoOp
    <2> HIDE DEF q
    <2>3. QED
      BY <1>2, <2>1, <2>2, ModestCipher, RefuseCipher
  <1>5. ASSUME NEW n \in Names, NEW p \in Passphrases, ReadFile(n, p) PROVE CipherInv'
    <2> DEFINE ok == Allowed(n, PERM_READ) /\ storage[PathOf[n]] # Missing
               o == [NoOp EXCEPT !.action = "READ", !.name = n, !.passphrase = p]
               q == [o EXCEPT !.ok = TRUE]
    <2>1. /\ UNCHANGED <<meta, harmed, misfiled>>
          /\ \/ /\ ok /\ BeginFileOp(q, LogOnly, 0)
                /\ out_buffer' = Decode(n, Beginning(storage[PathOf[n]]), p)
             \/ Refuse(ok)
      BY <1>5 DEF ReadFile, LogOnly, Beginning
    <2>2. q.action = "READ" /\ q.name = n /\ q.passphrase = p
      BY DEF NoOp
    <2> HIDE DEF q
    <2>3. CASE /\ ok /\ BeginFileOp(q, LogOnly, 0)
               /\ out_buffer' = Decode(n, Beginning(storage[PathOf[n]]), p)
      <3>1. Idle /\ op' = q /\ todo' = LogOnly /\ UNCHANGED <<storage, plain, mixed>>
        BY <1>2, <2>3
      <3>2. ReadInv'
        BY <2>1, <2>2, <2>3, <3>1 DEF ReadInv, Decode, Encrypted
      <3>3. LogOnly \notin {Writing, Opening, Reflushing, Reopening, Rewriting} /\ todo # Rewriting
        BY <3>1, PlansDiffer, PlanSteps DEF Idle
      <3>4. BufferInv' /\ ResultInv'
        BY <2>2, <3>1, <3>3 DEF BufferInv, ResultInv, Transforms
      <3>5. \A m : Flag(m)' = Flag(m)
        BY <2>1, <3>1, <3>3, SameTable
      <3>6. QED
        BY <2>1, <3>1, <3>2, <3>4, <3>5, BeginCipher
    <2>4. CASE Refuse(ok)
      <3> HIDE DEF ok
      <3>1. QED
        BY <2>1, <2>4, RefuseCipher
    <2>5. QED
      BY <2>1, <2>3, <2>4
  <1>6. ASSUME NEW n \in Names, NEW p \in Passphrases, NEW text \in Contents,
               NEW action \in {"WRITE", "APPEND"}, WriteFile(action, n, p, text)
        PROVE  CipherInv'
    <2> DEFINE o == [NoOp EXCEPT !.action = action, !.name = n, !.passphrase = p]
               b == Decode(n, Bytes(text), p)
               q == [o EXCEPT !.buf = b, !.ok = TRUE]
               S == IF Flag(n) /\ p # Blank THEN {p} ELSE {}
    <2>1. /\ UNCHANGED <<meta, harmed, misfiled>>
          /\ BeginFileOp(q, Opening, 0) \/ Refuse(Allowed(n, PERM_WRITE))
      BY <1>6 DEF WriteFile, Opening
    <2>2. Idle => b = Under(text, S)
      BY DecodeText
    <2> HIDE DEF b
    <2>3. q.action = action /\ q.name = n /\ q.passphrase = p /\ q.buf = b
      BY DEF NoOp
    <2> HIDE DEF o, q
    <2>4. CASE BeginFileOp(q, Opening, 0)
      <3>1. Idle /\ op' = q /\ todo' = Opening /\ UNCHANGED <<storage, plain, mixed>>
        BY <1>2, <2>4
      <3>2. \A m : Flag(m)' = Flag(m)
        BY <2>1, <3>1, PlansDiffer, PlanSteps, SameTable DEF Idle
      <3>3. Streams' = IF Flag(n)' /\ p # Blank THEN {p} ELSE {}
        BY <2>3, <3>1 DEF Streams
      <3>4. Streams' = S
        BY <3>2, <3>3
      <3>5. q.action \in Writers
        BY <2>3 DEF Writers
      <3> HIDE DEF S
      <3>6. QED
        BY <2>1, <2>2, <2>3, <3>1, <3>2, <3>4, <3>5, WriterCipher
    <2>5. QED
      BY <2>1, <2>4, RefuseCipher
  <1>7. ASSUME NEW n \in Names, NEW p \in Passphrases, NEW action \in {"ENCRYPT", "DECRYPT"},
               Transform(action, n, p)
        PROVE  CipherInv'
    <2> DEFINE o == [NoOp EXCEPT !.action = action, !.name = n, !.passphrase = p]
               b == xor_cipher(storage[PathOf[n]], p)
               q == [o EXCEPT !.buf = b, !.ok = TRUE]
    <2>1. /\ UNCHANGED <<meta, harmed, misfiled>>
          /\ \/ CanTransform(action, n) /\ BeginFileOp(q, Reopening, 0)
             \/ Refuse(CanTransform(action, n))
      BY <1>7 DEF Transform, Reopening
    <2> HIDE DEF b
    <2>2. q.action = action /\ q.name = n /\ q.buf = b /\ q.ok
      BY DEF NoOp
    <2> HIDE DEF o, q
    <2>3. CASE CanTransform(action, n) /\ BeginFileOp(q, Reopening, 0)
      <3>1. Idle /\ op' = q /\ todo' = Reopening /\ UNCHANGED <<storage, plain, mixed>>
        BY <1>2, <2>3
      <3>2. q.action \in Transforms /\ q.buf = xor_cipher(storage[PathOf[q.name]], p)
        BY <2>2 DEF Transforms, b
      <3>3. QED
        BY <2>1, <2>2, <2>3, <3>1, <3>2, TransformCipher
    <2>4. QED
      BY <2>1, <2>3, RefuseCipher
  <1>8. ASSUME NEW n \in Names, NEW perm_str \in PermStrings, NEW text \in Contents,
               Create(n, perm_str, text)
        PROVE  CipherInv'
    <2> DEFINE o == [NoOp EXCEPT !.action = "CREATE", !.name = n, !.buf = Bytes(text)]
               q == [o EXCEPT !.ok = TRUE]
               failed(lost) == Overlooked(n) + lost
    <2>1. \/ \E lost \in {0, 1} :
               /\ perm_str \in ValidPerms /\ Creates(n, perm_str, lost)
               /\ BeginFileOp(q, Opening, failed(lost))
          \/ /\ Refuse(is_valid_perm_string(perm_str) /\ Overlooked(n) = 0)
             /\ UNCHANGED <<meta, marks>>
      BY <1>8 DEF Create, Creates, Opening, ValidPerms
    <2>2. q.action = "CREATE" /\ q.name = n /\ q.buf = Bytes(text) /\ q.passphrase = Blank
      BY DEF NoOp
    <2> HIDE DEF o, q, failed
    <2>3. ASSUME NEW lost \in {0, 1}, perm_str \in ValidPerms, Creates(n, perm_str, lost),
                 BeginFileOp(q, Opening, failed(lost))
          PROVE  CipherInv'
      <3>1. Idle /\ op' = q /\ todo' = Opening /\ UNCHANGED <<storage, plain, mixed>>
        BY <1>2, <2>3
      <3>2. Current = meta /\ Current' = meta' /\ misfiled \subseteq harmed
        BY <3>1, IdleAgrees, PlansDiffer DEF Current, Inv, TableInv
      <3>3. /\ harmed \subseteq harmed' /\ misfiled' \subseteq harmed'
            /\ n \notin misfiled' => n \notin FileNames(meta)
            /\ \A m \in Names \ (misfiled \cup {n}) :
                 m \in FileNames(meta) => find_file_meta(meta', m) = find_file_meta(meta, m)
        BY <2>3, <3>1, CreatedTable
      <3>4. ASSUME NEW m \in Names, m \notin harmed', Has(m) PROVE Flag(m)' <=> Flag(m)
        <4>1. m \in FileNames(meta) /\ m \notin misfiled /\ m # n
          BY <3>2, <3>3, <3>4 DEF Has
        <4>2. find_file_meta(meta', m) = find_file_meta(meta, m)
          BY <3>3, <4>1
        <4>3. QED
          BY <3>2, <4>2 DEF Flag
      <3>5. Streams' = {}
        BY <2>2, <3>1 DEF Streams
      <3>6. q.buf = Under(text, {}) /\ q.action \in Writers
        BY <2>2, BytesUnder DEF Writers
      <3>7. QED
        BY <3>1, <3>3, <3>4, <3>5, <3>6, WriterCipher
    <2>4. QED
      BY <2>1, <2>3, RefuseCipher
  <1>9. ASSUME \/ \E a \in Accounts : Register(a)
               \/ \E a \in Accounts, s \in {b.password : b \in Accounts} : Login(a.username, s)
               \/ Logout
        PROVE  CipherInv'
    BY <1>1, <1>9 DEF Register, Login, Logout, Prompt
  <1>10. QED
    BY <1>3, <1>4, <1>5, <1>6, <1>7, <1>8, <1>9 DEF LoginScreen, Menu

\* fopen: the content is gone, but for an append.
LEMMA OpenCipher ==
  ASSUME Inv, CipherInv, Open
  PROVE  CipherInv'
  <1> DEFINE data == storage[PathOf[op.name]]
             opened == IF op.action = "APPEND" /\ data # Missing THEN data ELSE << >>
  <1>1. /\ Step("open") /\ todo' = Tail(todo)
        /\ storage' = [storage EXCEPT ![PathOf[op.name]] = opened]
        /\ \E restored \in {{}, {op.name}} :
             /\ restored = {} \/ op.action = "CREATE"
             /\ harmed' = (harmed \ restored) \cup Aliases(op.name)
        /\ UNCHANGED <<meta, op, plain, mixed>>
    BY DEF Open, Step
  <1>2. /\ op.ok /\ op.name \in Names
        /\ \/ todo = Opening /\ todo' = Writing /\ op.action \in Writers
           \/ todo = Reopening /\ todo' = Reflushing /\ op.action \in Transforms
    BY <1>1, AtStep DEF Step, Inv
  <1>3. /\ todo \notin {LogOnly, Writing, Rewriting, Truncating, Reflushing}
        /\ todo' \notin {LogOnly, Rewriting, Truncating, Opening, Reopening}
    BY <1>2, PlansDiffer, PlanSteps
  <1>4. data \in Seq(Byte) \cup {Missing} /\ opened \in Seq(Byte) \cup {Missing}
    BY <1>2, ByteTypes DEF Inv, Types, FileTypes, Paths
  <1> HIDE DEF opened
  <1>5. /\ storage'[PathOf[op.name]] = opened
        /\ \A n \in Names : n # op.name /\ n \notin Aliases(op.name) =>
                            storage'[PathOf[n]] = storage[PathOf[n]]
    BY <1>1, <1>2, <1>4, PathWritten DEF Inv, Types
  <1>6. \A n : (Has(n)' <=> Has(n)) /\ Flag(n)' = Flag(n)
    BY <1>1, <1>3, SameTable
  <1>7. \A n : ~Loose(n)
    BY <1>3 DEF Loose
  <1>8. \A n : n \notin harmed' /\ (n # op.name \/ op.action # "CREATE") =>
               n \notin harmed /\ n \notin Aliases(op.name)
    BY <1>1
  <1>9. ContentInv'
    <2> SUFFICES ASSUME NEW n \in Names, n \notin mixed, n \notin harmed',
                        storage'[PathOf[n]] # Missing, ~Loose(n)'
                 PROVE  Content(n)'
      BY <1>1 DEF ContentInv
    <2>1. CASE n # op.name
      BY <1>1, <1>5, <1>6, <1>7, <1>8, <2>1, ContentStays DEF CipherInv
    <2>2. CASE n = op.name
      <3>1. op.action = "APPEND"
        BY <1>1, <1>2, <2>2 DEF Loose
      <3>2. todo = Opening /\ ~Busy /\ n \notin harmed
        BY <1>2, <1>8, <2>2, <3>1 DEF Transforms, Busy
      <3>3. n \in FileNames(meta)
        BY <2>2, <3>1, <3>2 DEF Inv, PermInv, Allowed
      <3>4. Has(n)
        BY <1>3, <3>3 DEF Has, Current
      <3>5. storage[PathOf[n]] # Missing
        BY <3>2, <3>4 DEF Inv, AgreeInv, Agree
      <3>6. storage'[PathOf[n]] = storage[PathOf[n]]
        BY <1>5, <2>2, <3>1, <3>5 DEF opened
      <3>7. QED
        BY <1>1, <1>6, <1>7, <3>2, <3>5, <3>6, ContentStays DEF CipherInv
    <2>3. QED
      BY <2>1, <2>2
  <1>10. BufferInv'
    <2>1. Streams' = Streams
      BY <1>1, <1>6 DEF Streams
    <2>2. todo' = Writing => op.buf = Under(Text(op.buf), Streams)
      <3>1. todo' = Writing => todo = Opening
        BY <1>2, PlansDiffer
      <3>2. QED
        BY <3>1 DEF CipherInv, BufferInv
    <2>3. op.action # "APPEND" => opened = << >>
      BY DEF opened
    <2>4. QED
      BY <1>1, <1>3, <1>5, <2>1, <2>2, <2>3 DEF BufferInv
  <1>11. ResultInv'
    BY <1>1, <1>2, <1>3, <1>8 DEF CipherInv, ResultInv, Writers, Transforms
  <1>12. ReadInv'
    BY <1>1, <1>2 DEF ReadInv, Writers, Transforms
  <1>13. QED
    BY <1>9, <1>10, <1>11, <1>12 DEF CipherInv

\* It fails, or the metadata file cannot be opened: only a log entry or the
\* record of a CREATE is left to do.
LEMMA FailCipher ==
  ASSUME Inv, CipherInv, OpenFails \/ TruncateFails
  PROVE  CipherInv'
  <1>1. /\ todo # << >> /\ Head(todo) \in {"open", "truncate"}
        /\ UNCHANGED <<meta, storage, plain, mixed>>
        /\ harmed' = IF TruncateFails /\ op.action # "CHMOD" THEN harmed \cup {op.name} ELSE harmed
        /\ todo' = LogOnly \/ (todo' = Truncating /\ op.action = "CREATE")
    BY PlanSteps DEF OpenFails, TruncateFails, Step, Rollback, LogOnly, Truncating, history, marks
  <1>2. /\ op'.action = op.action /\ op'.name = op.name
        /\ op'.ok => op.ok /\ TruncateFails
    BY DEF OpenFails, TruncateFails, Inv, Types, OpType, NoOp
  <1>3. /\ todo \in {Opening, Reopening, Truncating} /\ op.action # "READ"
        /\ TruncateFails => op.ok <=> op.action # "CREATE"
    BY <1>1, AtStep DEF Inv, Writers, Rewriters, Transforms, TruncateFails, Step
  <1>4. /\ todo \notin {Writing, Reflushing, Rewriting}
        /\ todo' \notin {Writing, Reflushing, Rewriting, Opening, Reopening}
    BY <1>1, <1>3, PlansDiffer, PlanSteps
  <1>5. \A n : (Has(n)' <=> Has(n)) /\ Flag(n)' = Flag(n)
    BY <1>1, <1>4, SameTable
  <1>6. ContentInv'
    <2> SUFFICES ASSUME NEW n \in Names, n \notin mixed, storage[PathOf[n]] # Missing, n \notin harmed'
                 PROVE  Content(n)'
      BY <1>1 DEF ContentInv
    <2>1. n \notin harmed /\ (TruncateFails /\ op.action # "CHMOD" => n # op.name)
      BY <1>1
    <2>2. ~Loose(n)
      <3>1. OpenFails => todo # Truncating
        BY PlanSteps DEF OpenFails, Step
      <3>2. QED
        BY <1>4, <2>1, <3>1 DEF Loose, Transforms
    <2>3. QED
      BY <1>1, <1>5, <2>1, <2>2, ContentStays DEF CipherInv
  <1>7. BufferInv' /\ ReadInv'
    BY <1>2, <1>3, <1>4 DEF BufferInv, ReadInv
  <1>8. ResultInv'
    BY <1>1, <1>2 DEF ResultInv, Transforms
  <1>9. QED
    BY <1>6, <1>7, <1>8 DEF CipherInv

\* The data do not reach the file, or the content is not removed.
LEMMA UnnoticedCipher ==
  ASSUME Inv, CipherInv, FlushFails \/ RemoveFails
  PROVE  CipherInv'
  <1>1. /\ todo # << >> /\ Head(todo) \in {"write", "remove"} /\ todo' = Tail(todo)
        /\ UNCHANGED <<meta, storage, op, plain, mixed>>
        /\ harmed \subseteq harmed' /\ (op.action # "APPEND" => op.name \in harmed')
    BY DEF FlushFails, RemoveFails, Step
  <1>2. \/ todo = Writing /\ todo' = LogOnly /\ op.action \in Writers
        \/ todo = Reflushing /\ todo' = Truncating /\ op.action \in Transforms
        \/ todo = Removing /\ todo' = Truncating /\ op.action = "DELETE"
    BY <1>1, AtStep DEF FlushFails, RemoveFails, Step, Inv
  <1>3. /\ todo \notin {Rewriting, Truncating}
        /\ todo' \notin {Writing, Reflushing, Opening, Reopening, Rewriting}
    BY <1>2, PlansDiffer, PlanSteps
  <1>4. \A n : Flag(n)' = Flag(n)
    BY <1>1, <1>3, SameTable
  <1>5. ContentInv'
    <2> SUFFICES ASSUME NEW n \in Names, n \notin mixed, storage[PathOf[n]] # Missing, n \notin harmed'
                 PROVE  Content(n)'
      BY <1>1 DEF ContentInv
    <2>1. n \notin harmed /\ ~Loose(n)
      BY <1>1, <1>3 DEF Loose
    <2>2. QED
      BY <1>1, <1>4, <2>1, ContentStays DEF CipherInv
  <1>6. BufferInv' /\ ReadInv'
    BY <1>1, <1>2, <1>3 DEF BufferInv, ReadInv, Writers, Transforms
  <1>7. ResultInv'
    BY <1>1 DEF ResultInv, Transforms
  <1>8. QED
    BY <1>5, <1>6, <1>7 DEF CipherInv

\* remove: there is no content any more.
LEMMA RemoveCipher ==
  ASSUME Inv, CipherInv, Remove
  PROVE  CipherInv'
  <1>1. /\ Step("remove") /\ todo' = Tail(todo)
        /\ storage' = [storage EXCEPT ![PathOf[op.name]] = Missing]
        /\ harmed' = harmed \cup Aliases(op.name)
        /\ UNCHANGED <<meta, op, plain, mixed>>
    BY DEF Remove, Step
  <1>2. op.name \in Names /\ todo = Removing /\ todo' = Truncating /\ op.action = "DELETE"
    BY <1>1, AtStep DEF Step, Inv
  <1>3. /\ todo \notin {Writing, Reflushing, Rewriting, Truncating}
        /\ todo' \notin {Writing, Reflushing, Rewriting, Opening}
    BY <1>2, PlansDiffer, PlanSteps
  <1>4. /\ storage'[PathOf[op.name]] = Missing
        /\ \A n \in Names : n # op.name /\ n \notin Aliases(op.name) =>
                            storage'[PathOf[n]] = storage[PathOf[n]]
    BY <1>1, <1>2, PathWritten DEF Inv, Types
  <1>5. \A n : (Has(n)' <=> Has(n)) /\ Flag(n)' = Flag(n)
    BY <1>1, <1>3, SameTable
  <1>6. \A n : ~Loose(n)
    BY <1>3 DEF Loose
  <1>7. ContentInv'
    <2> SUFFICES ASSUME NEW n \in Names, n \notin mixed, n \notin harmed', storage'[PathOf[n]] # Missing
                 PROVE  Content(n)'
      BY <1>1 DEF ContentInv
    <2>1. storage'[PathOf[n]] = storage[PathOf[n]] /\ n \notin harmed
      BY <1>1, <1>4
    <2>2. QED
      BY <1>1, <1>5, <1>6, <2>1, ContentStays DEF CipherInv
  <1>8. BufferInv' /\ ResultInv' /\ ReadInv'
    BY <1>1, <1>2, <1>3 DEF BufferInv, ResultInv, ReadInv, Transforms
  <1>9. QED
    BY <1>7, <1>8 DEF CipherInv

\* The metadata file is truncated.
LEMMA TruncateCipher ==
  ASSUME Inv, CipherInv, Truncate
  PROVE  CipherInv'
  <1>1. /\ Step("truncate") /\ todo' = Tail(todo)
        /\ UNCHANGED <<storage, op, plain, mixed>>
    BY DEF Truncate, Step
  <1>2. op.action \in Rewriters /\ todo = Truncating /\ todo' = Rewriting
    BY <1>1, AtStep DEF Step, Inv
  <1>3. todo' \notin {Writing, Reflushing, Opening, Reopening, LogOnly}
        /\ todo \notin {Writing, Reflushing}
    BY <1>2, PlansDiffer, PlanSteps
  <1>4. \A n : n \notin harmed' => n \notin harmed /\ (Has(n) => Flag(n)' = Flag(n))
    BY TruncateRecords
  <1>5. ContentInv'
    <2> SUFFICES ASSUME NEW n \in Names, n \notin mixed, n \notin harmed',
                        storage[PathOf[n]] # Missing, ~Loose(n)'
                 PROVE  Content(n)'
      BY <1>1 DEF ContentInv
    <2>1. ~Loose(n)
      BY <1>1, <1>2, <1>3 DEF Loose
    <2>2. QED
      BY <1>1, <1>4, <2>1, ContentStays DEF CipherInv
  <1>6. BufferInv' /\ ReadInv'
    BY <1>1, <1>2, <1>3 DEF BufferInv, ReadInv, Rewriters, Transforms
  <1>7. ResultInv'
    BY <1>1, <1>2, <1>3, <1>4 DEF CipherInv, ResultInv
  <1>8. QED
    BY <1>5, <1>6, <1>7 DEF CipherInv

\* The records are written back, with the flag of a transformed file, or lost.
LEMMA RewriteCipher ==
  ASSUME Inv, CipherInv, Rewrite \/ RewriteFails
  PROVE  CipherInv'
  <1>1. /\ Step("rewrite") /\ todo' = Tail(todo)
        /\ op' = [op EXCEPT !.ok = op.ok /\ (op.action = "CHMOD" => op.name \in FileNames(records))]
        /\ UNCHANGED <<storage, plain, mixed>> /\ harmed \subseteq harmed'
        /\ RewriteFails => harmed' = harmed \cup FileNames(records)
    BY DEF Rewrite, RewriteFails, WriteBack, Step
  <1>2. /\ op.name \in Names /\ op.action \in Rewriters /\ (op.ok <=> op.action # "CREATE")
        /\ todo = Rewriting /\ todo' = LogOnly
    BY <1>1, AtStep DEF Step, Inv
  <1>3. /\ op'.action = op.action /\ op'.name = op.name /\ (op'.ok => op.ok)
    BY <1>1 DEF Inv, Types, OpType, NoOp
  <1>4. /\ todo' \notin {Writing, Reflushing, Opening, Reopening, Truncating, Rewriting}
        /\ todo \notin {LogOnly, Writing, Reflushing, Removing}
    BY <1>2, PlansDiffer
  <1>5. Rewrite =>
          /\ \A n : n # op.name /\ n \notin misfiled =>
                    (Has(n)' <=> Has(n)) /\ (Has(n) => Flag(n)' = Flag(n))
          /\ op.action = "CHMOD" /\ op.name \notin misfiled =>
               (Has(op.name) => Flag(op.name)' = Flag(op.name))
          /\ op.action \in Transforms /\ op.name \notin misfiled =>
               (Has(op.name) => Flag(op.name)' = (op.action = "ENCRYPT"))
    BY RewriteRecords
  <1>6. ContentInv'
    <2> SUFFICES ASSUME NEW n \in Names, n \notin mixed, n \notin harmed', storage[PathOf[n]] # Missing
                 PROVE  Content(n)'
      BY <1>1 DEF ContentInv
    <2>1. n \notin harmed /\ n \notin misfiled /\ Has(n)
      BY <1>1, StoredHas DEF Inv, TableInv
    <2>2. Rewrite
      <3>1. Has(n) <=> n \in FileNames(records)
        BY <1>2 DEF Has, Current
      <3>2. QED
        BY <1>1, <2>1, <3>1
    <2>3. CASE n # op.name
      BY <1>1, <1>5, <2>1, <2>2, <2>3, ContentStays DEF CipherInv, Loose
    <2>4. CASE n = op.name /\ op.action \in {"CREATE", "DELETE"}
      <3>1. storage[PathOf[n]] = Missing
        BY <1>2, <1>4, <2>1, <2>4 DEF Inv, OpInv, RollbackInv, DeleteInv, Absent
      <3>2. QED
        BY <3>1
    <2>5. CASE n = op.name /\ op.action = "CHMOD"
      <3>1. ~Loose(n)
        BY <1>4, <2>5 DEF Loose, Transforms
      <3>2. Has(n) => Flag(n)' = Flag(n)
        BY <1>3, <1>5, <2>1, <2>2, <2>5
      <3>3. QED
        BY <1>1, <2>1, <3>1, <3>2, ContentStays DEF CipherInv
    <2>6. CASE n = op.name /\ op.action \in Transforms
      <3>1. op.ok
        BY <1>2, <2>6 DEF Transforms
      <3>2. PICK P \in SUBSET Passphrases :
              (Odd(P) <=> op.action = "ENCRYPT") /\ Coded(storage[PathOf[n]], plain[n], P)
        BY <1>2, <2>1, <2>6, <3>1 DEF CipherInv, ResultInv
      <3>3. Flag(n)' = (op.action = "ENCRYPT")
        BY <1>3, <1>5, <2>1, <2>2, <2>6
      <3>4. QED
        BY <1>1, <3>2, <3>3 DEF Content
    <2>7. QED
      BY <1>2, <2>3, <2>4, <2>5, <2>6 DEF Rewriters
  <1>7. BufferInv' /\ ReadInv'
    BY <1>2, <1>3, <1>4 DEF BufferInv, ReadInv, Rewriters, Transforms
  <1>8. ResultInv'
    BY <1>1, <1>3, <1>4 DEF CipherInv, ResultInv
  <1>9. QED
    BY <1>6, <1>7, <1>8 DEF CipherInv

\* An operation ends, with its log entry or in a crash.
LEMMA EndCipher ==
  ASSUME Inv, CipherInv, LogAction \/ LogFails \/ Crash
  PROVE  CipherInv'
  <1>1. /\ op' = NoOp /\ UNCHANGED <<meta, storage, plain, mixed>> /\ harmed \subseteq harmed'
        /\ Crash => /\ todo' = << >>
                    /\ harmed' = harmed \cup FileNames(records) \cup
                                   (IF HalfDone THEN {op.name} ELSE {})
        /\ ~Crash => Step("log") /\ todo' = Tail(todo)
    BY DEF LogAction, LogFails, Logged, Crash, files
  <1>2. ~Crash => todo = LogOnly /\ todo' = << >>
    BY <1>1, AtStep DEF Step, Inv
  <1>3. /\ todo' \notin {Writing, Reflushing, Opening, Reopening, Truncating, Rewriting}
        /\ NoOp.action = "none"
    BY <1>1, <1>2, PlanSteps DEF NoOp
  <1>4. ContentInv'
    <2> SUFFICES ASSUME NEW n \in Names, n \notin mixed, n \notin harmed', storage[PathOf[n]] # Missing
                 PROVE  Content(n)'
      BY <1>1 DEF ContentInv
    <2>1. n \notin harmed /\ Has(n)
      BY <1>1, StoredHas
    <2>2. todo # Rewriting
      <3>1. ASSUME todo = Rewriting PROVE FALSE
        <4>1. Crash
          BY <1>2, <3>1, PlansDiffer
        <4>2. n \notin FileNames(records) /\ Current = records
          BY <1>1, <3>1, <4>1 DEF Current
        <4>3. QED
          BY <2>1, <4>2 DEF Has
      <3>2. QED
        BY <3>1
    <2>3. ~Loose(n)
      <3>1. CASE ~Crash
        BY <1>2, <3>1, PlansDiffer DEF Loose
      <3>2. CASE Crash
        <4>1. HalfDone => n # op.name
          BY <1>1, <3>2
        <4>2. QED
          BY <2>2, <4>1, PlanSteps DEF Loose, HalfDone, Transforms
      <3>3. QED
        BY <3>1, <3>2
    <2>4. Flag(n)' = Flag(n)
      BY <1>1, <1>3, <2>2, SameTable
    <2>5. QED
      BY <1>1, <2>1, <2>3, <2>4, ContentStays DEF CipherInv
  <1>5. BufferInv' /\ ReadInv' /\ ResultInv'
    BY <1>1, <1>3 DEF BufferInv, ReadInv, ResultInv, Transforms
  <1>6. QED
    BY <1>4, <1>5 DEF CipherInv

\* One of two contents is empty, or neither has a stream on it.
Joins(u, v) == u = << >> \/ v = << >> \/ \A b \in {v, u} : \A i \in DOMAIN b : b[i].keys = {}

\* An append to a file that stays one text under whole streams.
LEMMA AppendCoded ==
  ASSUME NEW s \in Seq(Characters(Contents)), NEW t \in Seq(Characters(Contents)),
         NEW P, NEW Q, Under(s, P) \in Seq(Byte), Under(t, Q) \in Seq(Byte),
         Joins(Under(s, P), Under(t, Q))
  PROVE  \/ Under(s, P) \o Under(t, Q) = Under(s \o t, Q)
         \/ Under(s, P) \o Under(t, Q) = Under(s \o t, P)
  <1> DEFINE u == Under(s, P)  v == Under(t, Q)
  <1>1. CASE u = << >>
    <2>1. s = << >>
      BY <1>1, UnderText
    <2>2. u \o v = v /\ s \o t = t
      BY <1>1, <2>1
    <2>3. QED
      BY <2>2
  <1>2. CASE v = << >>
    <2>1. t = << >>
      BY <1>2, UnderText
    <2>2. u \o v = u /\ s \o t = s
      BY <1>2, <2>1
    <2>3. QED
      BY <1>2, <2>2
  <1>3. CASE u # << >> /\ v # << >>
    <2>1. ASSUME NEW q \in Seq(Characters(Contents)), NEW R, Under(q, R) # << >>,
                 \A i \in DOMAIN Under(q, R) : Under(q, R)[i].keys = {}
          PROVE  R = {}
      <3>1. q # << >> /\ DOMAIN Under(q, R) = 1 .. Len(q)
            /\ \A i \in 1 .. Len(q) : Under(q, R)[i].keys = KeysAt(R, (i - 1) % HashLen)
        BY <2>1, UnderText DEF KeysAt
      <3>2. 1 \in 1 .. Len(q)
        BY <3>1
      <3>3. PICK k : KeysAt(R, k) = {}
        BY <2>1, <3>1, <3>2
      <3>4. \A x \in R : <<x, k>> \in KeysAt(R, k)
        BY DEF KeysAt
      <3>5. QED
        BY <3>3, <3>4
    <2>2. P = {} /\ Q = {}
      BY <1>3, <2>1 DEF Joins
    <2>3. QED
      BY <2>2, UnderConcat
  <1>4. QED
    BY <1>1, <1>2, <1>3

\* fclose: the data reach the file.
LEMMA FlushCipher ==
  ASSUME Inv, CipherInv, Flush
  PROVE  CipherInv'
  <1> DEFINE n == op.name
             data == storage[PathOf[n]]
             keyed == \E b \in {op.buf, data} : \E i \in DOMAIN b : b[i].keys # {}
             mixes == CASE op.action = "WRITE" -> Encrypted(n) /\ op.passphrase = Blank
                        [] op.action = "APPEND" ->
                             \/ n \in mixed
                             \/ Encrypted(n) /\ op.passphrase = Blank
                             \/ keyed /\ data # << >> /\ op.buf # << >>
                        [] OTHER -> n \in mixed /\ op.action # "CREATE"
  <1>1. /\ Step("write") /\ todo' = Tail(todo)
        /\ storage' = [storage EXCEPT ![PathOf[n]] = data \o op.buf]
        /\ plain' = [plain EXCEPT ![n] = CASE op.action \in {"CREATE", "WRITE"} -> Text(op.buf)
                                           [] op.action = "APPEND" -> @ \o Text(op.buf)
                                           [] OTHER -> @]
        /\ mixed' = IF mixes THEN mixed \cup {n} ELSE mixed \ {n}
        /\ UNCHANGED <<meta, op, harmed>>
    BY DEF Flush, Step, marks
  <1> HIDE DEF keyed, mixes
  <1>2. /\ op.ok /\ n \in Names
        /\ \/ todo = Writing /\ todo' = LogOnly /\ op.action \in Writers
           \/ todo = Reflushing /\ todo' = Truncating /\ op.action \in Transforms
    BY <1>1, AtStep DEF Step, Inv
  <1>3. /\ todo \notin {Rewriting, Truncating}
        /\ todo' \notin {Writing, Reflushing, Opening, Reopening, Rewriting}
    BY <1>2, PlansDiffer, PlanSteps
  <1>4. /\ storage'[PathOf[n]] = data \o op.buf
        /\ \A m \in Names : m # n /\ m \notin harmed => storage'[PathOf[m]] = storage[PathOf[m]]
    <2>1. data \in Seq(Byte) /\ op.buf \in Seq(Byte) /\ Aliases(n) \subseteq harmed
      BY <1>2 DEF Inv, Types, FileTypes, OpType, StoredInv, Paths
    <2>2. data \o op.buf \in Seq(Byte)
      BY <2>1
    <2>3. QED
      BY <1>1, <1>2, <2>1, <2>2, PathWritten DEF Inv, Types
  <1>5. /\ op.action \in {"CREATE", "WRITE"} => plain'[n] = Text(op.buf)
        /\ op.action = "APPEND" => plain'[n] = plain[n] \o Text(op.buf)
        /\ op.action \in Transforms => plain'[n] = plain[n]
        /\ \A m \in Names : m # n => plain'[m] = plain[m]
        /\ n \in mixed' <=> mixes
        /\ \A m : m # n => (m \in mixed' <=> m \in mixed)
    BY <1>1, <1>2 DEF Inv, Types, FileTypes, HistoryTypes, Transforms
  <1>6. \A m : (Has(m)' <=> Has(m)) /\ Flag(m)' = Flag(m)
    BY <1>1, <1>3, SameTable
  <1>7. /\ op.buf \in Seq(Byte) /\ data \in Seq(Byte) /\ Text(op.buf) \in Seq(Characters(Contents))
        /\ plain[n] \in Seq(Characters(Contents))
    BY <1>2, ByteTypes DEF Inv, Types, FileTypes, HistoryTypes, OpType, StoredInv, Paths
  <1>8. Encrypted(n) = Flag(n)
    BY <1>3 DEF Encrypted, Flag, Current
  <1>9. op.action # "APPEND" => storage'[PathOf[n]] = op.buf
    <2>1. op.action # "APPEND" => data = << >>
      BY <1>2 DEF CipherInv, BufferInv
    <2>2. << >> \o op.buf = op.buf
      BY <1>7
    <2>3. QED
      BY <1>4, <1>5, <2>1, <2>2
  <1>10. /\ op.action \in Writers => op.buf = Under(Text(op.buf), Streams)
         /\ Streams \in SUBSET Passphrases /\ IsFiniteSet(Streams)
         /\ Odd(Streams) <=> (Flag(n) /\ op.passphrase # Blank)
    <2>1. op.action \in Writers => op.buf = Under(Text(op.buf), Streams)
      BY <1>2 DEF CipherInv, BufferInv, Writers, Transforms
    <2>2. op.passphrase \in Passphrases \cup {Blank}
      BY DEF Inv, Types, OpType
    <2>3. QED
      BY <2>1, <2>2, FewStreams DEF Streams
  <1>11. ASSUME todo = Writing, op.action \in {"CREATE", "WRITE"}, n \notin harmed
         PROVE  n \notin mixed' => Content(n)'
    <2>1. ~mixes => (Odd(Streams) <=> Flag(n))
      <3>1. CASE op.action = "CREATE"
        BY <1>2, <1>10, <1>11, <3>1 DEF Inv, TableInv, OpInv, CreateInv
      <3>2. CASE op.action = "WRITE"
        <4>1. mixes <=> Encrypted(n) /\ op.passphrase = Blank
          BY <3>2 DEF mixes
        <4>2. QED
          BY <1>8, <1>10, <4>1
      <3>3. QED
        BY <1>11, <3>1, <3>2
    <2>2. ~mixes => Content(n)'
      <3>1. storage'[PathOf[n]] = Under(plain'[n], Streams)
        BY <1>4, <1>5, <1>9, <1>10, <1>11 DEF Writers
      <3>2. QED
        BY <1>1, <1>6, <1>10, <2>1, <3>1 DEF Content, Coded
    <2>3. QED
      BY <1>4, <1>5, <2>2
  <1>12. ASSUME todo = Writing, op.action = "APPEND", n \notin harmed, n \notin mixed'
         PROVE  Content(n)'
    <2>1. /\ n \notin mixed /\ ~(Flag(n) /\ op.passphrase = Blank)
          /\ ~keyed \/ data = << >> \/ op.buf = << >>
      <3>1. mixes <=> \/ n \in mixed
                      \/ Encrypted(n) /\ op.passphrase = Blank
                      \/ keyed /\ data # << >> /\ op.buf # << >>
        BY <1>12 DEF mixes
      <3>2. QED
        BY <1>4, <1>5, <1>8, <1>12, <3>1
    <2>2. ~Loose(n) /\ data # Missing
      BY <1>3, <1>7, <1>12, ByteTypes DEF Loose
    <2>3. PICK P \in SUBSET Passphrases : Coded(data, plain[n], P) /\ (Odd(P) <=> Flag(n))
      BY <1>2, <1>12, <2>1, <2>2 DEF CipherInv, ContentInv, Content
    <2>4. data = Under(plain[n], P) /\ op.buf = Under(Text(op.buf), Streams)
      BY <1>10, <1>12, <2>3 DEF Coded, Writers
    <2>5. ~keyed => \A b \in {op.buf, data} : \A i \in DOMAIN b : b[i].keys = {}
      BY DEF keyed
    <2>6. \/ storage'[PathOf[n]] = Under(plain'[n], Streams)
          \/ storage'[PathOf[n]] = Under(plain'[n], P)
      <3>1. PICK x, t, S, u, v : /\ x = plain[n] /\ t = Text(op.buf) /\ S = Streams
                                 /\ u = data /\ v = op.buf
        OBVIOUS
      <3>2. u \in Seq(Byte) /\ v \in Seq(Byte)
            /\ x \in Seq(Characters(Contents)) /\ t \in Seq(Characters(Contents))
        BY <1>7, <3>1
      <3>3. u = Under(x, P) /\ v = Under(t, S)
        BY <2>4, <3>1
      <3>4. Joins(u, v)
        BY <2>1, <2>5, <3>1 DEF Joins
      <3>5. u \o v = Under(x \o t, S) \/ u \o v = Under(x \o t, P)
        <4>1. /\ Under(x, P) \in Seq(Byte) /\ Under(t, S) \in Seq(Byte)
              /\ Joins(Under(x, P), Under(t, S))
          BY <3>2, <3>3, <3>4
        <4>2. \/ Under(x, P) \o Under(t, S) = Under(x \o t, S)
              \/ Under(x, P) \o Under(t, S) = Under(x \o t, P)
          BY <3>2, <4>1, AppendCoded
        <4>3. QED
          BY <3>3, <4>2
      <3>6. storage'[PathOf[n]] = u \o v /\ plain'[n] = x \o t
        BY <1>4, <1>5, <1>12, <3>1
      <3>7. QED
        BY <3>1, <3>5, <3>6
    <2>7. Odd(Streams) <=> Flag(n)
      BY <1>10, <2>1
    <2>8. QED
      BY <1>1, <1>6, <1>10, <2>3, <2>6, <2>7 DEF Content, Coded
  <1>13. ContentInv'
    <2> SUFFICES ASSUME NEW m \in Names, m \notin mixed', storage'[PathOf[m]] # Missing, ~Loose(m)',
                        m \notin harmed
                 PROVE  Content(m)'
      BY <1>1 DEF ContentInv
    <2>1. CASE m # n
      <3>1. ~Loose(m)
        BY <2>1 DEF Loose
      <3>2. QED
        BY <1>4, <1>5, <1>6, <2>1, <3>1, ContentStays DEF CipherInv
    <2>2. CASE m = n
      <3>1. todo = Writing /\ op.action \in Writers
        BY <1>1, <1>2, <2>2 DEF Loose
      <3>2. QED
        BY <1>1, <1>11, <1>12, <2>2, <3>1 DEF Writers
    <2>3. QED
      BY <2>1, <2>2
  <1>14. ResultInv'
    <2> SUFFICES ASSUME op.action \in Transforms, n \notin harmed, n \notin mixed'
                 PROVE  \E P \in SUBSET Passphrases :
                          (Odd(P) <=> op.action = "ENCRYPT") /\ Coded(storage'[PathOf[n]], plain'[n], P)
      BY <1>1, <1>3 DEF ResultInv
    <2>1. op.action \notin Writers /\ todo = Reflushing
      BY <1>2 DEF Writers, Transforms
    <2>2. mixes <=> n \in mixed
      BY DEF mixes, Transforms
    <2>3. n \notin mixed
      BY <1>4, <1>5, <2>2
    <2>4. PICK P \in SUBSET Passphrases :
            (Odd(P) <=> op.action = "ENCRYPT") /\ Coded(op.buf, plain[n], P)
      BY <1>2, <2>1, <2>3 DEF CipherInv, ResultInv
    <2>5. storage'[PathOf[n]] = op.buf /\ plain'[n] = plain[n]
      BY <1>4, <1>5, <1>9 DEF Transforms
    <2>6. QED
      BY <2>4, <2>5
  <1>15. BufferInv' /\ ReadInv'
    BY <1>1, <1>2, <1>3 DEF BufferInv, ReadInv, Writers, Transforms
  <1>16. QED
    BY <1>13, <1>14, <1>15 DEF CipherInv

LEMMA CipherInit ==
  ASSUME Init
  PROVE  CipherInv
  <1>1. /\ todo = << >> /\ op.action = "none" /\ storage = [p \in Paths |-> Missing]
    BY DEF Init, NoOp
  <1>2. todo \notin {Writing, Reflushing, Opening, Reopening}
    BY <1>1, PlanSteps
  <1>3. \A n \in Names : storage[PathOf[n]] = Missing
    BY <1>1 DEF Paths
  <1>4. QED
    BY <1>1, <1>2, <1>3 DEF CipherInv, ContentInv, BufferInv, ResultInv, ReadInv, Transforms

LEMMA CipherStep ==
  ASSUME Inv, CipherInv, [Next]_vars
  PROVE  CipherInv'
  <1>1. ASSUME UNCHANGED <<files, op, todo, records, out_buffer, history>> PROVE CipherInv'
    <2>1. UNCHANGED <<meta, storage, op, todo, records, out_buffer, plain, mixed, harmed>>
      BY <1>1 DEF files, history, marks
    <2>2. \A n : (Has(n)' <=> Has(n)) /\ Flag(n)' = Flag(n)
      BY <2>1 DEF Has, Flag, Current
    <2>3. ContentInv'
      BY <2>1, <2>2 DEF CipherInv, ContentInv, Content, Loose
    <2>4. BufferInv'
      BY <2>1, <2>2 DEF CipherInv, BufferInv, Streams
    <2>5. ResultInv' /\ ReadInv'
      BY <2>1 DEF CipherInv, ResultInv, ReadInv, Decode, Encrypted
    <2>6. QED
      BY <2>3, <2>4, <2>5 DEF CipherInv
  <1>2. CASE Exit
    BY <1>1, <1>2 DEF Exit
  <1>3. CASE (LoginScreen \/ Menu) /\ ~Exit
    BY <1>3, PromptCipher
  <1>4. CASE Work
    BY <1>4, OpenCipher, FailCipher, FlushCipher, UnnoticedCipher, RemoveCipher, TruncateCipher,
       RewriteCipher, EndCipher DEF Work
  <1>5. CASE Start
    BY <1>1, <1>5 DEF Start
  <1>6. CASE Crash
    BY <1>6, EndCipher
  <1>7. CASE UNCHANGED vars \/ InvalidChoice
    BY <1>1, <1>7 DEF InvalidChoice, vars, process
  <1>8. QED
    BY <1>2, <1>3, <1>4, <1>5, <1>6, <1>7 DEF Next

\* What every content is, at every step of every operation.
THEOREM CipherInvariance == Spec => []CipherInv
  <1>1. Init => CipherInv
    BY CipherInit
  <1>2. Inv /\ CipherInv /\ [Next]_vars => CipherInv'
    BY CipherStep
  <1>3. QED
    BY <1>1, <1>2, Invariance, PTL DEF Spec

\* Encryptions and decryptions with any passphrases, in any order, never lose a
\* text: its content is the text under whole key streams.
THEOREM RecoverableCorrect == Spec => []Recoverable
  <1>1. ASSUME Inv, CipherInv PROVE Recoverable
    <2> SUFFICES ASSUME NEW n \in Settled, n \notin mixed, storage[PathOf[n]] # Missing
                 PROVE  \E P \in SUBSET Passphrases :
                          /\ storage[PathOf[n]] = Under(plain[n], P)
                          /\ Cardinality(P) % 2 = 1 <=> Encrypted(n)
      BY DEF Recoverable
    <2>1. n \in Names /\ n \notin harmed /\ Current = meta
      BY <1>1, SettledAgree
    <2>2. todo = << >> \/ n # op.name
      BY DEF Settled
    <2>3. ~Loose(n)
      BY <2>2, PlanSteps DEF Loose
    <2>4. Content(n)
      BY <1>1, <2>1, <2>3 DEF CipherInv, ContentInv
    <2>5. QED
      BY <2>1, <2>4 DEF Content, Coded, Odd, Flag, Encrypted
  <1>2. QED
    BY <1>1, Invariance, CipherInvariance, PTL

\* The beginning of a content is that of its text, under the same streams.
LEMMA BeginningUnder ==
  ASSUME NEW t \in Seq(Characters(Contents)), NEW P
  PROVE  Beginning(Under(t, P)) = Under(Beginning(t), P) /\ Beginning(t) \in Seq(Characters(Contents))
  <1> DEFINE k == IF Len(t) < MaxRead THEN Len(t) ELSE MaxRead
             u == Under(t, P)
             b(i) == [char |-> t[i], keys |-> P \X {(i - 1) % HashLen}]
  <1>1. Len(t) \in Nat /\ DOMAIN t = 1 .. Len(t)
    OBVIOUS
  <1>2. k \in Nat /\ k <= Len(t)
    BY <1>1, ConstantsAssumption
  <1>3. u = [i \in 1 .. Len(t) |-> b(i)]
    BY <1>1 DEF Under
  <1>4. Len(u) = Len(t)
    <2> HIDE DEF b
    <2>1. QED
      BY <1>1, <1>3
  <1>5. Beginning(t) = SubSeq(t, 1, k) /\ Beginning(u) = SubSeq(u, 1, k)
    BY <1>4 DEF Beginning
  <1> HIDE DEF k
  <1>6. /\ Beginning(t) \in Seq(Characters(Contents)) /\ DOMAIN Beginning(t) = 1 .. k
        /\ \A i \in 1 .. k : Beginning(t)[i] = t[i]
    BY <1>1, <1>2, <1>5
  <1>7. SubSeq(u, 1, k) = [i \in 1 .. k |-> b(i)]
    <2> HIDE DEF b, u
    <2>1. SubSeq(u, 1, k) = [i \in 1 .. k |-> u[i]]
      BY <1>2
    <2>2. \A i \in 1 .. k : u[i] = b(i)
      BY <1>1, <1>2, <1>3
    <2>3. QED
      BY <2>1, <2>2
  <1>8. Under(Beginning(t), P) = [i \in 1 .. k |-> b(i)]
    BY <1>6 DEF Under
  <1>9. QED
    BY <1>5, <1>6, <1>7, <1>8

\* A read gives back the beginning of the text last written.
THEOREM ReadsBackCorrect == Spec => []ReadsBack
  <1>1. ASSUME Inv, CipherInv PROVE ReadsBack
    <2> DEFINE n == op.name
               p == op.passphrase
               P == IF Encrypted(n) THEN {p} ELSE {}
               t == plain[n]
    <2> SUFFICES ASSUME op.action = "READ", op.ok, storage[PathOf[n]] = Under(t, P),
                        p # Blank \/ ~Encrypted(n)
                 PROVE  out_buffer = Bytes(Beginning(t))
      BY DEF ReadsBack, Beginning
    <2>1. n \in Names
      BY <1>1, PlanSteps DEF Inv, Plan, FileActions, NoOp
    <2>2. t \in Seq(Characters(Contents))
      BY <1>1, <2>1 DEF Inv, Types, HistoryTypes
    <2>3. out_buffer = Decode(n, Beginning(Under(t, P)), p)
      BY <1>1 DEF CipherInv, ReadInv
    <2>4. Beginning(Under(t, P)) = Under(Beginning(t), P) /\ Beginning(t) \in Seq(Characters(Contents))
      BY <2>2, BeginningUnder
    <2>5. CASE Encrypted(n)
      <3>1. xor_cipher(Under(Beginning(t), {p}), p) = Under(Beginning(t), Toggle({p}, p))
        BY <2>4, XorUnder
      <3>2. Toggle({p}, p) = {}
        BY DEF Toggle
      <3>3. out_buffer = xor_cipher(Under(Beginning(t), {p}), p)
        BY <2>3, <2>4, <2>5 DEF Decode
      <3>4. QED
        BY <3>1, <3>2, <3>3, BytesUnder
    <2>6. CASE ~Encrypted(n)
      BY <2>3, <2>4, <2>6, BytesUnder DEF Decode
    <2>7. QED
      BY <2>5, <2>6
  <1>2. QED
    BY <1>1, Invariance, CipherInvariance, PTL

=============================================================================
