----------------------------- MODULE FileManager -----------------------------
(***************************************************************************)
(* The file manager of task3_filesystem_security: the accounts of auth.c,  *)
(* the operations of fileops.c on the metadata (FmsMeta) and the stored    *)
(* contents, the audit log, and the login screen and menu of main.c.       *)
(*                                                                         *)
(* One process does everything, and may crash between any two writes to    *)
(* its files.  An operation begins with one step that reads and decides,   *)
(* and leaves behind the writes still to do (todo), one step each: opening *)
(* a file for writing truncates it, and the data reach it at fclose.       *)
(***************************************************************************)
EXTENDS FmsMeta

CONSTANTS
  Names,         \* file names
  PathOf,        \* the path each of them leads to: "./a" and "a" name one file
  Missing,       \* the content of a file that is not there
  Accounts,      \* what may be typed to register: [username, password, group]
  PermStrings,   \* permission strings that may be typed
  Contents,      \* contents that may be typed: sequences of characters
  Passphrases,   \* passphrases that may be typed
  HashLen,       \* HASH_LEN, the period of the key stream
  MaxRead,       \* sizeof(read_buf) - 1
  MaxAccounts,   \* bound: accounts registered
  MaxEvents      \* bound: operations that write to a file, crashes, failed calls

Blank  == "blank"    \* an empty line
NoName == "none"     \* the target of an entry that is about no file
NoUser == [username |-> Blank, password |-> Blank, group |-> Blank]

Characters(strings) == UNION {{s[i] : i \in DOMAIN s} : s \in strings}

\* A stored character, and the key bytes that have been XORed onto it.
Byte == [char : Characters(Contents), keys : SUBSET (Passphrases \X (0 .. HashLen - 1))]

Paths == {PathOf[n] : n \in Names}

\* The other names that lead to the file of n.
Aliases(n) == {m \in Names \ {n} : PathOf[m] = PathOf[n]}

ASSUME NamesAssumption == NoName \notin Names
ASSUME StringsAssumption ==
  /\ Contents \subseteq Seq(Characters(Contents))
  /\ PermStrings \subseteq Seq(Characters(PermStrings))
ASSUME MissingAssumption == Missing \notin Seq(Byte)
ASSUME ConstantsAssumption ==
  /\ HashLen \in Nat \ {0} /\ MaxRead \in Nat \ {0}
  /\ MaxAccounts \in Nat /\ MaxEvents \in Nat

VARIABLES
  \* the files: users.dat, files_meta.dat, storage/ by path, and of audit.log,
  \* for each file name, the last successful entry that created, deleted,
  \* encrypted or decrypted it
  users, meta, storage, audit,
  \* the process: whether it runs, the session's user, the operation, the writes
  \* it has left, and the records a rewrite has in memory
  running, current_user, op, todo, records,
  \* what the last fs_read_file gave its caller
  out_buffer,
  \* history: the text last written to each file; the files whose content is
  \* not one text under whole key streams any more; the files whose metadata,
  \* content or log entry a fault, or a write under another name, has cost; the
  \* files and users a failed call has given a wrong number of records; and the
  \* count MaxEvents bounds
  plain, mixed, harmed, misfiled, twins, events

files   == <<users, meta, storage, audit>>
process == <<running, current_user, op, todo, records>>
marks   == <<harmed, misfiled>>
history == <<plain, mixed, marks, twins>>
vars    == <<files, process, out_buffer, history, events>>

NoOp == [action |-> "none", name |-> NoName, perm_str |-> << >>, buf |-> << >>,
         passphrase |-> Blank, ok |-> FALSE]

Init ==
  /\ users = << >> /\ meta = << >>
  /\ storage = [p \in Paths |-> Missing]
  /\ audit = [n \in Names |-> "none"]
  /\ running = TRUE /\ current_user = NoUser
  /\ op = NoOp /\ todo = << >> /\ records = << >>
  /\ out_buffer = << >>
  /\ plain = [n \in Names |-> << >>] /\ mixed = {}
  /\ harmed = {} /\ misfiled = {} /\ twins = {}
  /\ events = 0

-----------------------------------------------------------------------------
(* xor_cipher.  A key byte is a passphrase and a position in its hash, and *)
(* XORing it a second time takes it off the character.                     *)

Toggle(S, x) == IF x \in S THEN S \ {x} ELSE S \cup {x}

\* A key stream that never wraps round.
XorNoWrap(buffer, passphrase) ==
  [i \in DOMAIN buffer |->
    [buffer[i] EXCEPT !.keys = Toggle(@, <<passphrase, i - 1>>)]]

xor_cipher(buffer, passphrase) ==
  [i \in DOMAIN buffer |->
    [buffer[i] EXCEPT !.keys = Toggle(@, <<passphrase, (i - 1) % HashLen>>)]]

Bytes(text) == [i \in DOMAIN text |-> [char |-> text[i], keys |-> {}]]
Text(buf)   == [i \in DOMAIN buf |-> buf[i].char]

-----------------------------------------------------------------------------
(* The prompts.                                                            *)

Idle == running /\ todo = << >>

\* A prompt of the login screen ("nobody") or of the menu.
Prompt(user) == Idle /\ (current_user = NoUser <=> user = "nobody")

\* The operation o begins; what it has left to do is steps.
Begin(o, steps) ==
  /\ op' = o
  /\ todo' = steps
  /\ UNCHANGED <<running, records>>

\* The same from the menu; failed is the number of C library calls that fail.
BeginFileOp(o, steps, failed) ==
  LET cost == failed + IF steps = <<"log">> THEN 0 ELSE 1 IN
  /\ Prompt("somebody")
  /\ events + cost <= MaxEvents
  /\ events' = events + cost
  /\ Begin(o, steps)
  /\ UNCHANGED <<users, storage, audit, current_user, plain, mixed, twins>>

\* The operation is refused, which leaves nothing to do but to log it: what was
\* typed denies it or (then ok) a file cannot be opened or there is no memory.
Refuse(ok) == BeginFileOp(NoOp, <<"log">>, IF ok THEN 1 ELSE 0)

\* A call of the C library fails, or does not.
Fault   == events < MaxEvents /\ events' = events + 1
NoFault == UNCHANGED events

-----------------------------------------------------------------------------
(* The login screen.                                                       *)

find_user(username) == {i \in DOMAIN users : users[i].username = username}

\* register_user: blank names and passwords and known names are refused.  A name
\* is also taken for unknown if users.dat cannot be opened to look for it, and
\* an account may not reach the file.
Register(a) ==
  LET valid == a.username # Blank /\ a.password # Blank
      known == find_user(a.username) # {} IN
  /\ Prompt("nobody")
  /\ \/ /\ valid /\ Len(users) < MaxAccounts
        /\ users' = Append(users, a)
        /\ IF known THEN Fault /\ twins' = twins \cup {a.username}
                    ELSE NoFault /\ UNCHANGED twins
     \/ /\ IF valid /\ ~known THEN Fault ELSE NoFault
        /\ UNCHANGED <<users, twins>>
  /\ Begin([NoOp EXCEPT !.action = "REGISTER"], <<"log">>)
  /\ UNCHANGED <<meta, storage, audit, current_user, out_buffer, plain, mixed, marks>>

\* login_user: the first record with the name, if its hash is the password's and
\* users.dat can be opened.
Login(username, password) ==
  LET found == find_user(username)
      ok    == found # {} /\ users[Min(found)].password = password IN
  /\ Prompt("nobody")
  /\ \/ ok /\ NoFault /\ current_user' = users[Min(found)]
     \/ (IF ok THEN Fault ELSE NoFault) /\ current_user' = NoUser
  /\ Begin([NoOp EXCEPT !.action = "LOGIN"], <<"log">>)
  /\ UNCHANGED <<files, out_buffer, history>>

Exit ==
  /\ Prompt("nobody")
  /\ running' = FALSE
  /\ UNCHANGED <<files, current_user, op, todo, records, out_buffer, history, events>>

\* main, again.
Start ==
  /\ ~running
  /\ running' = TRUE
  /\ UNCHANGED <<files, current_user, op, todo, records, out_buffer, history, events>>

\* A choice that is none.  When the input has ended every choice is: read_line
\* makes blank lines of it, so that the operation being typed goes on with what
\* is blank already, and then nothing happens any more.
InvalidChoice == Idle /\ UNCHANGED vars

-----------------------------------------------------------------------------
(* The menu: the first step of each operation.                             *)

\* A file that is found, with the permission asked for.
Allowed(n, perm) ==
  n \in FileNames(meta) /\ check_permission(current_user, find_file_meta(meta, n), perm)

Encrypted(n) == find_file_meta(meta, n).is_encrypted

\* create_file_meta that does not look for the name first.
NotLookedFor(n) == 0

\* The calls that must fail for find_file_meta to tell create_file_meta that
\* there is no record with the name.
Overlooked(n) == IF n \in FileNames(meta) THEN 1 ELSE 0

\* fs_create_file: the record is appended before the content is stored.  It may
\* be the second one with the name, or be lost on its way to the file; nobody
\* notices.
Create(n, perm_str, text) ==
  LET o     == [NoOp EXCEPT !.action = "CREATE", !.name = n, !.buf = Bytes(text)]
      valid == is_valid_perm_string(perm_str) IN
  /\ \/ \E lost \in {0, 1} :
          LET failed == Overlooked(n) + lost IN
          /\ valid
          /\ meta' = IF lost = 1 THEN meta
                     ELSE create_file_meta(meta, n, current_user.username,
                                           current_user.group, perm_str)
          /\ misfiled' = IF failed = 0 THEN misfiled \ {n} ELSE misfiled \cup {n}
          /\ harmed' = IF failed = 0 THEN harmed ELSE harmed \cup {n}
          /\ BeginFileOp([o EXCEPT !.ok = TRUE], <<"open", "write", "log">>, failed)
     \/ /\ Refuse(valid /\ Overlooked(n) = 0)
        /\ UNCHANGED <<meta, marks>>
  /\ UNCHANGED out_buffer

\* A read that takes the passphrase for the file's state.
DecodeAlways(n, buf, passphrase) ==
  IF passphrase # Blank THEN xor_cipher(buf, passphrase) ELSE buf

\* What xor_cipher makes of data on their way from or to the file.
Decode(n, buf, passphrase) ==
  IF Encrypted(n) /\ passphrase # Blank THEN xor_cipher(buf, passphrase) ELSE buf

\* fs_read_file
ReadFile(n, passphrase) ==
  LET o    == [NoOp EXCEPT !.action = "READ", !.name = n, !.passphrase = passphrase]
      data == storage[PathOf[n]]
      ok   == Allowed(n, PERM_READ) /\ data # Missing
      read == SubSeq(data, 1, IF Len(data) < MaxRead THEN Len(data) ELSE MaxRead) IN
  /\ \/ /\ ok
        /\ out_buffer' = Decode(n, read, passphrase)
        /\ BeginFileOp([o EXCEPT !.ok = TRUE], <<"log">>, 0)
     \/ Refuse(ok) /\ out_buffer' = << >>
  /\ UNCHANGED <<meta, marks>>

\* fs_write_file, to overwrite or to append.
WriteFile(action, n, passphrase, text) ==
  LET o == [NoOp EXCEPT !.action = action, !.name = n, !.passphrase = passphrase] IN
  /\ \/ /\ Allowed(n, PERM_WRITE)
        /\ BeginFileOp([o EXCEPT !.buf = Decode(n, Bytes(text), passphrase), !.ok = TRUE],
                       <<"open", "write", "log">>, 0)
     \/ Refuse(Allowed(n, PERM_WRITE))
  /\ UNCHANGED <<meta, out_buffer, marks>>

\* fs_delete_file: the content goes before the metadata.
DeleteFile(n) ==
  LET o == [NoOp EXCEPT !.action = "DELETE", !.name = n] IN
  /\ \/ /\ Allowed(n, PERM_WRITE)
        /\ BeginFileOp([o EXCEPT !.ok = TRUE], <<"remove", "truncate", "rewrite", "log">>, 0)
     \/ Refuse(Allowed(n, PERM_WRITE))
  /\ UNCHANGED <<meta, out_buffer, marks>>

\* chmod_file, for any user; whether the name was found is seen in the rewrite.
Chmod(n, perm_str) ==
  LET o  == [NoOp EXCEPT !.action = "CHMOD", !.name = n, !.perm_str = perm_str]
      ok == is_valid_perm_string(perm_str) IN
  /\ IF ok THEN BeginFileOp([o EXCEPT !.ok = TRUE], <<"truncate", "rewrite", "log">>, 0)
           ELSE Refuse(ok)
  /\ UNCHANGED <<meta, out_buffer, marks>>

\* transform_file without its look at the file's state.
TransformAny(action, n) == Allowed(n, PERM_WRITE) /\ storage[PathOf[n]] # Missing

\* transform_file's conditions.
CanTransform(action, n) ==
  /\ Allowed(n, PERM_WRITE)
  /\ Encrypted(n) <=> action = "DECRYPT"
  /\ storage[PathOf[n]] # Missing

\* fs_encrypt_file and fs_decrypt_file: the whole content is read and XORed,
\* then written, then the flag is changed.  A blank passphrase is a passphrase.
Transform(action, n, passphrase) ==
  LET o == [NoOp EXCEPT !.action = action, !.name = n, !.passphrase = passphrase] IN
  /\ \/ /\ CanTransform(action, n)
        /\ BeginFileOp([o EXCEPT !.buf = xor_cipher(storage[PathOf[n]], passphrase), !.ok = TRUE],
                       <<"open", "write", "truncate", "rewrite", "log">>, 0)
     \/ Refuse(CanTransform(action, n))
  /\ UNCHANGED <<meta, out_buffer, marks>>

Logout ==
  /\ Prompt("somebody")
  /\ Begin([NoOp EXCEPT !.action = "LOGOUT"], <<"log">>)
  /\ UNCHANGED <<files, current_user, out_buffer, history, events>>

-----------------------------------------------------------------------------
(* The writes an operation has left to do.                                 *)

Step(s) ==
  /\ running
  /\ todo # << >>
  /\ Head(todo) = s
  /\ out_buffer' = IF s = "log" THEN << >> ELSE out_buffer
  /\ UNCHANGED <<users, running>>

\* fopen of the content: "wb" truncates it, "ab" creates it if need be.  A file
\* that is created anew, with one record, is in order again; the names that lead
\* to the same content are not.
Open ==
  LET restored == IF op.action = "CREATE" /\ op.name \notin misfiled THEN {op.name} ELSE {} IN
  /\ Step("open")
  /\ storage' = [storage EXCEPT ![PathOf[op.name]] =
                   IF op.action = "APPEND" /\ @ # Missing THEN @ ELSE << >>]
  /\ harmed' = (harmed \ restored) \cup Aliases(op.name)
  /\ todo' = Tail(todo)
  /\ UNCHANGED <<meta, audit, current_user, op, records, plain, mixed, misfiled, twins, events>>

\* A failed fs_create_file that leaves its record behind.
NoRollback(action) == <<"log">>

\* fs_create_file takes its record back when it fails, fs_write_file gives up.
Rollback(action) == IF action = "CREATE" THEN <<"truncate", "rewrite", "log">> ELSE <<"log">>

\* fopen of the content fails.  transform_file does not look, and crashes.
OpenFails ==
  /\ Step("open")
  /\ op.action \in {"CREATE", "WRITE", "APPEND"}
  /\ Fault
  /\ op' = [op EXCEPT !.ok = FALSE]
  /\ todo' = Rollback(op.action)
  /\ UNCHANGED <<meta, storage, audit, current_user, records, history>>

\* The data are flushed.  plain and mixed record what this does to the text:
\* a blank passphrase on an encrypted file, and an append of or to XORed text,
\* leave something that is no longer one text under whole key streams.
Flush ==
  LET n     == op.name
      data  == storage[PathOf[n]]
      keyed == \E b \in {op.buf, data} : \E i \in DOMAIN b : b[i].keys # {}
      mixes == CASE op.action = "WRITE" -> Encrypted(n) /\ op.passphrase = Blank
                 [] op.action = "APPEND" ->
                      \/ n \in mixed
                      \/ Encrypted(n) /\ op.passphrase = Blank
                      \/ keyed /\ data # << >> /\ op.buf # << >>
                 [] OTHER -> n \in mixed /\ op.action # "CREATE" IN
  /\ Step("write")
  /\ storage' = [storage EXCEPT ![PathOf[n]] = @ \o op.buf]
  /\ plain' = [plain EXCEPT ![n] =
       CASE op.action \in {"CREATE", "WRITE"} -> Text(op.buf)
         [] op.action = "APPEND" -> @ \o Text(op.buf)
         [] OTHER -> @]
  /\ mixed' = IF mixes THEN mixed \cup {n} ELSE mixed \ {n}
  /\ todo' = Tail(todo)
  /\ UNCHANGED <<meta, audit, current_user, op, records, marks, twins, events>>

\* The data do not reach the file, and nobody looks.
FlushFails ==
  /\ Step("write")
  /\ Fault
  /\ harmed' = IF op.action = "APPEND" THEN harmed ELSE harmed \cup {op.name}
  /\ todo' = Tail(todo)
  /\ UNCHANGED <<meta, storage, audit, current_user, op, records, plain, mixed, misfiled, twins>>

\* remove(path).
Remove ==
  /\ Step("remove")
  /\ storage' = [storage EXCEPT ![PathOf[op.name]] = Missing]
  /\ harmed' = harmed \cup Aliases(op.name)
  /\ todo' = Tail(todo)
  /\ UNCHANGED <<meta, audit, current_user, op, records, plain, mixed, misfiled, twins, events>>

\* It fails; what it returns is not looked at.
RemoveFails ==
  /\ Step("remove")
  /\ Fault
  /\ harmed' = harmed \cup {op.name}
  /\ todo' = Tail(todo)
  /\ UNCHANGED <<meta, storage, audit, current_user, op, records, plain, mixed, misfiled, twins>>

\* rewrite_meta_matching reads the records and opens the file "wb".
Truncate ==
  /\ Step("truncate")
  /\ records' = Read(meta)
  /\ meta' = << >>
  /\ harmed' = harmed \cup (FileNames(meta) \ FileNames(Read(meta)))
  /\ todo' = Tail(todo)
  /\ UNCHANGED <<storage, audit, current_user, op, plain, mixed, misfiled, twins, events>>

\* The file cannot be opened, to be read or to be written; only chmod_file's
\* caller looks at the result.
TruncateFails ==
  /\ Step("truncate")
  /\ Fault
  /\ op' = [op EXCEPT !.ok = op.ok /\ op.action # "CHMOD"]
  /\ harmed' = IF op.action = "CHMOD" THEN harmed ELSE harmed \cup {op.name}
  /\ todo' = <<"log">>
  /\ UNCHANGED <<meta, storage, audit, current_user, records, plain, mixed, misfiled, twins>>

\* The records that were read are on their way back; found says whether the one
\* in question was among them.
WriteBack ==
  /\ Step("rewrite")
  /\ op' = [op EXCEPT !.ok = op.ok /\ (op.action = "CHMOD" => op.name \in FileNames(records))]
  /\ records' = << >>
  /\ todo' = Tail(todo)
  /\ UNCHANGED <<storage, audit, current_user, plain, mixed, misfiled, twins>>

\* They are written, with that one changed.
Rewrite ==
  /\ WriteBack
  /\ meta' = CASE op.action \in {"CREATE", "DELETE"} -> delete_file_meta(records, op.name)
               [] op.action = "CHMOD" -> chmod_file(records, op.name, op.perm_str)
               [] OTHER -> set_encrypted_flag(records, op.name, op.action = "ENCRYPT")
  /\ UNCHANGED <<harmed, events>>

\* They do not reach the file, and nobody looks.
RewriteFails ==
  /\ WriteBack
  /\ Fault
  /\ harmed' = harmed \cup FileNames(records)
  /\ UNCHANGED meta

\* The successes that the audit log is read for.
Audited == op.ok /\ op.action \in {"CREATE", "DELETE", "ENCRYPT", "DECRYPT"}

\* log_action, and back to the menu, or to the login screen after a logout.
Logged ==
  /\ Step("log")
  /\ current_user' = IF op.action = "LOGOUT" THEN NoUser ELSE current_user
  /\ op' = NoOp
  /\ todo' = Tail(todo)
  /\ UNCHANGED <<meta, storage, records, plain, mixed, misfiled, twins>>

LogAction ==
  /\ Logged
  /\ audit' = IF Audited THEN [audit EXCEPT ![op.name] = op.action] ELSE audit
  /\ UNCHANGED <<harmed, events>>

\* The log cannot be opened: a warning, and the entry is lost.
LogFails ==
  /\ Logged
  /\ Fault
  /\ harmed' = IF Audited THEN harmed \cup {op.name} ELSE harmed
  /\ UNCHANGED audit

\* The operation has a write behind it that the next one has to match.
HalfDone ==
  /\ todo # << >>
  /\ CASE Head(todo) = "open"     -> op.action = "CREATE"
       [] Head(todo) = "write"    -> op.action # "APPEND"
       [] Head(todo) = "truncate" -> op.action # "CHMOD"
       [] Head(todo) = "log"      -> Audited
       [] OTHER                   -> FALSE

\* The process dies: what it had left to write is not written.
Crash ==
  /\ running
  /\ Fault
  /\ harmed' = harmed \cup FileNames(records) \cup (IF HalfDone THEN {op.name} ELSE {})
  /\ running' = FALSE
  /\ current_user' = NoUser
  /\ op' = NoOp /\ todo' = << >> /\ records' = << >>
  /\ out_buffer' = << >>
  /\ UNCHANGED <<files, plain, mixed, misfiled, twins>>

-----------------------------------------------------------------------------
LoginScreen ==
  \/ \E a \in Accounts : Register(a)
  \/ \E a \in Accounts, password \in {b.password : b \in Accounts} : Login(a.username, password)
  \/ Exit

Menu ==
  \/ \E n \in Names, perm_str \in PermStrings : Chmod(n, perm_str)
  \/ \E n \in Names, perm_str \in PermStrings, text \in Contents : Create(n, perm_str, text)
  \/ \E n \in Names, p \in Passphrases : ReadFile(n, p)
  \/ \E n \in Names, p \in Passphrases, text \in Contents, action \in {"WRITE", "APPEND"} :
       WriteFile(action, n, p, text)
  \/ \E n \in Names : DeleteFile(n)
  \/ \E n \in Names, p \in Passphrases, action \in {"ENCRYPT", "DECRYPT"} :
       Transform(action, n, p)
  \/ Logout

Work ==
  \/ Open \/ OpenFails \/ Flush \/ FlushFails \/ Remove \/ RemoveFails
  \/ Truncate \/ TruncateFails \/ Rewrite \/ RewriteFails
  \/ LogAction \/ LogFails

Next == LoginScreen \/ Menu \/ Work \/ Start \/ Crash \/ InvalidChoice

Spec == Init /\ [][Next]_vars

-----------------------------------------------------------------------------
(* Correctness.                                                            *)

\* The files about which the two stores and the log can be expected to agree:
\* no fault has hit them, no other name has led to their content since it was
\* created, and no operation is busy with them or with the metadata file.
Settled ==
  IF todo = << >> THEN Names \ harmed
  ELSE IF Head(todo) = "rewrite" THEN {}
  ELSE Names \ (harmed \cup {op.name})

\* Every variable has its type.  A rewrite never holds more records than its
\* array has room for.
TypeOK ==
  /\ users \in Seq(Accounts)
  /\ FileNames(meta) \cup FileNames(records) \subseteq Names
  /\ Len(records) <= MaxRecords
  /\ \A p \in Paths : storage[p] = Missing \/ \A i \in DOMAIN storage[p] :
                         storage[p][i].keys \subseteq Passphrases \X (0 .. HashLen - 1)
  /\ audit \in [Names -> {"none", "CREATE", "DELETE", "ENCRYPT", "DECRYPT"}]
  /\ running \in BOOLEAN
  /\ current_user \in Accounts \cup {NoUser}
  /\ op.name \in Names \cup {NoName} /\ op.ok \in BOOLEAN
  /\ todo \in Seq({"open", "write", "remove", "truncate", "rewrite", "log"})
  /\ mixed \subseteq Names /\ harmed \subseteq Names /\ misfiled \subseteq Names
  /\ events \in 0 .. MaxEvents

\* No file has two records and no user name two accounts, whatever was lost,
\* rolled back and created again: each search finds the only one there is.  A
\* second one comes only from looking for the first in a file that could not be
\* opened, which the program takes for not finding it.
UniqueRecords ==
  /\ \A i, j \in DOMAIN meta :
       meta[i].filename = meta[j].filename /\ meta[i].filename \notin misfiled => i = j
  /\ \A i, j \in DOMAIN users :
       users[i].username = users[j].username /\ users[i].username \notin twins => i = j

\* Metadata and stored contents name the same files, although every operation
\* writes them one after the other: a crash, a failed call or a rewrite with
\* too many records costs only the file it was about, or the records that the
\* truncated metadata file had.
StoresAgree ==
  \A n \in Settled : n \in FileNames(meta) <=> storage[PathOf[n]] # Missing

\* The audit log tells which files exist and which of them are encrypted.
AuditExplainsFiles ==
  \A n \in Settled :
    /\ n \in FileNames(meta) <=> audit[n] \notin {"none", "DELETE"}
    /\ n \in FileNames(meta) => (Encrypted(n) <=> audit[n] = "ENCRYPT")

\* The text under the key streams of the passphrases in P, each from its start.
Under(text, P) ==
  [i \in DOMAIN text |-> [char |-> text[i], keys |-> P \X {(i - 1) % HashLen}]]

\* The content of a file is the text last written to it under whole key
\* streams, an odd number of them if and only if it is flagged encrypted: some
\* sequence of encryptions and decryptions gives the text back.
Recoverable ==
  \A n \in Settled \ mixed : storage[PathOf[n]] # Missing =>
    \E P \in SUBSET Passphrases :
      /\ storage[PathOf[n]] = Under(plain[n], P)
      /\ Cardinality(P) % 2 = 1 <=> Encrypted(n)

\* A read of a plain file, or with the passphrase of a file that is encrypted
\* once, shows the beginning of the text last written, as far as the buffer goes.
ReadsBack ==
  LET n == op.name
      P == IF Encrypted(n) THEN {op.passphrase} ELSE {} IN
  /\ op.action = "READ" /\ op.ok /\ n \notin harmed /\ n \notin mixed
  /\ storage[PathOf[n]] = Under(plain[n], P)
  /\ op.passphrase # Blank \/ ~Encrypted(n)
  => out_buffer = Bytes(SubSeq(plain[n], 1, IF Len(plain[n]) < MaxRead THEN Len(plain[n]) ELSE MaxRead))

MayWrite(u, m) ==
  CASE u.username = m.owner -> m.permissions[2] = "w"
    [] u.username # m.owner /\ u.group = m.group -> m.permissions[5] = "w"
    [] u.username # m.owner /\ u.group # m.group -> m.permissions[8] = "w"

\* Its creator stores the first content of n.
FirstContent(n) ==
  /\ op.action = "CREATE" /\ op.name = n
  /\ find_file_meta(meta, n).owner = current_user.username
  /\ storage[PathOf[n]] = << >>

\* At each of the steps an operation takes, only those whom the record of a file
\* lets write change or remove its content, and its creator, while it is empty,
\* whatever the permissions given to it.  Other names that lead to the same file
\* have records of their own, and their steps are not held to this one.
OnlyWritersChange ==
  [][\A n \in Names \ harmed :
       storage[PathOf[n]] # Missing /\ storage'[PathOf[n]] # storage[PathOf[n]] =>
         \/ op.name \in Aliases(n)
         \/ /\ n \in FileNames(meta)
            /\ MayWrite(current_user, find_file_meta(meta, n)) \/ FirstContent(n)]_vars

-----------------------------------------------------------------------------
(* What a comment says that the program does not do.                       *)

\* fileops.h on fs_write_file: with the passphrase that was used to encrypt the
\* file the stored content does not become corrupted.
MatchingAppendReadable ==
  [][/\ op.action = "APPEND" /\ Head(todo) = "write" /\ running'
     /\ Encrypted(op.name) /\ storage[PathOf[op.name]] = Under(plain[op.name], {op.passphrase})
     => storage'[PathOf[op.name]] = Under(plain'[op.name], {op.passphrase})]_vars

=============================================================================
