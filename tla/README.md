# Verification of the ST5004CEM operating-systems programs

TLA+ models of the programs in this repository, the TLC configurations that check
them on small instances, and TLAPS proofs of the safety properties that matter most.
`PROJECT.json` lists components, runs, the source lines behind every definition, the
known hazards and the proved theorems.

    tlc -workers 2 -config Scheduler.cfg MCScheduler
    tlapm SchedulerProofs.tla

## 1. The system

The repository holds five programs, in four independent folders.

| Component | State | Operations | What is hard about it |
|---|---|---|---|
| **Round-robin scheduler**, `task1/scheduler.c` | `processes[]` (PCBs), `pcb_lock`, one semaphore `turn_sem[i]` per process, `done_sem` | `main` creates the threads, runs `run_round_robin` and joins; `process_thread` takes a turn, runs a slice, reports | N+1 threads; a state read before an unlock and used after it; a semaphore posted while its poster has not looked at its own flag yet |
| **Race-condition demo**, second half of `scheduler.c` | two counters, `pcb_lock` | `counter_worker` increments one counter unprotected, one under the mutex | a deliberate data race |
| **Deadlock demo**, `task1/deadlock_demo.c` | two mutexes | `thread_a`, `thread_b`, in two builds | lock order |
| **Paging simulator**, `task2/paging_sim.c` | a frame table, a FIFO pointer, LRU time stamps | `run_fifo`, `run_lru` per access | sequential; long sequences of accesses, boundaries of the frame table |
| **File manager**, `task3/*.c` | a users file, a metadata file, one stored file per path, an audit log | register, login, create, read, write, append, delete, chmod, encrypt, decrypt | one step of several failing or interrupted, mostly unnoticed; files rewritten in place; two names for one path; a key stream that depends on where it starts |
| **Key-value server**, `task4/server.c` | `store[]` behind `store_lock`; per session `authenticated`, `auth_attempts` | accept; AUTH, PUT, GET, DEL, LIST, QUIT | a thread per client, a connection that can end at any point, buffers at their limits |
| **Key-value client**, `task4/client.c` | its input line, the connection | prompt, send, wait for one line | pairs answers with lines by counting |

What makes each one correct:

* scheduler: one slice at a time, no turn lost, duplicated or given to a thread that
  has exited, round-robin fairness, and everything finishes;
* counters: no update of the protected one is based on a stale read;
* deadlock demo: the safe build never has a circular wait;
* paging: the frames hold exactly the pages the policy names;
* server: concurrent sessions see one atomic map; failed logins are limited; threads
  end with their clients and nobody waits for the mutex forever;
* client: gets an answer to what it sent, or notices that it will not;
* file manager: metadata, contents and audit log agree about every file that no fault
  and no second name for it has hit; only those whom the permissions let write change a
  content; what was written can be read back, and recovered from any sequence of
  encryptions;
* hashing: what is compressed is the message with the standard's padding.

In the file manager `main.c` holds the login screen and the menu and calls `auth.c`,
`fileops.c` and (for chmod) `perms.c`; `fileops.c` checks the permissions and keeps
metadata (`perms.c`) and stored contents in step; all of them write to the log
(`audit.c`) last. There is one process, and everything but its session lives in files.

## 2. Modules

| Module | Models | |
|---|---|---|
| `RoundRobin` | what the scheduler promises: one CPU, atomic slices, cyclic order | abstract |
| `Scheduler` | `main`, `run_round_robin`, `process_thread` | implements `RoundRobin` |
| `CounterDemo` | `counter_worker`, the rest of `main` | |
| `DeadlockDemo` | both builds of `deadlock_demo.c` | |
| `Paging` | `paging_sim.c` | |
| `KVMap` | what the server promises: a bounded map, atomic requests | abstract |
| `KVServer` | `server.c` with an arbitrary environment | implements `KVMap` |
| `KVSystem` | `KVServer` composed with `client.c` | extends `KVServer` |
| `FmsMeta` | `perms.c`: the records of the metadata file | used by `FileManager` |
| `FileManager` | `main.c`, `auth.c`, `fileops.c`, `audit.c`, `xor_cipher` | extends `FmsMeta` |
| `Sha256` | blocks and padding of `sha256` in `crypto.c` | |
| `MC...` | the instances for TLC | |
| `SchedulerProofs`, `CounterProofs`, `DeadlockProofs`, `PagingProofs` | theorems | |
| `KVServerProofs`, `KVSystemProofs` | theorems, the second about the composition | |
| `FileManagerProofs`, `Sha256Proofs` | theorems | |

A module also contains, each in front of the definition it varies, faulty versions of
some definitions (`GoesOnForever`, `PutSlotEager`, `NoRollback`, ...). They are not part of any
specification; each is a plausible slip in the code that the property it was written for
detects when it takes the place of the original.

### Steps and the code

**Scheduler.** A step is what a thread does between two calls that can block or wake
another thread. `mpc`/`ppc` are the program counters of `main` and of the process
threads; taking the mutex is a step of its own (`DispatcherLock`, `ProcessLock`), a
critical section with its unlock is another (`ReadState`, `StartSlice`, `EndSlice`),
semaphores are numbers. In `PostDone` the dispatcher is awake while the thread is at
`"loop"` and has not tested `just_finished` yet. The table of bursts is a constant set
`Workloads`, the program's being one member.

**CounterDemo.** Each access to a counter is a step. `shared_counter_safe++` is a load
and a store (`LoadSafe`, `StoreSafe`). Reads and writes of an aligned `long` do not
tear on the targets of the program.

**DeadlockDemo.** `demo_unsafe` is the build flag. `NumThreads` and `RunsB` allow more
threads than the program's two, so that threads queue behind a held mutex; with
`NumThreads = 2`, `RunsB = {1}` it is the program.

**Paging.** The simulator runs each algorithm to the end for one frame count after the
other. These runs share nothing, so the model advances all of them on each access and
can compare them. `refs` and `loads` are histories used by the properties only.

**KVServer.** `spc` is where a session's thread is. A command is received, decided and
its replies computed in one step; they are then sent one at a time (`Send`). Only the
critical sections touch `store`, so merging the receipt of a command with its critical
section loses no interleaving of the store; `store_put`, which scans and then writes, is
two steps (`PutScan`, `PutWrite`) so that what the mutex protects can be seen.
Everything is data-abstracted to what the code distinguishes: a line is its result in
`recv_line` (too long, empty, text), a command word, and words as sequences of pieces, a
piece being what `%63s` accepts. So a key longer than its buffer is two pieces, and
`arg1`/`arg2` put the second one where `sscanf` puts it, in front of the value. The
length of a LIST reply is kept because two buffers can cut it off: `Offset` is the
`offset` of `store_list`, counted as the number of characters up to a slot.
The environment sends any line, pipelines, closes, or loses the connection.
When `store_list` finds nothing its output buffer is uninitialised; the reply is any
text of any length. It is one line: what `handle_client` stores in its frame never
contains a newline, and the frame is taken not to overlap older data that does.

**KVMap.** The map has requests instead of lines: a command, a key, a value, and whether
the server is to do what is asked (`Good`: a known command, `sscanf` found what it needs,
the tokens are valid, the login is right). Nothing but `Arrive` adds a request, and
nothing but serving it, refusing it or losing the connection takes it away, from the
front. `Refuse` is only for a request that is not good or not at its time, such as a
`GET` before the login, and its answers must be outside `Telling`, the replies that
depend on the store, the two `not_found` among them. So a `GET` of a key that is present
can only be answered with its value, and an answer belongs to the request it was
computed for. When a connection goes (`Drop`, `Deliver`) the requests behind it are
lost, except one that is already in `store_put` and still takes effect. What the mapping cannot show is whether the client meant that key and value: both sides
take them from `arg1` and `arg2`.

**KVSystem.** The client sends one line and takes the next line that arrives for its
answer. Replies still in transit may be lost when the server closes.

**FileManager.** An operation begins with one step in which the program reads its files,
checks and decides; nobody else writes these files, so nothing can change meanwhile.
This step leaves in `todo` the writes that are left, and each of them is a step: `Open`
(an `fopen` with "wb" truncates), `Flush` (the data reach the file at `fclose`),
`Remove`, `Truncate` and `Rewrite` (the two halves of `rewrite_meta_matching`) and
`LogAction`. The log entry is the last step of every operation, failed ones included.

Names and paths. `storage_path` puts the typed name behind `storage/`, so that `./a` and
`a` lead to one file. The metadata and the log go by the name, `storage` by
`PathOf[name]`, which is any function; `Aliases(n)` are the other names for n's file.
Each has a record, an owner and permissions of its own, and the code never compares them.

The fault model. A crash or a failing call may come at any of these places, as long as
`MaxEvents` allows it:
  - `Crash` between any two steps; what is not written is lost, and the program may be
    started again (`Start`).
  - An `fopen` for writing fails: `OpenFails`, `TruncateFails`, `LogFails`, and the
    refusing branches of `Register`, `WriteFile` (there a failing `malloc`), `Create`
    and `Transform`. `transform_file` does not look whether the second `fopen` succeeded,
    and dies (`Crash` in front of its `Open`).
  - An `fopen` for reading fails. The operations that need a record are refused. But
    `find_file_meta` and `find_user` return "not found", and then `create_file_meta` and
    `register_user` append a second record: `Overlooked`, and `known` in `Register`. (In
    `rewrite_meta_matching` it is `TruncateFails`.)
  - Data that do not reach the file at `fclose`, which the code never looks at:
    `FlushFails`, `RewriteFails`, and `lost` in `Create`, where it is the record. An
    account lost on its way to `users.dat` is `Register` without effect.
  - `remove` fails, and nobody looks (`RemoveFails`): the record goes, the content stays.
  - The input ends. `read_line` then returns blank lines: the operation being typed goes
    on with blank fields, which are among the inputs of every operation where the code
    takes them, and after it every choice is an `InvalidChoice`.
Data are flushed as a whole or not at all: the contents the menu takes are shorter than
a `stdio` buffer, and so are 28 records. With more records a crash inside the final
flush could also leave a prefix of them; those files are among the ones the model
already counts as harmed.

Data. A stored character carries the set of key bytes that have been XORed onto it, a key
byte being a passphrase and a position in its hash, so that where a key stream starts and
wraps round is kept and the values of the bytes are not. A password stands for its salt
and hash. Of the log, the last successful entry that created, deleted, encrypted or
decrypted each file is kept.

Four variables are history: `plain`, the text last written; `mixed`, the files that hold
something else than one text under whole key streams (an append of or to XORed text, a
write to an encrypted file with a blank passphrase); `harmed`, the files that a fault or
another name for their path has cost metadata, content or log entry; `misfiled` and
`twins`, the files and users with a wrong number of records. The properties speak of the
other files, so these sets are as small as the code allows:
  - A crash costs the operation's own file only if a write is behind it that a later one
    has to match (`HalfDone`): not if the operation was refused, nor for a read, write,
    append or chmod whose log entry is lost, since the log is not read for those.
  - A crash, a failed write-back or data lost in the rewrite of the metadata costs every
    file that had a record in memory; a rewrite of more records than `records[]` holds
    costs the rest of them.
  - A failing call costs the file it was about, and nothing if the code notices and takes
    back what it did.
  - Opening or removing a content costs the aliases of its name.
  - A file that is created again is in order again (`Open`), whatever was left behind
    under its name, unless the same create left it without a record or with two.

**Sha256.** `sha256_update` byte by byte and `sha256_final`; `sha256_transform` is the
list of the blocks it is given. The block length is the program's, 64.

## 3. Runs

| Run | Bounds | Distinct states | Shows |
|---|---|---|---|
| `scheduler` | 3 processes, quantum 2, all 216 tables of bursts from {0, 1, 2, 3, 4, 7} | 88,864 | one slice at a time, token conservation, fairness, order, termination, refinement of `RoundRobin` with its liveness |
| `counter_demo` | 3 threads, 2 increments | 147,254 | the protected counter is exact; the other one ends between 2 and 6 |
| `deadlock_demo` | 4 threads, 2 of each function, both builds | 566 | no circular wait in the safe build; in the other one it is permanent, and the only way not to complete |
| `paging` | all strings of up to 7 accesses to 5 pages, 1 to 4 frames | 97,656 | FIFO keeps the last loaded, LRU the most recently used pages; LRU has no anomaly |
| `kv_store` | 2 sessions, 2 slots, 3 keys | 639,726 | unique keys, valid scans, refinement of `KVMap`, also by the commands that leave the store alone |
| `kv_progress` | 2 sessions, 1 slot, 3 lines each, 2 failed AUTHs allowed | 180,776 | the limit on AUTH, sessions end, lines are served |
| `kv_client` | 1 client, 5 lines | 46,349 | answers, no information before login, not even that a key is missing, no hang |
| `fms` | 2 users and 2 groups, 3 names of which 2 lead to one path, room for 2 records in a rewrite, 1 passphrase and the blank one, 4 operations and faults | 714,283 | unique records; metadata, contents and log agree; texts recoverable and read back; only writers change contents |
| `sha256` | all lengths up to 200 bytes, block of 64 | 402 | the padded message is hashed |

Why these bounds are enough to be interesting. The bursts include zero, less than a
quantum, exact multiples and odd remainders, and 7 outlasts the others by enough passes
for a count of finished processes that is carried over to end the dispatcher early;
three processes give a first, a middle and a last one. Three counter threads of two
increments reach the worst lost update (one thread's stale write after all others have
finished). Five pages and four
frames give evictions, reloads and a wrapped-round FIFO pointer within seven accesses.
Two slots and three keys give a full store, holes in front of a key, and re-use of a
slot; a list room of 6 cuts off the second key. Five client lines allow the three failed
logins that lock a session out, and the line after. In `kv_progress` a line can be in
the socket while the one before it is served, so the third line can be behind the AUTH
that locks its session out. In the file manager an operation that writes to a file counts
one event, and so does each fault, while refusals by the permissions, reads, logins and
registrations are free. Four events are enough for two creates and an encryption with a
crash in it, for a third record that a rewrite drops, for a file that is created,
encrypted, appended to and decrypted, for a delete whose `remove` fails and a create of
the same name, and for a create that overlooks a record. Two users register with groups
of their choice, so each user meets the bits of the owner, the group and the others; the
permission strings give the group and the others rights that the owner, or the group,
has not. The text typed is longer than the key stream's period, and two of them are
longer than the read buffer. A SHA-256 message of 200
bytes passes each of the boundaries at 55, 56, 63 and 64 bytes three times.

Three runs are expected to fail; each shows that the program does not do what a comment
or its own reply says.

* `kv_acked_put`: `handle_client` ignores the result of `store_put` (`server.c:260`): with
  a full store `OK PUT` is sent for a key that was not stored.
* `kv_empty_line`: `recv_line` returns "0 on clean disconnect" (`server.c:157`) and also
  for an empty line, which ends the session; the `continue` meant for it is unreachable.
* `fms_append`: `fileops.h:34-37` says the content of an encrypted file becomes corrupted
  unless the passphrase matches; an append corrupts it also if it does, because
  `fs_write_file` starts the key stream anew (`fileops.c:111`).

Symmetry is used in `kv_store` (connections) and `fms` (the two names of one path, users,
groups), which have no liveness property; nothing in these modules tells the members of
those sets apart. `CHECK_DEADLOCK FALSE`
is used for `deadlock_demo`, whose unsafe build really stops. In the other modules a
finished program stutters (`Finished`, `Done`, `AllClosed`, `AllGone`, `Returned`), so
that any other state without successor is reported; the file manager can always be typed
at or started again.

## 4. Fairness

Only weak fairness, of each thread as a whole: a thread that can run is eventually run.
The operating system's scheduler gives that for threads that are not blocked. A thread
blocked on a mutex or a semaphore is disabled; weak fairness does not say that it wins
a race for the mutex infinitely often contended. In `Scheduler` and `CounterDemo` this is
not needed because every contender does a bounded amount of work; in `KVProgress`
because each client sends at most `MaxSent` lines. Real clients may go on forever, and
then a session's progress also depends on the fairness of the mutex.
In `KVSystem` the client's receive is fair, its user is not: nothing makes anyone type.
`send` is taken not to block: replies are short and there is at most one, or two, per
line. A peer that vanishes without a reset being noticed is a connection that stays open.

## 5. Proofs

Every safety property that a run checks is also a theorem, proved with TLAPS for every
value of the constants that satisfies the assumptions named in the modules: counts and
sizes are positive; tables, lines and pages have their types; `NoOne` is no connection
and `NoName` no file. Four of them say more than that and hold for the program's own
values. `StringsAssumption`: contents and permission strings are sequences.
`MissingAssumption`: a file that is not there is told from one with any content.
`BoundsAssumption` of `KVServer`: keys have a length. `BlockLenAssumption` of `Sha256`: a
block is longer than the eight bytes of the length, and a message is at most `2^28`
bytes, so that its length in bits fits four of those eight (`WithLength` leaves the
others 0).

The bounds that TLC needs (`MaxSent`, `MaxInFlight`, `MaxEvents`, `MaxRefs`) are
constants like others, so the theorems hold for behaviours of any length.

**`SchedulerProofs`** `TypeCorrect`, `SingleCPUCorrect`, `TokenConservedCorrect`,
`ReturnsCorrect`, and the refinement `RefinesRoundRobin` (`Spec => RR!Spec`). The
properties are not inductive: that `remaining_time` stays a natural number depends on
`run_time` still being the right cap when it is subtracted, which depends on nobody else
writing in between. The inductive invariant `Inv` adds who holds the mutex (`LockInv`),
what a thread's position says about its PCB (`PcbInv`), which threads exist
(`ThreadInv`), where the one token is (`HandoffInv`), and that the dispatcher's copy of
a state and its count of finished processes are right (`CountInv`). The refinement then
needs only to look at `EndSlice`, which is `Slice`, `SkipDone`, which is `Skip`, and to
show that every other step leaves the mapped variables alone. `FairShareCorrect` and
`ArrayOrderCorrect` rest on it: `PassInv` says that of two processes with work left the
one the pass has already visited leads the other by exactly one quantum and that
otherwise they are level, which a step of the abstract round robin preserves; both
properties are read off it.

**`CounterProofs`** `TypeCorrect` and `NoStaleSafeUpdateCorrect`, from `LockInv` (the
thread between its load and its store is the holder of `pcb_lock`, so nobody else
stores), `LoopInv` (a thread in its loop has increments left) and `CreateInv` (a thread
main has not created has not started). `SafeMatchesExpectedCorrect` and
`UnsafeWithinBoundsCorrect` need what the counters count. A sum over the threads would
be an induction; instead an increment is a pair of a thread and a pass of its loop, and
`SafeInv` says that the protected counter is the number of pairs stored (`Stored`). The
upper bound of the other counter is the number of pairs written (`UpperInv`). For the
lower bound `LowerInv` says that after any thread's first write the counter is at least
1, so that a thread's later increments start from at least 1, and that once every thread
has made its last write the value is at least 2: whichever of the last writes came last
wrote one more than a value of at least 1.

**`DeadlockProofs`** `SafeBuildCorrect` and `DeadlockCorrect`, from `HolderInv`: a
thread's position says which mutexes it holds. `TypeOK` of `DeadlockDemo` is a part of
that module's `Inv` and is proved with it; no run needs it. In the safe build the holder of
`resource_2` is past both locks, so it waits for nothing.

**`PagingProofs`** `TypeCorrect`, `NoDuplicatesCorrect`, and what the frames hold. For
FIFO the invariant gives the place of each frame's page in the history of loads
(`LoadOf`): the frames before the pointer were loaded in the current round, those behind
it in the one before; `FifoKeepsLastLoadedCorrect` follows. For LRU each time stamp is
the page's last access (`LastUse`), and a page that was accessed and is not in a frame
was last accessed before all that are. Pages with different last accesses are linearly
ordered, so a page in a full table of n frames has at most n - 1 pages used after it,
and one outside has at least n (`MostRecent`), which is `LruKeepsMostRecentCorrect`. The
inclusion in `LruNoAnomalyCorrect` follows from it, and with the inclusion a fault with
more frames is one with fewer.

**`KVServerProofs`** `UniqueKeysCorrect` and `ScanStillValidCorrect`: `StoreInv` joins
them with `LockInv` (`store_lock` is held exactly between the two halves of
`store_put`): unique keys after the write follow from the scan being valid, the scan
being valid from nobody else being in the store, and a new scan from unique keys.
`LockoutCorrect`: `AuthInv` says that a counter at its limit belongs to a session that is
closed or only sends its refusals. `TypeCorrect` adds `SessionInv`: a thread has replies
to send exactly while it is sending, at most two, and the line it takes to `store_put`
is a PUT. `RefinesMap` (`Spec => ImplementsMap`) maps
the used slots to the function from keys to values, which unique keys make well defined,
the lines in the socket to requests, and the line in `store_put` to the request at their
head, not yet served. There is one lemma per command. `PutWrite`, `Get`, `Del` and `List`
are the map's operations; `PutScan` changes nothing the map sees; every branch of
`handle_client` that refuses is shown to be about a request that is not good or not at
its time, and to send none of the telling replies. What is lost with a connection is
lost in one step of the map: the receipt of the line that ends it, the last refusal, or
the reset. That the two sides of LIST agree is `ListingOfMap`: the number of
characters copied is the same whether it is counted over slots or over keys
(`ListingLength`), again as the size of a set of pairs and not as a sum.

**`KVSystemProofs`** `AnswersItsLineCorrect` and `NothingBeforeLoginCorrect`, from the
server's invariants and two more. `Flow` says that client and server take turns: while
a connection is up there is one line or one answer on it, wherever it is (in a socket,
in `store_put`, in a reply not yet sent), with the lockout notice as the only line that
may follow unasked. `AnswersItsLine` has one exception, because `client.c` has: the second
line of a lockout is taken for the answer to whatever the user types next. It is admitted
only on a connection that has used up its failed AUTHs. `Login` says that before the
client has been shown `OK AUTH` none of the replies under way is one of `Telling`, and
that a session which has authenticated by then has just said so and taken no other line.

**`FileManagerProofs`** rests on two inductive invariants.
`Inv` says which steps each operation can have left (`Plan`), that records and accounts
are unique but for the names that were overlooked, in memory too while the metadata file
is truncated (`TableInv`, `UsersInv`), that such names are among the harmed ones, that
record, content and log agree about every file that nothing has hit and the operation is
not changing (`AgreeInv`), that a content opened for writing is there and its other names
are not among those files (`StoredInv`), how far each operation has got with its own file
(`OpInv`), and that an operation with a write to a content before it was allowed to
(`PermInv`). From it follow `TypeCorrect`, `UniqueRecordsCorrect`, `StoresAgreeCorrect`,
`AuditExplainsFilesCorrect` and `OnlyWritersChangeCorrect`.
What the operators of `perms.c` do with a table of records are lemmas (`FindRecord`,
`DeleteRecord`, `ChmodRecord`, `FlagRecord`, `ReadRecords`); `delete_file_meta` names the
k-th record that stays by counting, so that no induction over the sequence is needed.
`CipherInv` says that a content is the text last written under whole key streams, an odd
number of them exactly if the file is flagged (`ContentInv`), and the same of what is
in the buffer, has been transformed or has been read (`BufferInv`, `ResultInv`,
`ReadInv`). XORing a stream onto a content adds or removes one passphrase and so changes
the parity (`ToggleParity`), and so does the flag that is set last; in between the
content is ahead of its flag, which `ContentInv` excepts and `ResultInv` bridges.
`RecoverableCorrect` and `ReadsBackCorrect` follow.

**`Sha256Proofs`** `HashesPaddedMessageCorrect`. `Consumed` says that the blocks passed on
and the bytes in `data` are the message so far and that `bitlen` counts the whole blocks.
`BlockCount` and `PaddedBlocks` give the number of blocks of the padded message and each
of them; the lemmas on `sha256_final` then compare byte by byte, for the message that
leaves room for the length and the one that does not.

Only model-checked: the liveness properties `Terminates`, `Reports`,
`CompletesOrDeadlocks`, `SessionEnds`, `LinesAreServed` and `ClientNeverHangs`, and the
liveness half of `ImplementsRoundRobin` (fairness and ENABLED are beyond the prover);
and the three runs that show a violation.

## 6. Not modelled

* The compression function of SHA-256, `generate_salt` and `bytes_to_hex`: bit-level
  computation without control. Different passwords are taken to have different hashes.
* Writes of which one flush delivers a part, and the loss of data the operating system
  has accepted. An `fread` that fails after its `fopen` succeeded.
* Names, fields and lines longer than their buffers in the file manager: `read_line`
  leaves the rest of a long line for the next prompt, where the model's input is
  arbitrary anyway.
* File names that lead out of `storage/`. Two names for one path are modelled
  (`Aliases`), but not a path that is one of the program's own files, such as
  `../users.dat`: its content is records, and the model's stored files hold texts.
* What `send_line` does to a LIST reply longer than its buffer, beyond its effect on the
  client, which gives the connection up (`ReceiveFails`).
* Printing, logging, time stamps, `usleep`, hit ratios: no state depends on them.
* Socket set-up and command-line arguments of task 4.
* Failure of `pthread_create` in task 1, which the code does not check.
  (`pthread_create` in the server is checked, and modelled: `AcceptWithoutThread`.)
* `num_frames` of 0 or above `MAX_FRAMES`, and more than `MAX_REFS` accesses, which
  `main` never passes.

## 7. Plan

1. Done: scheduler with its abstract specification and proofs; counter and deadlock
   demos; paging; key-value server with its abstract specification and first proofs; the
   client composed with it.
2. Done: the file manager, with its fault model, and the padding of SHA-256.
3. Done: `FairShare` and `ArrayOrder` of the scheduler and the critical section of the
   counter demo proved.
4. Done: every other safety property proved: the values of the two counters, paging, the
   server's types and its refinement of `KVMap`, server and client together, the file
   manager, the padding of SHA-256.
5. Done: `KVMap` with requests, so that the refinement fixes which answer belongs to which
   request; in the file manager two names for one path, and every call whose failure the
   code does not look at; the proofs of both redone.
6. Next: an abstract specification of the file manager (a file system whose operations
   happen at once, and whose log is a history of them) that `FileManager` implements
   where no fault hits; the safety half of the liveness arguments, that is, bounds on
   what each wait depends on (at most `NumProcesses - 1` other slices between two of a
   process; a thread in `store_put` is never blocked), as invariants.
