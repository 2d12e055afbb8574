# TLA+ models of the distributed document store

This directory holds TLA+ models of the C programs under `src/`, the TLC
configurations that check them, and `PROJECT.json`. `PROJECT.json` lists:

- the components;
- the runs and the mutants;
- the mapping from definitions to source lines;
- the findings and the hazards.

Each model module `M` has an `MC_M.tla` that gives its constants values
for TLC. The `.cfg` files name that MC module's definitions.

## The system

The system has three programs:

- **Name server** (`src/nm.c`): holds users, file metadata and ACLs, in a
  prefix index (`trie.c`) with a metadata cache in front (`cache.c`). It
  tracks storage servers through heartbeats and routes client requests.
- **Storage servers** (`src/ss.c`, `src/file_ops.c`): hold the files. For a
  write, the client talks to a storage server (SS) directly:
  1. `LOCK f i` takes the lock of sentence `i`. It opens a *write session*,
     which copies the file to `f.temp_<user>_<i>` and records the file's
     sentence count and the lock time.
  2. Each `WRITE` inserts a word into the temp file.
  3. `UNLOCK` (the client's `ETIRW`) puts the session on the per-file
     *commit queue*. That thread then drains the whole queue. Each entry is
     rebased by the change in sentence count and merged into the main file.
     A `.undo` backup is taken before the drain.
  4. `CANCEL` drops the session. `UNDO` restores the backup.
- **Client** (`src/client.c`): `handle_write` sends LOCK, then WRITEs, then
  UNLOCK, all on one SS connection. If a WRITE's send or recv fails (the
  connection was reset, or SIGINT interrupted `recv`), the client does the following, up to five times:
  asks the NM for the SS again, reconnects, re-LOCKs the sentence and
  retries the WRITE.

The SS serves each client connection on its own thread
(`handle_client_request`). Concurrency comes from these threads sharing:

- the lock table;
- the session table;
- the commit queue, whose mutex is held across a whole drain;
- the files themselves.

## Modules

### `SSWritePipeline.tla`: the SS write path for one file

This module also covers the client's write command.

**State**

| Variable | Code |
|---|---|
| `main`, `undo`, `temp[u, i]` | the file, `<file>.undo` and the temp files, as token sequences (words are distinct positive integers, `Delim` is `.!?`, `Space` is a whitespace run; newline tokens are left out) |
| `locks[i]` | `locked_by` of sentence lock `i` |
| `sessions` | the `write_sessions` table: user, index, original count, lock time |
| `queue`, `qHolder` | the commit queue and the holder of `queue->mutex` |
| `pc[c]`, `req[c]` | where the SS thread of connection `c` is inside its handler |
| `link[c]`, `cphase[c]`, `csent[c]` | the client side of connection `c`: open, closed, or closed with a WRITE still in flight; and where `handle_write` is |
| `wbuf` | `main_fc` after the merge of the head entry, not yet written back, with the words of the temp file it was merged from (a ghost) |
| `mine`, `done`, `undone`, `applied` | ghost variables for the properties: words acknowledged to a session, words whose UNLOCK answered SUCCESS, words an UNDO removed, and the lock times of the merged entries |

**Actions.** Every handler is split at the points where another thread can
run:

- LOCK is `LockValidate` (the index check), `LockAcquire`
  (`lock_sentence_ss`, re-entrant for the same user), `SessionStart` (the
  session record, or on a full table an unlock) and `SessionCopy` (copying
  the file).
- WRITE is `Write`, the whole `write_file_ss`: parse the temp file, then
  `insert_word_in_sentence`, then `write_file_content`.
- UNLOCK is `CommitEnqueue`, `CommitRemove`, `ProcessAcquire` (mutex and
  `.undo` backup), `ProcessEntry` (one loop iteration up to the merge: parse main and the
  temp file, then discard the entry or build the merged content in
  memory), `ProcessWrite` (`write_file_content` of the merge, unlink of
  the temp file, dequeue), `ProcessRelease` and `CommitUnlock`.
  `ProcessEntry` and `ProcessWrite` are separate steps because UNDO
  takes no lock and can run between them.
- `DrainFails` is the failure return of the drain: a failed `malloc` of
  the merge or `fopen` of main (ss.c:224-230, 253-259, 297-303). The
  entry stays queued, its temp file stays, the mutex is released and the
  client is still answered SUCCESS. It is enabled by the constant
  `DiskFails`.
- `Cancel` and `Undo` are one step each.
- `Reconnect` is the client's retry after a failed `recv`. The client has
  no receive timeout. `recv` fails when the connection is reset, or with
  `EINTR` on SIGINT, because the handler is installed without
  `SA_RESTART` (client.c:1535). The old connection closes, possibly with a
  WRITE still in flight, which its thread may serve later. The new
  connection must re-LOCK first. With the constant `ReconnectFails`, every
  attempt may fail too: the client then leaves without an UNLOCK.

Connections follow the client's protocol. They send LOCK from the prompt
(or after a reconnect), WRITE and UNLOCK or CANCEL only for the sentence
they hold, and UNDO only from the prompt. `nm.c` rejects a second login of
the same user, so a user has one client, and two connections of one user
exist only across a reconnect.

**Operators.** The text functions of `file_ops.c` are operators: `Scan` and
`ParseFile` (`parse_file`), `JoinFrom`, `Gap` and `WriteFileContent`
(`write_file_content`), and `InsertWordInSentence` (with its empty slots and
its count). `MergeSentences` and `Discarded` are the rebase of
`process_commit_queue`.

### `SSCheckpoint.tla`: checkpoints on the write path

This module extends `SSWritePipeline` with CHECKPOINT and REVERT. The NM
forwards them (`handle_checkpoint_request`, which checks only write
access), and the SS serves them on its NM thread:

- `ckpt[t]` is `<file>.checkpoint_<t>`;
- `Checkpoint(t)` is `create_checkpoint`, refused when the file exists;
- `Revert(t)` is `revert_to_checkpoint`: main is backed up to `.undo`
  and the checkpoint copied over it.

Neither step takes a sentence lock or `queue->mutex`. `NextCk` adds them
to the write path's `Next`, whose steps leave `ckpt` alone.

### `LRUCache.tla` and `AbstractCache.tla`: the NM's metadata cache

`cache.c` is a hash table of `capacity` slots with linear probing, plus a
doubly linked recency list. Every call holds `cache->lock` from entry to
return, so each call is one step.

- **State.** A node stays in one slot from insertion until it is freed, so
  it is named by its slot.
  - `table[s]` is the key and value in slot `s`.
  - `order` is the recency list, head first.
  - `size` is `cache->size`.
  - `spinning` is set when a call loops forever under the lock. The state
    is then terminal, because no other call can take the lock.
- **Actions.** `CacheGet`, `CachePut` (with `PutNew` for a new key) and
  `CacheRemove`. Each follows the probe loops of the code:
  - the probe stops at an empty slot or at the key;
  - `cache_get` has no full-circle stop;
  - the empty-slot search of `cache_put` spins on a full table;
  - eviction is tested only after the insertion, so it never runs.
- **Contract.** `AbstractCache` is what callers rely on. A get may miss,
  but a hit returns the latest value put for the key, and never a value
  for a key removed since. The history variable `last` records those
  values. `AbstractSpec` states the refinement. No run checks it: it
  holds only when no probe chain forms, and `cachestale.cfg` shows it
  failing once one does.

### `Trie.tla` and `AbstractIndex.tla`: the file index

`trie.c` is a trie with one child slot for each byte below 128. Each call
holds the trie's rwlock for its whole duration.

- **State.** A node is named by its path from the root.
  - `nodes` is the set of nodes reachable from the root.
  - `ends` is the set of nodes marked `is_end_of_word`.
  - `meta` holds each node's `file_meta`.
  - `tret` is the answer of the latest call.
- **Insert.** `TrieInsert` creates the nodes on the way down. For a byte
  ≥ 128 it returns -1 and leaves the nodes it already created.
- **Delete.** `Prune` is `trie_delete_helper` as a RECURSIVE operator. It
  returns whether the caller may free the node, and which nodes it freed
  below it.
- **Contract.** `AbstractIndex` is a map from names to metadata. It
  refuses names with a byte ≥ 128. `AbstractTrie` checks the refinement.
  The mapping is what `trie_search` would answer for each name.

### `MetadataStore.tla`: the index and the cache as the NM uses them

This module instantiates `Trie` and `LRUCache` and pairs their calls the
way the handlers in `nm.c` do:

- create: `trie_insert`, then `cache_put`, whatever `trie_insert`
  answered;
- delete: `trie_delete`, then `cache_remove`;
- ACL change: `trie_update`, then `cache_put`;
- `find_ss_for_file`: `cache_get`, then on a miss `trie_search` and
  `cache_put`.

The two structures share no state, so each pair is one step. Requests are
served one at a time.

### `NMMetadata.tla`: concurrent NM handlers over file metadata

This module models the handlers' interleavings. Client threads run:

- `handle_create`;
- `handle_delete`;
- `handle_access`;
- `handle_createfolder` and `handle_move`;
- the refresh that `handle_view -l` makes of every file it lists;
- the READ/WRITE/STREAM/UNDO lookup.

Each handler is split at its trie, SS and cache calls. `pc[u]`, `fl[u]`,
`dst[u]` and `loc[u]` are the locals of client `u`'s thread. `loc[u]` is
the private metadata copy that `trie_search` returns.

Other state:

- `trie` and `cache` are maps from names to metadata here. Their own
  structure is modelled in the modules above.
- `stored[s]` is the set of files on storage server `s`, as
  `<<directory, name>>` pairs. `Root` (the empty `folder_path`) is the
  storage directory itself. `dirs[s]` is the set of folders made there.
  The SS steps are those of `create_file_ss`, `delete_file_ss`,
  `create_folder_ss` (which makes every missing folder above the new
  one, as `mkdir -p` does) and `move_file_ss` (a rename).
- `ftrie` is the folder trie, a map from path to owner and SS. `tgt[u]`
  is the folder path of a CREATEFOLDER or MOVE.
- `rr` is the round-robin counter of `get_next_ss_round_robin`.
- `snap[u]` holds the copies of every indexed file's metadata that
  `trie_get_all_files` gave VIEW -l. `ViewInfo` takes them in a fixed
  order. It asks the file's SS with `SS_INFO`, which finds only files in
  the storage directory. On success, `ViewUpdate` and `ViewPut` write
  the copy back with `trie_update` and `cache_put`.
- `aclSet` is a history variable: the ACL the owner last set.

Other actions:

- `RegisterFile` is the file list of an SS that registers in
  `handle_ss_connection`. The SS lists only the regular files of its
  storage directory, not those in its folders.
- `CacheDrop` is the cache losing an entry, which `cachestale` shows it
  does.

`Init` is the NM after the first registration.

### `NMRequests.tla`: the access-request queue

This module models the four handlers over `nm.access_requests` under
`request_mutex`:

- `handle_requestaccess` has two steps: `RequestCheck`, which runs
  `check_access` outside the mutex, and `RequestQueue`, which checks for a
  duplicate and appends under it.
- `handle_viewrequests`.
- `handle_approverequest`.
- `handle_denyrequest`.

Its state:

- `reqs` is the array.
- `acl[f][v]` is the ACL entry of user `v` for file `f`, at most `AclCap`
  entries per file.
- `view[u]` maps the ids (array positions) that `u`'s client printed to
  the requests they named then. APPROVE and DENY take such an id.
- `open`, `acted` and `lastGrant` are history variables for the
  properties.

### `NMRegistry.tla`: SS registration, heartbeats and failure detection

This module covers two sides. On the NM it models `handle_ss_connection`,
`handle_ss_heartbeat` and `heartbeat_monitor`. On the SS it models
`main`, `connect_to_nm`, `scan_and_register_files`, `heartbeat_thread`
and the exit path of `handle_nm_communication`.

- **Connections.** A connection is `<<s, g>>`: SS `s` in its `g`-th run.
  Each run opens a command connection and a heartbeat connection, and the
  NM serves each with its own thread.
  - `cmdPc` and `hbPc` are those threads' program counters.
  - `cmdOpen` and `hbOpen` say whether the NM has closed its end.
  - `init` and `beats` are the frames in flight.
- **Slots.** The `ss_list` slot of id `s` is described by:
  - `reg` and `active`;
  - `sock` and `hbs`, the run whose sockets the slot holds;
  - `age`, which is `now - last_heartbeat`.

  Every thread step happens under `nm.ss_mutex`, so each is one action.
- **SS process.** `ssPc` moves through off, starting, run and halted.
  Halted means `ss.running = 0` while the process is still alive. The
  process may crash or be killed at any time (`SSExit`) and may be
  started again (`SSStart`), up to `Runs[s]` runs.
- **Descriptor reuse.** When the slot's old command thread has already
  closed its socket, `accept` hands out the lowest free descriptor, so the
  restarted SS's command or heartbeat socket may get the old number.
  `reuse[c]` records which one did, chosen at `SSStart`. `CmdRegister`
  closes the slot's old command and heartbeat descriptors (nm.c:1406-1421):
  `Closed` is the set of sockets those numbers name then, which may be the
  new connection's own socket.
- **Time.** `Tick` advances every age by `Unit` seconds, and then the
  monitor scans once. A tick waits until every step that is due has
  happened:
  - a REG_SS or HB_INIT has been handled;
  - a due heartbeat has been sent;
  - the frames in flight have been received.

  This is the timing the failure detector depends on. Without it every
  SS could be suspected.

### `NMSessions.tla`: user logins and the client list

This module models the login and logout of a client connection to the NM.
Each connection is served by its own `handle_client_connection` thread,
whose position is `pc[c]`. `Owner[c]` is the user it sends in REG_CLIENT.

- **Registry.** `known`, `active[u]` and `sock[u]` are
  `registered_users`: a record per user, with `active_session` and
  `client_sock`. `Register` is `register_user_persistent` under
  `registered_users_mutex`:
  - an active record makes the login a duplicate (the connection closes);
  - an inactive one is taken over by the new socket;
  - a new user gets a record while there is room (`MaxUsers`), and is
    refused otherwise.
- **Client list.** `clist` and `ccount` are `client_list` and
  `client_count`. `Admit` takes slot `client_count` under
  `client_mutex`, or, with the list full, deregisters and closes.
  `idx[c]` is the slot taken.
- **Logout.** `Disconnect` is the failed `recv_message`. Logout is then
  three steps, as in the code:
  1. `ExitReadName` copies the name in `client_list[idx]` without the
     mutex;
  2. `ExitRemove` finds the entry by socket and shifts the later ones
     down, under `client_mutex`;
  3. `ExitDeregister` calls `deregister_active_session` with the name
     read, which ends the record only if it names this socket.
- **Restart.** `Reconnect` is the user starting the client again. The new
  connection has the closed one's name, as a reused descriptor number
  would.

### `SSConnection.tla`: framing on a client connection to an SS

This module models one client connection to an SS. Messages are framed
by `send_message` and `recv_message` (`common.c`): a 4-byte length, then
the serialized text. `handle_client_request` (`ss.c`) serves the
connection.

- **Client.** `cpc` is the client. `Request` is `send_message`; the client
  then blocks in `recv_message` for the answer, with no timeout. It sends
  the next request only after the answer. `Close` is `close(ss_sock)` at
  the end of a command.
- **Stream.** The stream is counted in bytes: `sent` requests written,
  `arrived` bytes delivered by TCP, `rd` bytes read by the SS thread.
  `Deliver` delivers any prefix, except that the 4-byte header, written
  by one `send`, arrives whole. Bytes carry no values. Only a read's
  position against the message boundaries (`Aligned`) matters: text has
  no NUL byte, so four bytes of text read as an `int` always fail the
  length check.
- **SS thread.** `spc`, `need` and `got` are the thread's place in
  `recv_message`:
  - `RecvLen` is the `MSG_WAITALL` read of the length: at a boundary it
    is the header, anywhere else the check fails and the loop continues;
  - `ShortLen` is that read timing out after 1 to 3 bytes: `len` is then
    partly uninitialised, so the build may reject it, or accept a length
    no request fills (`Garbage`);
  - `RecvData` is the loop of `recv`s for the text;
  - `DataTimeout` is one of them timing out: `recv_message` returns -1
    with the bytes read so far gone;
  - `IdleTimeout` is a timeout (or a closed connection) with nothing to
    read: the loop goes round again, and the thread never exits;
  - `Serve` handles a whole request and answers it.

## Runs

There are 12 runs: 8 pass and 4 violation. A hazard that fails a property
but has no run of its own has a reproduction configuration (below).

| Run | Module | Expect | What it shows |
|---|---|---|---|
| plain | SSWritePipeline | pass | Two users write single words, commit, cancel and undo. No text is duplicated or lost, acknowledged writes stay, sessions and locks stay paired, and no lock is orphaned. |
| reconnect | SSWritePipeline | pass | A client's `recv` fails (reset or EINTR), it reconnects (its old WRITE may land late) and re-LOCKs while another user writes. Sessions and locks stay paired and no lock is orphaned. |
| resplit | SSWritePipeline | pass | Writes may add sentences and UNDO may remove them, so a re-LOCK may be refused. The session table has one slot, so a LOCK can fail. A drain may fail on `malloc` or `fopen`, and a client's reconnection may fail altogether. Sessions and locks still stay paired. |
| store | MetadataStore | pass | The cache's table, recency list and size agree, the trie refines a map, and between requests every cached entry is the trie's metadata. |
| undorace | SSWritePipeline | violation | Two users' commits are drained in one pass, and a third user's UNDO runs between the second merge's parse of the main file and its write back. The write back restores the text the UNDO removed, and the backup is gone. |
| nmserial | NMMetadata | pass | One client at a time creates, deletes, grants, revokes, reads, makes folders, moves files and lists them with VIEW -l, with SS re-registration and cache losses. The trie matches the SSs in server and folder. |
| nmrequests | NMRequests | pass | Requests, views, approvals and denials interleave. No request is lost or duplicated. |
| registry | NMRegistry | pass | Two SSs with one `ss_list` slot; they crash, halt and restart. A stopped SS is eventually marked inactive, with descriptor numbers reused across restarts. |
| hbstale | NMRegistry | violation | An SS restarts and re-registers while an old heartbeat thread is still running. That thread marks the live SS inactive, and nothing makes it active again. The same happens when the new HB_INIT is handled before REG_SS. |
| sessions | NMSessions | pass | Five connections of four users log in, are refused (duplicate, full client list, full registry), disconnect and reconnect. A user never has two logged-in connections, and the live client list always holds exactly the logged-in connections under their own users. |
| desync | SSConnection | violation | TCP holds back the rest of a request's text past the SS thread's 10 s receive timeout. `recv_message` drops what it read, and the loop continues on the same socket. It reads the tail as a length, drops it too, and the client, blocked with no timeout, never gets its answer. |
| lockout | NMSessions | violation | A logout shifts a client down and a new client takes the freed slot before the shifted client's thread reads its name back. That thread deregisters the wrong user, and its own user stays active with no connection: every later login is refused as a duplicate. |

More configurations are kept beside the runs. Each reproduces a hazard
recorded in `PROJECT.json`, with the property it violates:

| Configuration | Property violated | Hazard |
|---|---|---|
| `MC_Pipeline_split.cfg` | `NoTextLost` | a commit that splits a sentence makes a later commit overwrite the wrong sentence |
| `MC_Pipeline_relock.cfg` | `AckedWritesKept` | the re-LOCK after a reconnect recopies the file over the temp file |
| `MC_Pipeline_pastdelim.cfg` | `AckedWritesKept` | a word inserted after the closing delimiter is lost |
| `MC_Pipeline_append.cfg` | `AckedWritesKept` | commits to the append slot are discarded |
| `MC_Pipeline_order.cfg` | `CommitsInLockOrder` | commits merge in UNLOCK order, not lock_time order |
| `MC_Pipeline_orphan.cfg` | `NoOrphanLock` | a refused re-LOCK orphans the lock |
| `revert.cfg` (`MC_SSCheckpoint`) | `NoTextLostCk` | a REVERT between a drain's parse of main and its write back is undone by the write back, as in `undorace` |
| `cachefull.cfg` | `NoSpin` | once the table is full, a get of an absent key (or a put of a new one) spins forever under `cache->lock` |
| `cachestale.cfg` | `AbstractSpec` | removal cuts a probe chain and a get returns a removed key's value |
| `nmcreate.cfg` | `TrieMatchesSS` | two concurrent CREATEs leave an orphan copy on an SS |
| `stranded.cfg` | `AckedWritesNotLost` | a drain fails on `malloc` or `fopen` after the UNLOCK was answered SUCCESS; the same user's next LOCK recopies main over the queued temp file, and the acknowledged word is lost |
| `fdreuse.cfg` | `ActiveSlotServed` | an SS restarts after its old command thread closed its socket; the new command socket gets the old number, and REG_SS closes it: the active slot has no command socket |
| `nmaclfull.cfg` | `ApprovalGrants` | with a full ACL, an approval answers SUCCESS and grants nothing |
| `nmacl.cfg` | `AclAsSet` | a read's access-time update, or a MOVE, writes back a copy taken before the owner's ACL change, which undoes it: a revoked writer regains RW through its MOVE |
| `nmfolder.cfg` | `FolderParentsExist` | CREATEFOLDER of `/a/b` succeeds though `/a` was never created |
| `nmmove.cfg` | `IndexedFilesServable` | after a MOVE into a folder, the SS file handlers look for the file in the storage directory and no longer find it |
| `nmstaleid.cfg` | `ActsOnShown` | two approvals from one listing: the first removal shifts the ids, so the second acts on another request |

`cachebook.cfg` is a passing configuration kept beside them. Every key
collides in a two-slot table, and `TypeOK` and `NodesConsistent` hold
under probing, wrap-around and the full-table spin.

## Properties

- `SSWritePipeline`:
  - `NoDuplicateText` and `NoTextLost` (an action property: only UNDO
    removes words);
  - `AckedWritesKept`;
  - `SessionHoldsLock` and `NoOrphanLock`;
  - `CommitsInLockOrder` (the order the spec promises);
  - `MainGainsOnlySessionText` (an action property): every word a step
    adds to the main file is in a temp file, or in the temp file that
    the merge being written back parsed;
  - `AckedWritesNotLost`: a word whose UNLOCK was answered SUCCESS is in
    main, was removed by UNDO, or is in a temp file a queued commit will
    merge (violated by `stranded.cfg`);
  - `TypeOK`.
- `SSCheckpoint`: `NoTextLostCk` (an action property): words leave main
  only through UNDO or a REVERT (violated by `revert.cfg`).
- `LRUCache`:
  - `NodesConsistent`: the list is injective, lists exactly the occupied
    slots, and `size` counts them;
  - `AbstractSpec` (violated by `cachestale.cfg`);
  - `NoSpin`;
  - `TypeOK`.
- `Trie`: `AbstractTrie`. `MetadataStore` adds `CacheAgreesWithIndex`,
  which covers names the trie accepts. With a refused name it fails after
  one create, which is the hazard at `nm.c:1012`.
- `NMMetadata`:
  - `TrieMatchesSS`: while no create or delete is in flight, a file is in
    the trie exactly when it is on the SS the trie names, and on no other;
  - `AclAsSet`: each file's ACL is the one its owner last set (violated
    by `nmacl.cfg`; with one client at a time it cannot fail);
  - `CacheAgreesAtRest` (with one client at a time it cannot fail);
  - `FolderParentsExist` (the spec's rule for folders; violated by
    `nmfolder.cfg`);
  - `IndexedFilesServable`: every indexed file lies where the SS file
    handlers look for it (violated by `nmmove.cfg`);
  - `TypeOK`.
- `NMRequests`:
  - `RequestsAccounted`: the array holds each open request once, and
    nothing else;
  - `ActsOnShown`;
  - `ApprovalGrants` (violated by `nmaclfull.cfg`);
  - `TypeOK`.

- `SSConnection`: `RequestAnswered` (liveness): a client waiting for the
  answer to a request it has written in full gets it (violated: `desync`).

- `NMSessions`:
  - `OneSessionPerUser`: two connections of one user are never both
    logged in;
  - `ListMatchesThreads`: the live part of `client_list` holds each
    listed connection once, under its own user, and nothing else;
  - `ActiveHasThread`: an active record names a connection whose thread
    is still logged in (violated: `lockout`);
  - `TypeOK`, which also bounds the registry by `MaxUsers`.

For every property of a pass run, `PROJECT.json` lists a mutant: a
plausible bug in one mapped definition. TLC finds the property violated by
each mutant under that run's configuration.

- `NMRegistry`:
  - `ActiveSlotServed`: an active slot's command socket is open and a
    thread polls it (violated by `fdreuse.cfg`);
  - `DeadDetected` (liveness): a registered SS that crashed or halted is
    eventually marked inactive, unless it is restarted;
  - `NoFalseSuspicion`: a running SS whose registration the NM has taken
    is active;
  - `TypeOK`.

## Bounds

- **SS write path:**
  - two sentence indices;
  - at most 4 distinct words;
  - 2 or 3 LOCKs;
  - a session table of 2 slots, or 1 in `resplit`;
  - the failure switches `DiskFails` and `ReconnectFails` are on in
    `resplit` only (and `DiskFails` in `stranded.cfg`), so the other runs
    keep the state space of the success paths;
  - three users in `undorace`, since the race needs two queued commits
    and a third client, idle, to send UNDO.

  Initial documents are chosen so that each case happens:
  - "A. B" has no append slot;
  - "A." has one;
  - "A" lets an UNDO remove a sentence someone still holds.
- **Cache:** two or three keys and two values.
  - `store` gives each of four names its own slot. That is the only
    layout where the cache keeps its contract (see `cachestale.cfg`),
    so `NodesConsistent` is checked there without chains. The
    reproduction config `cachebook.cfg` checks it with every key
    colliding in two slots, where probing, wrap-around and the
    full-table spin all happen.
- **Trie:** bytes `a`, `b` and `W` (≥ 128); names `a`, `ab`, `b` and `aW`.
  - The shared prefix exercises pruning up to an ancestor that ends a
    name.
  - `aW` exercises the refused insert that leaves a node.
- **NMMetadata:**
  - two users;
  - two SSs;
  - three files, one of them on SS 1 at start;
  - folders `/a` and `/a/b`, so `mkdir -p` makes a missing parent, a
    folder on one SS is missing on the other, and a MOVE to it fails.

  The violation runs use two clients on one file.
- **NMRequests:**
  - three users and one file owned by `o`;
  - a queue of three, so the queue-full branch happens with four possible
    requests;
  - room in the ACL for both requesters, or one in `nmaclfull.cfg`.

- **NMRegistry:**
  - `registry` has SS `s1`, which runs twice, and SS `s2`, which runs
    once. `ss_list` has one slot (`MaxSS = 1`), so a reconnection and a
    refusal both happen. Restarts may reuse the old command descriptor
    number for either new socket.
  - Its clock ticks 15 s at a time, which is three monitor periods. The
    thresholds are the code's (grace 60 s, `HEARTBEAT_TIMEOUT` 15 s), so
    only how late detection comes is coarser.
  - `hbstale` uses the code's 5 s period with one SS that runs twice.

- **SSConnection:** two requests of 6 bytes of text each. A real request
  is at least 28 bytes (14 separators and the numbers). What matters is
  that the text is longer than a header, so a misframed read can land
  inside it, and that its length is not a multiple of 4, so a short read
  of the tail happens. The failure needs only one request.

- **NMSessions:**
  - `sessions` has four users and five connections, two of them user
    `u1`'s, so a duplicate login and a takeover both happen.
  - `client_list` has two slots (`MaxClients = 2`), so the full-list
    refusal and shifting removals happen. The registry has room for
    three (`MaxUsers = 3`), so the fourth user is refused.
  - `lockout` needs only three users, one connection each.

## Fairness

- **SS thread steps.** Weak fairness on each SS thread's steps once a
  request has arrived (`Serving`). The thread runs the handler to its end
  and blocks only on `queue->mutex`, which the holder releases.
- **Requests.** No fairness. Clients, and the people typing at them, may
  stop at any time.
- **NMRegistry.** Weak fairness on the clock, the monitor, every NM
  thread step and the SS heartbeat thread's sends. These threads block
  only in `recv`, `sleep` or on `ss_mutex`. An SS starting, exiting or
  halting on a lost command socket gets no fairness. The halt depends on
  a stale `errno` (ss.c:1374) and may turn into a spin instead.
- **SSConnection.** Weak fairness on `Deliver` (TCP retransmits until the
  bytes arrive) and on the SS thread's reads and its answer. Timeouts get
  no fairness: they are possible, never due. The client's requests and
  close are the user's choice.
- **Other modules.** They are checked for safety only, `NMSessions`
  included: a client may stay connected forever. `cachebook.cfg`
  allows deadlock, because a spinning cache call is a terminal state.

## Not modelled (yet)

- **SS crash and restart for the write path.** `NMRegistry` models
  crash and restart as the NM sees them. The loss of the SS's in-memory
  locks, sessions and queue is not modelled.
- **Descriptor numbers, in part.** `NMRegistry` models the reuse of the
  old command descriptor number by a restarted SS, and the close of it at
  nm.c:1414-1415. The second close, by the exiting old command thread
  (nm.c:1514), is not modelled. In `NMSessions` a reconnection reuses its
  connection's name.
- **A retried WRITE.** After a reconnect the client starts the sentence
  again with fresh words; a WRITE repeated with the same words is not
  modelled.
- **The detection latency the spec promises** (15 s after the grace
  period). It would need a second clock per slot; see the hazard at
  nm.c:1797.
- **Word boundaries inside WRITE content.** Content is one of a few token
  templates.
- **Newline tokens.**
- **A passing run with checkpoints.** Every configuration with commits
  meets the REVERT race, so `SSCheckpoint` has only its reproduction
  configuration. A run of its own would repeat `undorace`'s finding.
  `LISTCHECKPOINTS` and `VIEWCHECKPOINT` only read.
- **NM handlers not listed above.** This covers INFO, VIEW without `-l`,
  VIEWFOLDER, LIST and EXEC. They only read the NM's state.
  VIEW's listing text is not modelled either, so neither is its unbounded
  `sprintf` into an 8192-byte buffer (hazard nm.c:811). They are listed as components in `PROJECT.json`.
- **The folder trie's nodes.** The folder trie
  is a map in `NMMetadata`; its nodes reuse the node code `Trie` models.
- **The codec's text format and the logger.** `serialize_message` and
  `deserialize_message` are formatting. Their only hazard, a `|` in a
  field other than the last, needs a name the spec forbids.
  `get_timestamp`, `trim_whitespace` and the logger produce output only.
- **Framing on the other connections.** The NM's connections and the SS's
  command connection to the NM use the same `recv_message`. The NM
  closes a connection on any failure. The SS's command thread continues
  only on `EAGAIN` and `EINTR`, whose stale `errno` is the hazard at
  ss.c:1374.
