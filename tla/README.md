# TLA+ models of lib_mogilefs

This directory holds TLA+ models of the MogileFS client library in
`src/src`. TLC checks them. The models cover:
- the concurrent core: the tracker registry, the per-tracker connection
  pools, the background maintenance thread and request dispatch
  (`pool.c`, `request.c`, and the parts of `file.c` that start and stop
  them);
- the file-server map shared by all transfers (`file.c`);
- the upload retry loop (`file_upload.c`);
- the download path failover and its output buffering
  (`file_download.c`);
- the request line encoder and reply parser (`tracker.c`);
- what the tracker-command wrappers of `file.c` make of a reply
  (`TrackerCommands`), with `mfs_get_paths` run inside the download;
- the watch line reader (`watch.c`).

An abstract specification of the registry and its pools,
`ConnectionRegistry`, is checked to be implemented by the pool code.
`PROJECT.json` lists
every component, run, mutant, hazard and finding, and maps each definition
to the source lines it models.

## The system

- **TrackerRegistry** (`pool.c`): a fixed array of trackers split into an
  `active` and an `inactive` index array under one read/write lock.
  - `mfs_pool_activate` and `mfs_pool_deactivate` move an index between the
    arrays under the write lock. `remove_from_array` tells them whether the
    index was present.
  - `mfs_pool_list_*_trackers` copy one array under the read lock and pick a
    random start. `mfs_pool_next_tracker` then walks that copy as a ring.
- **ConnectionPool** (`pool.c`): one LIFO stack of connection entries per
  tracker, each under its own mutex.
  - `mfs_pool_get_connection_ex` pops an entry, or connects outside the lock.
    On a failed connect it calls `mfs_pool_deactivate`, which drains the
    stack outside the lock.
  - `mfs_pool_return_connection` stamps `last_used`, then pushes under the
    mutex.
  - `mfs_pool_get_expired_trackers` unsplices the expired suffix from the
    tail.
- **Maintenance thread** (`mfs_pool_maintenance`): while `pool_running` is
  set, it does three things in turn:
  - probes each inactive tracker, activates it and returns the connection
    on success;
  - reaps expired connections of each active tracker;
  - waits on a condition variable with a timeout.

  `mfs_pool_stop_maintenance_thread` clears the flag, signals and joins
  `trackers->maintenance_thread`.
- **RequestDispatcher** (`request.c`, `mfs_request_do`): walks the active
  ring. On each tracker it keeps taking connections until one of these
  happens:
  - a request succeeds: the connection is returned and the call ends;
  - a fresh connection fails: the thread moves to the next tracker;
  - no connection can be had: the thread moves to the next tracker.

  A failed pooled connection is destroyed and the same tracker is tried
  again.
- **FileSystemLifecycle** (`file.c`): `mfs_init_file_system` starts a
  maintenance thread on a pool that `mfs_pool_init_quick` made, which
  already started one. `mfs_close_file_system` stops it and then destroys
  the pool.
- **FileServerMap** (`file.c`, `mfs_get_file_server`): a hash from a
  storage node's `host:port` to a reslist of HTTP handles, under
  `file_system->lock`. A lookup under the read lock that misses drops it,
  takes the write lock, looks again and inserts.
- **FileUpload** (`file_upload.c`, `mfs_store_file_or_bytes`): up to
  `max_retries` attempts of `create_open`, PUT and `create_close`.
  `call_tracker` alternates, so a retry first reuses the last `put_url`.
  The PUT is a curl transfer whose read callbacks hand over the body and
  whose progress callback, `mfs_curl_upload_timeout_checker`, is the only
  inactivity timeout.
- **Tracker commands** (`file.c`): `mfs_get_paths`, `mfs_delete`,
  `mfs_rename`, `mfs_list_directory`, `mfs_path_info` and the other
  wrappers each build a parameter list, call `mfs_request_do` and read
  the reply hash: a count (`paths=`, `files=`) converted with `atoi`,
  numbered keys (`path1..`, `file0..`), and the ERR code, where
  `unknown_key` (and for `path_info` also `path_not_found`) means "not
  found" (`APR_EBADPATH`).
- **FileDownload** (`file_download.c`, `mfs_file_system_get`): calls
  `mfs_get_paths` and tries the paths it returned, in order. `mfs_file_server_get` streams each
  body through a write callback into one of three outputs:
  - the caller's file (`mfs_get_file`);
  - the caller's bucket brigade (`mfs_get_brigade`);
  - a temporary brigade (`mfs_get_file_or_bytes`). It spills to a temporary
    or destination file once it would exceed `max_buffer_size`.
- **WireCodec** (`tracker.c`): builds a parameter list, encodes it into
  one request line, reads the reply in socket-sized chunks and parses it.
  It is used by every request the dispatcher sends.
- **WatchStream** (`watch.c`): one thread reads the tracker's `!watch`
  feed on a dedicated connection. It reads lines through the 5000-byte
  `read_buf`, reconnects after a failure, and filters `[cache][id]`
  lines. Other threads may call `stop_watching` at any time.
- **Logger** (`logger.c`) is pure I/O and is left out.

## Modules

### `TrackerPool.tla`

This module holds the registry, the stacks, the maintenance thread and the
stop.

**State.**
- `active` and `inactive` are sequences of tracker indexes.
- `stack[t]` holds connection identities, head first.
- `lastUsed[c]` is the stamp of connection `c`, on an abstract clock of
  `0..MaxClock`.
- `live` is the set of connections that exist.
- Each thread has its own locals: `pc`, the copied list `lst`, `st`
  (`start_postion`), `cur` (`current_position`), `ti` (tracker index),
  `held` (the entry it owns) and `isNew` (the `create_new` out-parameter;
  a failed connect leaves it true, and the deactivate and its drain do not
  touch it).
- `poolRunning` is `pool_running`.
- `mainPc` is the thread calling `mfs_close_file_system`.

**Actions.** Every critical section of `pool.c` is one step. A read of
shared state outside any lock is its own step. These are:
- the unlocked `*_tracker_count == 0` test;
- `pool_running` at the loop head;
- the flag write in the stop.

Code that touches only a thread's own data is folded into the neighbouring
locked step:
- the ring iterator over a private copy;
- the connect call (`mfs_tracker_connect`, `tracker.c:50-76`, an
  operator with a connected and a failed outcome), before its deactivate;
- the `last_used` stamp of an entry the thread owns;
- the destroy of an entry it owns;
- `mfs_destroy_pool` (`pool.c:96-114`), in the step that returns from the
  join at `pool.c:365`.

Other threads cannot observe these, so folding them removes no
interleaving of shared-state accesses. The stamp is still taken in an
earlier step than the push, as in the code, so the stamp/push race
remains.

Undefined behaviour is modelled like this:
- `rint(rand()/RAND_MAX*(count-1))` with `count = 0` yields a start of -1
  or 0.
- Reading `tracker_indexes` at a position outside the copy sends the
  thread to `pc = "oob"`, where it stays.

**Threads.**
- Request threads (`Workers`) run the functions `request.c` calls.
- Maintenance threads (`MaintThreads`) run `mfs_pool_maintenance`.
- `MaintHandle` is the one stored in `trackers->maintenance_thread`.

### `RequestDispatch.tla`

This module extends `TrackerPool` with `mfs_request_do`. Its steps are:
- `start`: the unlocked count test;
- `snapshot`;
- `next`: the ring step and the get on the tracker found;
- `get`: the same-tracker retry;
- `request`: a nondeterministic outcome from `RequestOutcomes`;
- `return`: the push and the end of the call.

`tried` is a ghost: the trackers picked in the current call. It composes
workers, maintenance threads, the stop (`StopStep`) and `Tick` into `Spec`.

### `ConnectionRegistry.tla`

This is the abstract contract of the registry and its pools (spec sections
3 and 4.2). Every operation is one atomic move.

**State.**
- `up`: the active trackers.
- `idle[t]`: the connections pooled for tracker t.
- `owner[c]`: the thread owning connection c, or `Nobody`.
- `home[c]`: the tracker c is connected to, or `NoTracker` if c does not
  exist.

**Actions.**
- `Activate` and `Deactivate`.
- `Connect`: a thread holding nothing connects a new connection.
- `Take`: a thread holding nothing takes an idle connection of a tracker.
- `GiveBack`: the owner puts a connection into its home's pool.
- `Close`: the owner closes a connection.
- `Discard`: idle connections are closed (drain, reap, pool destruction).

`RequestDispatch` instantiates it as `Registry` with this mapping:
- `up` is the set of the active array;
- `idle[t]` is the set of the entries on `t`'s stack;
- the owner of a connection is the thread whose `held` it is;
- the home of a held connection is the tracker the holder works on (the
  `tracker_index` it will return it with). The home of a pooled
  connection is the tracker whose stack holds it.

`RegistrySpec == Registry!Spec` is checked as a property. The pool does
not record which tracker an entry belongs to. `mfs_pool_return_connection`
pushes onto whatever `tracker_index` its caller passes. So "a connection
goes back only to its own tracker's pool" is a promise the callers must
keep, and the refinement checks it. The check also covers the facts that
the registry moves one tracker at a time and that a thread never holds
two entries.

### `WatchStream.tla`

This module models `watch.c`.

**State.**
- `rb`, `bp` and `cnt`: `read_buf`, `buf_pointer` and `watch->cnt`.
  `rb` keeps whatever an earlier read left in it.
- `conn`: whether the watch holds a connection.
- `unsent`: what the tracker still has to send on that connection.
- `out` and `left`: the caller's line so far and `sock_readline`'s `len`.
- `allow`: `allow_watching`.
- `mode`: which of the two functions the caller called.
- Ghosts: `sent` (the lines the tracker sent on the current connection),
  `got` (the lines returned for it) and `payloads` (the cache filter's
  results).

**Actions.**
- `sock_readline`: one turn of its loop. A refill writes 1..`BufSize`
  bytes over the front of `read_buf`. A time-out changes nothing and is a
  stuttering step. An error or end of stream fails the read.
- The byte after `read_buf` is the first byte of `buf_pointer` and is
  chosen from `AfterBuf`. The same set stands for bytes an earlier call
  left in the caller's buffer.
- `get_next_watch_line_loop`: connects, sends `!watch` (a failed send
  means the tracker sends nothing) and starts a read.
- `ReadlineFailed`: the connection is destroyed. `cnt` and `buf_pointer`
  stay as they are, as in the code.
- `CacheFilter`: the `strstr`/`strcspn`/`memmove` of
  `get_next_watch_cache_line` on the caller's buffer. The eight bytes
  `[cache][` are one symbol, `CK`.
- `stop_watching` and `enable_watching`: other threads, at any step.

### `FileServerMap.tla`

**State.**
- `servers` is the hash, mapping a host to a server identity or
  `NoServer`.
- `created` counts the reslists allocated.
- `writer` is the holder of the write lock.
- Each caller has `pc`, `host` and `result`.

**Actions.** Each locked section is one step, because readers only read
and the writer is exclusive:
- `Call`;
- `mfs_get_file_server_read`: lines 98-113. It also covers the `EDEADLK`
  return of the read lock to the thread that already holds the write
  lock;
- `mfs_get_file_server_write`: lines 114-137. Its three outcomes are an
  insert, a failed `apr_reslist_create`, and the re-check finding the
  server.

Callers call again after returning.

### `FileUpload.tla`

This module covers one call of `mfs_store_file_or_bytes`. The tracker's
answers to `create_open` and `create_close`, and the storage node's answer
to the PUT, are inputs. Destinations are small integers that the tracker
hands out in order. The module has one action per section of the loop:
- open: lines 250-283;
- put: lines 284-299, with `mfs_file_server_put` up to
  `curl_easy_perform` (lines 127-195): the lookups and the stat that
  return early, or the start of the transfer and its timeout tracker;
- the transfer: the read callbacks (lines 68-115) handing 1..n remaining
  bytes to curl, a tick of the clock, and the return of
  `curl_easy_perform` (lines 196-217), followed by the caller's test of
  the result (lines 300-305). The progress checker (lines 37-63) runs
  after each chunk and each tick;
- close: lines 307-329;
- return: lines 336-339.

The state around the call has these parts:
- `stored` and `committed` are what the storage node and the tracker
  hold;
- `puts` counts the PUTs per destination;
- `reslistHeld` counts the file-server connections not given back;
- `poolLive` tracks a pool that the call created itself;
- `now`, `tt`, `sent` and `timedOut` are the clock, the
  `mfs_timeout_tracker`, curl's `ulnow` and the checker's -1; `lastData`
  is when the last chunk was handed over.

curl passes `ultotal`, the size set with `CURLOPT_INFILESIZE_LARGE`, to
the checker, so the checker sees growth only at its first call, and line
58 measures from `start_time`. A PUT that curl completes is `CURLE_OK`
whether the storage node stored the body or answered with an HTTP error:
`CURLOPT_FAILONERROR` is not set and the response code is never read
(`file_upload.c:201-215`). So `mfs_file_server_put_end` returns success
either with or without adding `dest` to `stored`.

`CommittedHasBlob` (the tracker commits only a destination the storage
node holds, spec 4.5 and 7) is stated in the module but not run. With the
HTTP status unchecked, TLC breaks it in one attempt: an error reply to the
PUT, then `create_close` commits the file. Every run slot already asks
another question, so this is recorded as a hazard at `file_upload.c:201`.

### `TrackerCommands.tla`

This module has no state of its own. Each wrapper of `file.c` is an
operator from the response of `mfs_request_do` to the wrapper's return
value and what it wrote through its output pointers. A response is
`[rv, ok, result]`, with `result` the reply hash.
- Keys are the strings the code builds (`"path" \o ToString(n)` for
  `sprintf("path%d")`).
- A value is a sequence: the characters of a count or number, or one
  opaque element for a URL, name or error code. `NULL` is an absent key.
- `Atoi` is `atoi`/`apr_atoi64`: blanks, a sign, then digits up to the
  first other character ("2x" is 2, "x" is 0).
- `mfs_get_paths` accepts a count of 1..99 only if every `pathN` is
  present; a `"0"` writes `*path_count = 0` and still fails.
- `mfs_list_directory` numbers entries from `file0`, and a listing entry
  without a name, a type, or a symlink's target fails the whole call.
- `mfs_path_info` writes `mtime` and `server_id` before it looks at the
  type, so a reply without one fails with those fields overwritten.
- The status-only wrappers (`mfs_delete`, `mfs_rename`, ...) are
  `CheckOk`; `mfs_create_directory`/`link` also store `nid`;
  `mfs_stats_filepath`/`mfs_checkfs_filepath` fill their fields even
  after an ERR.

Only `mfs_get_paths` has a modelled caller: `DownloadFailover` calls it
on each of a set of replies. The other operators are the code's
behaviour on record for a caller model to use.

### `DownloadFailover.tla`

This module covers one call of `mfs_file_system_get`, byte by byte. A
byte is `<<p, k>>`, the `k`-th byte of replica `p`, so the content of an
output can be compared with the replica it should hold.

**State.**
- `files` and `filePos` are file contents and offsets.
- `brigade`, `tmpBrigade` and `bytesOut` are the other outputs.
- `wbuf` becomes `wfile`, `fileSize`, `currentSize` and `mark`
  (`start_bucket`).
- `branch` records which of the three cases at lines 183-195 the attempt
  took.
- `now`, `tt` and `dltotal` are the clock, the `mfs_timeout_tracker` and
  the total curl reports. `dltotal` is the Content-Length, or 0 when the
  storage node sends none.
- `timedOut` records that the progress callback returned -1.
- `lastData` is a ghost: the time of the attempt's start or its last
  delivery.
- `reply` (ghost) is the response `mfs_get_paths` got, and `paths` the
  URLs it returned; `len` gives each a body length.

**Actions.**
- `mfs_file_system_get_paths` runs `TrackerCommands!mfs_get_paths` on
  one of `PathsReplies` and returns its error or starts the loop.
- `mfs_file_system_get_loop` is one turn of the loop at lines 309-317.
  After the last path it returns. A URL in `BadUrls` fails to parse
  (`APR_EGENERAL`), and the loop goes on to the next path.
- `mfs_file_server_get_start` is the start of `mfs_file_server_get`
  (lines 165-197) on a good URL. Getting a file server or a connection
  may still fail; otherwise the transfer starts.
- `mfs_file_server_get_receive` is one delivery of `n` bytes through
  `mfs_buffer_get_write_callback`, followed by a call of the progress
  callback `mfs_curl_download_timeout_checker`.
- `mfs_file_server_get_tick` advances the clock by one tick, with curl's
  periodic call of the same callback.
- `mfs_file_server_get_finish` covers the end of `curl_easy_perform`, the
  cleanup and the length check.

A transfer may also abort at any delivery, for a lost connection. A
failure to open the spill file has the same effect. The clock needs no
bound of its own: the checker ends every attempt within twice the
timeout.

### `WireCodec.tla`

This module covers the tracker line protocol. A string is a sequence of
byte values. `char` is signed, so a byte above 127 goes through the
encoder's `>> 4` as a negative number (`SignedChar`).

**Operators** (one per C function):
- `mfs_tracker_url_encode` and `mfs_tracker_url_decode` (recursive);
- `mfs_tracker_add_parameter`, `mfs_tracker_add_parameter_pointers`,
  `mfs_tracker_add_meta_data` and `mfs_tracker_copy_parameter_pointers` on
  a record with `count`, `strlen`, `meta_count` and the encoded pairs;
- `mfs_tracker_build_request`: the first `*size` bytes of the line it
  writes, which is what `apr_socket_send` sends;
- `ReadLoop`, the terminator check, `mfs_tracker_parse_response` and the
  `skip_*` helpers, composed in `mfs_tracker_request_receive`.

**State.**
- `params` and `history` are the list being built and the add calls made
  on it.
- `staged` and `stagedCalls` are a second list of extra parameters. It
  holds metadata added with `prepare = false`, as `file_upload.c`'s
  `extra_open_parameters` does.
- `exchange` is the last `mfs_tracker_request`: the calls, the sent bytes,
  the tracker's reply, how it was cut into reads, and the result.

**Actions.** Init, the adds on either list, the copy, and the request.
The tracker's reply is any `OK` or `ERR` reply over the model's keys and
values. It is written with uppercase hex, as a tracker may, and delivered:
- whole, or cut into two reads at three places;
- short, followed by a zero-sized read;
- without its last byte.

**Reference.** `RefRequest` and `TrackerReplies` are written from the
protocol (spec 4.1), independently of the code. They encode from the
unsigned byte value and state the expected result directly.

### `TrackerRegistration.tla`

This module builds the pool from the configured list "host:port,...":
`mfs_pool_init_quick`, `mfs_pool_init` and `mfs_pool_register_tracker`
(`pool.c`), and `mfs_tracker_init2` (`tracker.c`). They run once, before
any thread, so they are operators, not actions.
- A list is a sequence of segments between commas. A segment is its
  address and whether it has a `':'`. `Empty` stands for an empty
  segment. Ports are never tested, so they are left out.
- `CommaCount` sizes the arrays. `Tokens` is `apr_strtok`, which skips
  empty segments.
- `RegisterAll` is the token loop. A token without `':'` gives `NoPool`
  (the `NULL` return).
- `mfs_pool_register_tracker` has the full-array guard, the failed
  resolution (slot left unused), then the append to the active array.
  Filling the last slot starts the maintenance thread.

`InitQuickRegistersResolvableTokens` compares `mfs_pool_init_quick` with
`ReferencePool` for every list of up to three segments over two
resolvable addresses and one unresolvable one. `MCRequestDispatch`
states it as an `ASSUME`, so TLC checks it before every dispatch run.
`PoolFullyRegistered` is stated and is false (see Findings).

### `MCRequestDispatch.tla`

This is the TLC instance: model values for two request threads, two
maintenance threads and three connections, with sets of each size that the
`.cfg` files select. `MCFileUpload.tla`, `MCFileServerMap.tla` and
`MCDownloadFailover.tla`, `MCWireCodec.tla` and `MCWatchStream.tla` give the other modules their small sets.

## Runs

| run | cfg | setting | checks | result |
|---|---|---|---|---|
| dispatch | MCRequestDispatch.cfg | 2 workers, no maintenance | TypeOK, TrackerPartition, ConnectionOwnership, DispatchTriesEachOnce, RegistrySpec | pass (~112k states) |
| double_start | MCDoubleStart.cfg | 1 worker, 2 maintenance, 1 tracker | TrackerPartition, ConnectionOwnership, MaintenanceStops | pass (~905k states) |
| count_toctou | MCOutOfBounds.cfg | 2 workers | NoOutOfBoundsRead | violation |
| deactivate_return_race | MCDeactivateRace.cfg | 2 workers | InactiveTrackerHasNoPooledConnections | violation |
| watch_lines | MCWatchLines.cfg | 4-byte buffer, 2 connections | WatchLinesAsSent | violation |
| pool_freed | MCPoolFreed.cfg | 2 maintenance, handle = second | PoolFreedAfterMaintenanceExit | violation |
| upload | MCFileUpload.cfg | 3 attempts, 3 destinations, sizes 0, 1 and 3, timeout 2 ticks | TypeOK, SuccessMeansCommitted, DestinationPutAtMostTwice, StalledUploadAborted, UploadTerminates | pass (~47k states) |
| download | MCDownloadFailover.cfg | 8 get_paths replies, up to 2 paths, bodies 0-3 bytes, buffer 1 | TypeOK, SinkHoldsDeliveredBytes, FailedTransferDiscarded, StalledTransferAborted, DownloadFollowsTrackerReply, DownloadReturns | pass (~127k states) |
| download_sink | MCDownloadSink.cfg | same | SinkIsWinningReplica | violation |
| file_server_map | MCFileServerMap.cfg | 3 callers, 2 hosts | OneServerPerHost | pass (~3.2k states) |
| file_server_lock_leak | MCFileServerLockLeak.cfg | same | LockReleasedOnReturn | violation |
| wire_codec | MCWireCodec.cfg | up to 2 add calls, replies of up to 2 pairs | RequestIsReferenceLine, ReplyParsedAsSent | pass (~89k states) |

### The properties

- **TrackerPartition.** Every tracker is in exactly one of the two arrays,
  once. It is broken if `remove_from_array`'s result is ignored on a
  concurrent double deactivation or activation.
- **ConnectionOwnership.** Every live connection is in exactly one stack
  slot or held by exactly one thread, and a destroyed one is nowhere. It
  covers pops, pushes, drains, reaps and the final destroy.
- **DispatchTriesEachOnce.** Within one call, the picked trackers are
  distinct and come from the snapshot. A call that gives up has tried all
  of them. This is the ring iterator's contract (spec 4.3).
- **SuccessMeansCommitted.** The upload reports success only after the
  tracker accepted a `create_close` for the destination, across retries
  that reuse a `put_url`.
- **DestinationPutAtMostTwice.** The `call_tracker` alternation PUTs to
  one destination at most twice. **UploadTerminates**: the loop ends.
- **StalledUploadAborted.** A PUT whose read callback has handed curl no
  bytes for twice the timeout is no longer running. The checker, called
  at least once a tick, has aborted it, with or without an empty body
  (the branch with `last_transferred_at = 0`).
- **SinkHoldsDeliveredBytes.** During a transfer, the output holds exactly
  the bytes curl delivered, in order, also across the switch to a spill
  file, where the buffered prefix is copied into the file first.
- **FailedTransferDiscarded.** No byte of a failed transfer is left in
  the caller's brigade.
- **StalledTransferAborted.** A transfer the checker has not aborted had
  data, or started, less than twice the timeout ago. A `>` in place of
  `>=` breaks it.
- **DownloadFollowsTrackerReply.** Across `mfs_get_paths` and the
  download loop: the loop walks exactly the URLs the reply lists, in
  order (checked against a reference reading of the reply, not the
  code's), and fails only after trying all of them. A reply that lists
  none ends the call at once, with "not found" only for `unknown_key`
  and the dispatcher's own error when no tracker answered. Taking every
  ERR for "not found" breaks it.
- **DownloadReturns.** The call returns.
- **OneServerPerHost.** Racing callers all get the one server the map
  holds for a host, and no reslist is created twice (the double-checked
  insert).
- **RequestIsReferenceLine.** For any ordinary, metadata or copied
  parameters, the bytes sent are exactly the protocol line. This needs
  the encoding of a negative `char`, the metadata numbering, the `&`
  separators and the hand-computed buffer size all to be right.
- **ReplyParsedAsSent.** However an `OK` or `ERR` reply is split across
  reads, the result holds exactly its decoded pairs, with the last one
  winning for a repeated key. A reply that never arrives whole is an
  error.
- **RegistrySpec** (refinement). The pool, driven by request threads that
  fail, deactivate, drain and retry, implements `ConnectionRegistry`. A
  return pushed onto another tracker's stack breaks it, while keeping
  TrackerPartition and ConnectionOwnership true.
- **MaintenanceStops** (liveness). Once `pool_running` is cleared, every
  maintenance thread leaves its loop. The signal may arrive while the
  thread is not waiting. In that case only the timed wait saves it.

### Findings

The six violation runs reproduce real disagreements, each with a short
trace:
- **count_toctou.** A worker passes the unlocked count test. The other
  worker then deactivates both trackers. The copy is empty and the first
  worker reads `tracker_indexes[0]` or `[-1]`.
- **deactivate_return_race.** A worker holds a pooled connection of
  tracker 0. The other worker deactivates tracker 0 and drains its stack.
  The first then returns its connection to the stack of an inactive
  tracker.
- **watch_lines.** The tracker sends `"a\r\n\r\n"`. The first read
  brings `"a\r"` and the next one `"\n"`. After the first read,
  `sock_readline` takes one byte more than it received: `read_buf[2]`,
  a NUL left by `apr_pcalloc` (line 83 does not decrement `cnt`). The line
  becomes `"a\r"` NUL `"\n"`. The `'\r'` is not stripped, and the caller
  gets `"a\r"`. A stale byte instead of the NUL puts a byte the tracker
  never sent into the line. A stale `'\n'` behind a shorter read becomes
  an extra empty line. `test_watch_calling` passes only because its whole
  reply arrives in one read.
- **pool_freed.** The thread started first is not joined. `mfs_destroy_pool`
  runs while it is still in its loop.
- **download_sink.** Path 1 writes a byte into the caller's file and
  aborts. The file is rewound but not truncated. Path 2 sends an empty
  body and wins. The caller's file still holds path 1's byte. The same
  happens with a `destination_file_path`, which is reopened without
  truncation. In a brigade, a length mismatch keeps the rejected body and
  appends the next one.
- **file_server_lock_leak.** Two callers miss the same host under the
  read lock. The first inserts it. The second's re-check finds it and
  returns with the write lock held (file.c:136). After that, every other
  caller's read lock waits for ever.

Single-step disagreements that a unit test reaches are stated as
properties without a run. They are listed as hazards in `PROJECT.json`:
- `FramingErrorNotRetried`: `request.c` retries framing errors.
- `ManagedPoolDestroyed`: a failed rewind leaks the upload's pool. This
  one is no longer among the hazards, which are capped at 40.
- `FileServerConnectionsReleased`: `APR_ENOSTAT` keeps a reslist
  connection.
- `StatusCarriesCause`: `rv = f() != APR_SUCCESS` returns 1.
- `ProgressingUploadNotAborted`: the comment at `file_upload.c:28` says
  the checker times out only when the last transfer is too long ago;
  TLC finds a PUT still reading chunks aborted once the timeout has passed
  since its start.
- `ProgressingTransferNotAborted`: the comment at `file_download.c:40`
  says the checker times out only when the last transfer is too long ago.
  The checker measures the growth of `dltotal` (the announced total), not
  of `dlnow` (line 59), and measures from `start_time` (line 70). TLC
  breaks it in four steps: the length becomes known at the first tick,
  and a delivery in that same tick is aborted. Any real download that
  lasts longer than `file_server_timeout` is aborted while data still
  flows. There is no run left for it.
- `StackOrderedByLastUsed`: `mfs_pool_return_connection` stamps
  `last_used` before it takes the mutex (`pool.c:315`). Two returns then
  push in the reverse order of their stamps, and the tail reap keeps an
  expired entry above a newer one. TLC breaks it with two workers and
  clocks 0 and 1. Its only effect is a connection kept past its expiry,
  so the watch reader's bug has the run instead.

- `RequestReturns`: every `mfs_request_do` call returns. TLC breaks it
  under per-thread weak fairness, and in both dispatch configurations, so
  no passing run can carry it.
  - With two request threads, w1's pooled request fails and the
    connection is destroyed. w2 then gets a fresh connection, succeeds
    and pushes it back. w1 pops that connection, fails again, and the
    cycle repeats. The `keep_trying_tracker` loop (`request.c:45`) has no
    bound, so a request that keeps timing out while other threads use the
    tracker never returns.
  - With one request thread and two maintenance threads, the drain loop
    of `mfs_pool_deactivate` (`pool.c:250-256`) keeps destroying probe
    connections that a maintenance thread pushes back. This needs the
    maintenance loop, timed wait included, to outrun the drain between
    each of its pops, which real timing makes unlikely.

The parent-directory loop of the write callback (`file_download.c:104`)
stops before index 0. A `destination_file_path` with no `'/'` after its
first character, such as `"out.bin"`, leaves `last_slash` NULL, and line
113 writes through it when the download first passes `max_buffer_size`.
The model abstracts the path to whether one is given, so this is a hazard
without a property.

A failed `apr_file_write_full` in the write callback
(`file_download.c:87-91`) leaves `bytes_written` short of the chunk, so
curl aborts the transfer as a write error. The model's file writes always
succeed; a failed write would be one more way to end a transfer with an
error, which the abort at any delivery already covers.

Two `WireCodec` disagreements are recorded as hazards and have no run:
- After `"OK "` the parser still skips spaces and digits
  (`tracker.c:350`), although spec 4.1 says this was disabled. A key
  beginning with a digit loses those digits. Adding such a key to
  `MCKeys` makes ReplyParsedAsSent fail on `"OK 1k=\r\n"`. The
  tracker's own keys all begin with a letter.
- With an empty parameter list, `build_request`'s size is one short. The
  request then lacks its `'\n'`. No caller sends an empty list.

Registration leaves slots unused (`pool.c:124`). An unresolvable address,
or an empty segment such as the one in `"h1:1,,h2:1"`, leaves
`tracker_count` below `max_tracker_count`. `PoolFullyRegistered` states
the opposite, and TLC finds it false. In that case the maintenance thread is never
started by registration, and `mfs_destroy_pool` walks every slot,
locking mutexes that were never created. No run is spent on it: one
call with a bad address shows it.

Details are under "findings" in `PROJECT.json`.

## Bounds

- **Two trackers.** This is enough for failover, for deactivating every
  tracker (the TOCTOU), and for a ring with a wrap.
- **One tracker in double_start.** This keeps the two maintenance threads
  in reach; their race is on one tracker anyway.
- **Three connection identities.** This is the most two threads and two
  stacks need at once. Destroyed identities are reused, as freed memory is.
- **`MaxClock = 1`, `ExpireTime = 0`.** A stamp of 0 is expired at clock 1
  and a stamp of 1 is not. That is the only distinction the reap and the
  stack order depend on.
- **Request outcomes.** Success and transport error.
- **Upload.** Three attempts and three destinations: two attempts show the
  reuse of a `put_url`, and the third a fresh `create_open` after two
  failures. Bodies of 0, 1 and 3 bytes: an empty body never makes the
  checker see growth, one byte is one chunk, and three bytes can be handed
  over in one, two or three chunks, in either order of sizes. A timeout of 2 ticks and a clock bound of 13 = 1 + 3 attempts x 2 x
  2 ticks, so every attempt can run until the checker aborts it.
- **Download.** Eight `get_paths` responses: no tracker answered, ERR
  `unknown_key`, another ERR, `paths=0`, a count of 2 with `path2`
  missing, one path, and two paths of which the first is unparsable or
  both are good. A timeout of one tick, which separates the limit of the
  first branch (two ticks) from the second (one tick). Two paths, bodies of 0-3 bytes, deliveries of 1 or 2
  bytes and `max_buffer_size = 1`. These give every spill position (first
  delivery, later delivery, none), a shorter body after a longer one, and
  a length mismatch with `requiredLength = 2`.
- **File-server map.** Three callers and two hosts: two callers race on
  one host while a third uses the other.
- **Wire codec.**
  - Two keys and three values: the empty value; `"a &"` (a space and a
    separator); and `'='` followed by byte 0xE9, a negative `char`.
  - At most two add calls. These are enough for two metadata pairs, whose
    numbers must be 0 and 1, for metadata mixed with ordinary parameters,
    and for a staged list copied after direct adds.
  - Replies of up to two pairs, so a repeated key occurs.

- **Watch.** `read_buf` of 4 bytes and lines of at most 5 bytes
  (`len = 6`). The tracker sends either a one-byte line and an empty one
  (a full read, a short read after a longer one, and a line cut between
  reads), or a cache line naming another client that is too long for
  `len` (the `APR_ENOMEM` path). There are at most two connections, so a
  reconnect with stale bytes happens.

Every mutant listed in `PROJECT.json` is caught by its property under
these bounds.

## Fairness

`Spec` assumes weak fairness for each worker, each maintenance thread and
the stop sequence. These are OS threads, and none of them blocks forever
while it can step:
- the only waits are the bounded timed wait and the join;
- the join is enabled once its thread has exited.

In `RequestDispatch` the clock gets no fairness, since no property
needs time to pass there. `FileUpload` and `DownloadFailover` are one
thread each, with weak fairness on its next step; that step may be a tick
of the clock while a transfer runs, and the clock stops at its bound, so
a transfer ends by completing, failing or being aborted. `FileServerMap` has no liveness property. Its passing
run does not deadlock: after a leaked write lock, the holder can still
step (its read lock returns `EDEADLK`).
MaintenanceStops relies on `mfs_pool_maintenance_timeout`: the timed wait
returns without a signal.

## Not modelled, and why

- **Registration as steps.** Registration happens once, before any
  thread uses the pool. `TrackerRegistration` checks it as operators, and
  the dispatch model starts from its result. The mutex and stack
  creation inside `mfs_pool_register_tracker` is assumed to succeed.
- **`maintenance_thread_check_count`, `connection_count`,
  `maintenance_thread_running`.** These are written and never read.
- **Memory pools, logging, `apr_*` error returns of lock calls.** The lock
  calls are assumed to succeed.
- **The components listed as not modelled in `PROJECT.json`.**

## Plan for the remaining components

In order of importance:
1. A caller of the other `TrackerCommands` wrappers (the FilePaths
   listing and `path_info`), with properties on what a caller sees
   after an error, once the number of runs allows one.
2. A passing `WatchStream` run, for the stop (`stop_watching` ends every
   loop) and for the cache filter's self-suppression, once the number of
   runs allows one.
3. Checking `RegistrySpec` with maintenance threads, on two trackers.
   The combined state space is beyond 5 minutes today.
4. `RequestReturns` on a configuration with one request thread and no
   maintenance thread. There both livelocks are excluded, and the walk and
   the retry loop must end.

What stops these is the number of runs (twelve), not the code. Some
functions are not modelled at all: `mfs_tracker_init` (a wrapper that
nothing calls), the logger, and the curl and APR calls, which appear only
through their outcomes. The gaps in the two partly modelled components
are listed in `PROJECT.json`:
- the unexercised tracker-command wrappers;
- the download's file-write errors and destination path.
