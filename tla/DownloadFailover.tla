-------------------------- MODULE DownloadFailover --------------------------
(***************************************************************************)
(* mfs_file_system_get (src/src/file_download.c): mfs_get_paths (file.c,   *)
(* TrackerCommands) on the tracker's reply, path failover over the URLs it *)
(* returned, and mfs_file_server_get's write callback that  *)
(* streams each response into the caller's sink: the caller's file         *)
(* (mfs_get_file), the caller's bucket brigade (mfs_get_brigade) or a      *)
(* temporary brigade that spills to a file past max_buffer_size            *)
(* (mfs_get_file_or_bytes).                                                *)
(*                                                                         *)
(* A byte is <<p, k>>: the k-th byte of replica p (p = 0 for bytes the     *)
(* caller's brigade already held).  curl_easy_perform is a sequence of     *)
(* write-callback steps that ends in success once the whole replica is in, *)
(* or in an abort at any point (connection loss, the progress-timeout      *)
(* checker, or the callback refusing the data).                            *)
(***************************************************************************)
EXTENDS Integers, Sequences, SequencesExt

TC == INSTANCE TrackerCommands

CONSTANTS
    PathsReplies,   \* responses mfs_request_do may hand get_paths
    NumPaths,       \* the most paths a reply of PathsReplies lists
    BadUrls,        \* path values apr_uri_parse rejects or leaves partial
    Lengths,        \* possible body lengths of a replica
    MaxBufferSize,  \* file_system->max_buffer_size
    RequiredLengths,\* requiredLength values (-1: not checked)
    Chunks,         \* sizes of one write-callback delivery (size * nmemb)
    Timeout,        \* file_system->file_server_timeout, in clock ticks
    NoFile

Paths == 1 .. NumPaths
Modes == {"file", "brigade", "bytes"}
\* Files: the caller's, destination_file_path, and the mkstemp file of
\* attempt k, numbered k.
CallerFile == -1
DestFile == 0
FileIds == {CallerFile, DestFile} \cup Paths
Byte == (0 .. NumPaths) \X Nat

VARIABLES
    mode,        \* which public entry point was called
    required,    \* requiredLength
    destPath,    \* destination_file_path given (mfs_get_file_or_bytes)
    len,         \* body length each storage node sends
    pre,         \* what the caller's brigade held before the call
    i,           \* the loop index of mfs_file_system_get (1-based)
    pc,          \* "start", "loop", "xfer", "done"
    got,         \* bytes curl has delivered in this attempt
    branch,      \* "file", "brigade" or "temp": the branch of lines 183-195
    wfile,       \* wbuf->file
    fileSize,    \* wbuf->file_size
    currentSize, \* wbuf->current_size
    mark,        \* start_bucket: the length of the brigade at the attempt's start
    files,       \* file contents
    filePos,     \* file offsets
    callerFile,  \* *file
    brigade,     \* the caller's brigade
    tmpBrigade,  \* the temporary brigade of the "temp" branch
    bytesOut,    \* *bytes
    rv,
    totalBytes,  \* *total_bytes
    failed,      \* paths whose transfer failed (ghost)
    now,         \* apr_time_now(), in ticks from 1
    tt,          \* the mfs_timeout_tracker of the attempt
    dltotal,     \* the total curl reports: Content-Length, or 0 if none
    timedOut,    \* the progress callback returned -1
    lastData,    \* time of the attempt's start or last delivery (ghost)
    reply,       \* the response of get_paths' mfs_request_do (ghost)
    paths        \* *paths: the URLs mfs_get_paths returned

vars == <<mode, required, destPath, len, pre, i, pc, got, branch, wfile,
          fileSize, currentSize, mark, files, filePos, callerFile, brigade,
          tmpBrigade, bytesOut, rv, totalBytes, failed,
          now, tt, dltotal, timedOut, lastData, reply, paths>>

clockVars == <<now, tt, dltotal, timedOut, lastData>>
callVars == <<reply, paths>>

-----------------------------------------------------------------------------

\* The bytes k+1 .. k+n of replica p.
Piece(p, k, n) == [j \in 1 .. n |-> <<p, k + j>>]
Replica(p) == Piece(p, 0, len[p])

\* Variant of the file write that only overwrites.
WriteAtNoExtend(s, pos, data) ==
    [j \in 1 .. Len(s) |-> IF j > pos /\ j <= pos + Len(data) THEN data[j - pos] ELSE s[j]]

\* apr_file_write_full at the file's offset: overwrite, then extend.
WriteAt(s, pos, data) ==
    [j \in 1 .. IF pos + Len(data) > Len(s) THEN pos + Len(data) ELSE Len(s)
        |-> IF j > pos /\ j <= pos + Len(data) THEN data[j - pos] ELSE s[j]]

\* The brigade the callback writes into.
WBrigade == IF branch = "brigade" THEN brigade ELSE tmpBrigade

\* The loop's i++ (line 310) after a failed transfer or length check.
NextPath == i' = i + 1

\* Variant of the step past a path that failed before any transfer, which
\* stays on the same path.
SkipPathStay(r) == rv' = r /\ UNCHANGED i

\* Lines 313-319 and 168-176: the URL does not parse, or
\* mfs_get_file_server or apr_reslist_acquire fails; the error is kept and
\* the loop goes on with i++.
SkipPath(r) == rv' = r /\ i' = i + 1

\* Variant of the checker comparing with > instead of >=.
CheckerStrict(t) ==
    LET amount == dltotal - tt.total
        tt1    == [tt EXCEPT !.total = dltotal]
        limit  == IF tt.last = 0 THEN 2 * Timeout ELSE Timeout
    IN  IF amount > 0 THEN [tt |-> [tt1 EXCEPT !.last = t], abort |-> FALSE]
        ELSE [tt |-> tt1, abort |-> t - tt.start > limit]

\* Lines 49-78, mfs_curl_download_timeout_checker, called at time t: the
\* new tracker and whether it returns -1.  `amount` is the growth of
\* dltotal, the expected total, not of dlnow, the bytes received; and both
\* branches measure from start_time.
mfs_curl_download_timeout_checker(t) ==
    LET amount == dltotal - tt.total
        tt1    == [tt EXCEPT !.total = dltotal]
        limit  == IF tt.last = 0 THEN 2 * Timeout ELSE Timeout
    IN  IF amount > 0 THEN [tt |-> [tt1 EXCEPT !.last = t], abort |-> FALSE]
        ELSE [tt |-> tt1, abort |-> t - tt.start >= limit]

\* curl calls the progress callback at time t; a -1 aborts the transfer.
Progress(t) ==
    LET r == mfs_curl_download_timeout_checker(t) IN
    /\ tt' = r.tt
    /\ timedOut' = r.abort

\* Lines 305-308: mfs_get_paths on the tracker's response; its error is
\* returned, or the loop starts over the paths it returned, each served
\* by a storage node with a body of some length.
mfs_file_system_get_paths ==
    /\ pc = "start"
    /\ \E r \in PathsReplies :
          LET g == TC!mfs_get_paths(r) IN
          /\ reply' = r
          /\ \/ /\ g.rv # "Success"
                /\ pc' = "done" /\ rv' = g.rv
                /\ UNCHANGED <<paths, len>>
             \/ /\ g.rv = "Success"
                /\ pc' = "loop" /\ paths' = g.paths
                /\ len' \in [1 .. Len(g.paths) -> Lengths]
                /\ UNCHANGED rv
    /\ UNCHANGED <<mode, required, destPath, pre, i, got, branch, wfile,
                   fileSize, currentSize, mark, files, filePos, callerFile,
                   brigade, tmpBrigade, bytesOut, totalBytes, failed,
                   clockVars>>

\* Lines 309-317: after the last path the call returns rv; a path whose
\* URL apr_uri_parse rejects (or that lacks a host, scheme or path) sets
\* rv to APR_EGENERAL and the loop moves to the next path.
mfs_file_system_get_loop ==
    /\ pc = "loop"
    /\ \/ /\ i > Len(paths)
          /\ pc' = "done"
          /\ UNCHANGED <<i, rv>>
       \/ /\ i <= Len(paths) /\ paths[i] \in BadUrls
          /\ SkipPath("EGENERAL")
          /\ UNCHANGED pc
    /\ got' = 0 /\ fileSize' = 0 /\ currentSize' = 0
    /\ UNCHANGED <<mode, required, destPath, len, pre, files, filePos, branch,
                   wfile, mark, tmpBrigade, callerFile, brigade, bytesOut,
                   totalBytes, failed, callVars, clockVars>>

\* Line 319 calls mfs_file_server_get (lines 165-197): the file server
\* and a connection are taken (a failure keeps the error in rv and the loop
\* moves to the next path), and the write buffer is set up for the branch
\* *file and the brigade select.  Lines 209-216 start the timeout tracker;
\* the storage node may or may not send a Content-Length.
mfs_file_server_get_start ==
    /\ pc = "loop"
    /\ i <= Len(paths) /\ paths[i] \notin BadUrls
    /\ \/ /\ \E r \in {"EPERM", "ReslistErr"} : SkipPath(r)
          /\ UNCHANGED <<pc, branch, wfile, mark, tmpBrigade, clockVars>>
       \/ /\ pc' = "xfer"
          /\ branch' = CASE callerFile # NoFile -> "file"
                         [] mode = "brigade"    -> "brigade"
                         [] OTHER               -> "temp"
          /\ wfile' = callerFile
          /\ mark' = Len(brigade)
          /\ tmpBrigade' = <<>>
          /\ tt' = [start |-> now, last |-> 0, total |-> 0]
          /\ dltotal' \in {0, len[i]}
          /\ timedOut' = FALSE
          /\ lastData' = now
          /\ UNCHANGED <<i, rv, now>>
    /\ got' = 0 /\ fileSize' = 0 /\ currentSize' = 0
    /\ UNCHANGED <<mode, required, destPath, len, pre, files, filePos,
                   callerFile, brigade, bytesOut, totalBytes, failed, callVars>>

\* Variant that never copies the buffered bytes into the spill file.
SpillPrefixNone == <<>>

\* Lines 124-141: what goes into a new spill file before the delivery: the
\* buffered bytes, unless the caller's brigade is the output (it keeps
\* them and gets the file as a bucket after them).
SpillPrefix == IF branch = "brigade" THEN <<>> ELSE WBrigade

\* Lines 83-156, mfs_buffer_get_write_callback, for a delivery of n bytes.
\* With a file it writes at the file's offset.  The first delivery that
\* would take the buffered size past max_buffer_size opens a file: a new
\* mkstemp file, or destination_file_path (opened without truncation);
\* the opening may fail, and the callback then refuses the data, which
\* aborts the transfer as the abort of mfs_file_server_get_finish does.  Unless
\* the caller's brigade is the output, the buffered bytes go into the file
\* first.  Otherwise the delivery is appended to the brigade.
mfs_buffer_get_write_callback(n) ==
    LET data == Piece(i, got, n)
        f == IF destPath THEN DestFile ELSE i
        prefix == SpillPrefix
    IN
    \/ /\ wfile # NoFile
       /\ files' = [files EXCEPT ![wfile] = WriteAt(@, filePos[wfile], data)]
       /\ filePos' = [filePos EXCEPT ![wfile] = @ + n]
       /\ fileSize' = fileSize + n /\ currentSize' = currentSize + n
       /\ UNCHANGED <<wfile, brigade, tmpBrigade>>
    \/ /\ wfile = NoFile /\ n + currentSize > MaxBufferSize
       /\ wfile' = f
       /\ files' = [files EXCEPT ![f] = WriteAt(@, 0, prefix \o data)]
       /\ filePos' = [filePos EXCEPT ![f] = Len(prefix) + n]
       /\ fileSize' = Len(prefix) + n /\ currentSize' = currentSize + n
       /\ UNCHANGED <<brigade, tmpBrigade>>
    \/ /\ wfile = NoFile /\ n + currentSize <= MaxBufferSize
       /\ IF branch = "brigade"
             THEN brigade' = brigade \o data /\ UNCHANGED tmpBrigade
             ELSE tmpBrigade' = tmpBrigade \o data /\ UNCHANGED brigade
       /\ currentSize' = currentSize + n
       /\ UNCHANGED <<wfile, files, filePos, fileSize>>

\* One delivery of curl_easy_perform (line 224), followed by a call of
\* the progress callback.
mfs_file_server_get_receive ==
    /\ pc = "xfer" /\ ~timedOut
    /\ \E n \in Chunks :
          /\ got + n <= len[i]
          /\ got' = got + n
          /\ mfs_buffer_get_write_callback(n)
    /\ Progress(now)
    /\ lastData' = now
    /\ UNCHANGED <<mode, required, destPath, len, pre, i, pc, branch, mark,
                   callerFile, bytesOut, rv, totalBytes, failed, now, dltotal,
                   callVars>>

\* A tick of the clock during the transfer, with curl's periodic call of
\* the progress callback.
mfs_file_server_get_tick ==
    /\ pc = "xfer" /\ ~timedOut
    /\ now' = now + 1
    /\ Progress(now + 1)
    /\ UNCHANGED <<mode, required, destPath, len, pre, i, pc, got, branch,
                   wfile, fileSize, currentSize, mark, files, filePos,
                   callerFile, brigade, tmpBrigade, bytesOut, rv, totalBytes,
                   failed, dltotal, lastData, callVars>>

\* Variant of the failure cleanup that leaves the caller's brigade alone.
CleanupFailedNoTrim ==
    /\ filePos' = IF branch = "file" /\ currentSize > 0
                     THEN [filePos EXCEPT ![wfile] = 0] ELSE filePos
    /\ UNCHANGED <<brigade, callerFile, bytesOut>>

\* Lines 243-295 after a failed transfer: a written caller file is
\* rewound; bytes written to the caller's brigade in this attempt are
\* deleted; the temporary brigade is dropped.
CleanupFailed ==
    /\ filePos' = IF branch = "file" /\ currentSize > 0
                     THEN [filePos EXCEPT ![wfile] = 0] ELSE filePos
    /\ brigade' = IF branch = "brigade" /\ currentSize > 0
                     THEN SubSeq(brigade, 1, mark) ELSE brigade
    /\ UNCHANGED <<callerFile, bytesOut>>

\* Lines 239-295 after a completed transfer: total_bytes is the size
\* received; a written caller file is rewound; a spill file is appended to
\* the caller's brigade as a file bucket; in the temporary-brigade case the
\* spill file, rewound, becomes *file, else the brigade is flattened into
\* *bytes.
CleanupOk ==
    /\ filePos' = IF branch \in {"file", "temp"} /\ wfile # NoFile /\ currentSize > 0
                     THEN [filePos EXCEPT ![wfile] = 0] ELSE filePos
    /\ brigade' = IF branch = "brigade" /\ wfile # NoFile
                     THEN brigade \o SubSeq(files[wfile], 1, fileSize) ELSE brigade
    /\ callerFile' = IF branch = "temp" /\ wfile # NoFile THEN wfile ELSE callerFile
    /\ bytesOut' = IF branch = "temp" /\ wfile = NoFile THEN tmpBrigade ELSE bytesOut

\* Lines 323-324: no length required, or total_bytes is that length.
LengthOk == required < 0 \/ currentSize = required

\* Lines 224-241 and 319-339: curl_easy_perform ends.  An abort
\* invalidates the connection and the loop moves to the next path with
\* APR_EGENERAL; a completed transfer releases it, and the loop returns
\* APR_SUCCESS unless a requiredLength is given and total_bytes differs,
\* in which case it moves on with APR_EGENERAL.
mfs_file_server_get_finish ==
    /\ pc = "xfer"
    /\ \/ /\ got = len[i] /\ ~timedOut
          /\ CleanupOk
          /\ totalBytes' = currentSize
          /\ IF LengthOk
                THEN rv' = "Success" /\ pc' = "done" /\ UNCHANGED i
                ELSE rv' = "EGENERAL" /\ NextPath /\ pc' = "loop"
          /\ UNCHANGED failed
       \/ /\ CleanupFailed
          /\ rv' = "EGENERAL" /\ NextPath /\ pc' = "loop"
          /\ failed' = failed \cup {i}
          /\ UNCHANGED totalBytes
    /\ UNCHANGED <<mode, required, destPath, len, pre, got, branch, wfile,
                   fileSize, currentSize, mark, files, tmpBrigade, clockVars,
                   callVars>>

Init ==
    /\ mode \in Modes
    /\ required \in RequiredLengths
    /\ destPath \in IF mode = "bytes" THEN BOOLEAN ELSE {FALSE}
    /\ len = <<>>
    /\ pre \in IF mode = "brigade" THEN {<<>>, <<<<0, 1>>>>} ELSE {<<>>}
    /\ brigade = pre
    /\ callerFile = IF mode = "file" THEN CallerFile ELSE NoFile
    /\ files = [f \in FileIds |-> <<>>]
    /\ filePos = [f \in FileIds |-> 0]
    /\ i = 1 /\ pc = "start" /\ got = 0
    /\ branch = "temp" /\ wfile = NoFile
    /\ fileSize = 0 /\ currentSize = 0 /\ mark = 0
    /\ tmpBrigade = <<>> /\ bytesOut = <<>>
    /\ rv = "EGENERAL" /\ totalBytes = 0
    /\ failed = {}
    /\ now = 1
    /\ tt = [start |-> 0, last |-> 0, total |-> 0]
    /\ dltotal = 0
    /\ timedOut = FALSE
    /\ lastData = 1
    /\ reply = TC!NotSet
    /\ paths = <<>>

\* The call has returned.
Returned == pc = "done" /\ UNCHANGED vars

Next ==
    \/ mfs_file_system_get_paths
    \/ mfs_file_system_get_loop
    \/ mfs_file_server_get_start
    \/ mfs_file_server_get_receive
    \/ mfs_file_server_get_tick
    \/ mfs_file_server_get_finish
    \/ Returned

\* One thread runs the call.
Spec == Init /\ [][Next]_vars /\ WF_vars(Next)

-----------------------------------------------------------------------------
(* Properties.                                                             *)

TypeOK ==
    /\ mode \in Modes /\ required \in RequiredLengths /\ destPath \in BOOLEAN
    /\ i \in 1 .. NumPaths + 1
    /\ pc \in {"start", "loop", "xfer", "done"}
    /\ branch \in {"file", "brigade", "temp"}
    /\ wfile \in FileIds \cup {NoFile} /\ callerFile \in FileIds \cup {NoFile}
    /\ files \in [FileIds -> Seq(Byte)] /\ filePos \in [FileIds -> Nat]
    /\ \A f \in FileIds : filePos[f] <= Len(files[f])
    /\ brigade \in Seq(Byte) /\ tmpBrigade \in Seq(Byte) /\ bytesOut \in Seq(Byte)
    /\ now \in 1 .. 1 + NumPaths * 2 * Timeout
    /\ timedOut \in BOOLEAN

\* The bytes this attempt has put into the sink, as the caller will see
\* them: the caller's file from its start; the brigade after the mark,
\* then the spill file; the temporary brigade, or the spill file.
AttemptView ==
    CASE branch = "file" -> SubSeq(files[wfile], 1, currentSize)
      [] branch = "brigade" ->
            SubSeq(brigade, mark + 1, Len(brigade))
            \o (IF wfile # NoFile THEN SubSeq(files[wfile], 1, fileSize) ELSE <<>>)
      [] OTHER -> IF wfile # NoFile THEN SubSeq(files[wfile], 1, fileSize)
                  ELSE tmpBrigade

\* Spec "Download": spilling to a file past max_buffer_size preserves the
\* already-buffered prefix: during every transfer, the sink holds exactly
\* the bytes curl has delivered, in order, whichever of the three outputs
\* is used and whenever the write callback switches to a file.
SinkHoldsDeliveredBytes ==
    pc = "xfer" => AttemptView = Piece(i, 0, got) /\ currentSize = got

\* Spec "Download": the output stream's content after the mark is
\* discarded when a transfer fails: no byte of a replica whose transfer
\* failed is left in the caller's brigade once the loop moves on.
FailedTransferDiscarded ==
    pc \in {"loop", "done"} =>
        \A j \in 1 .. Len(brigade) : brigade[j][1] \notin failed

\* The comment at line 40: the checker "will track the last time a
\* successful transfer occured and timeout if that time is too long ago":
\* a transfer that is not aborted has had data, or started, less than
\* twice the timeout ago (curl calls the checker at least once a tick).
StalledTransferAborted ==
    (pc = "xfer" /\ ~timedOut) => now - lastData < 2 * Timeout

\* The same comment: a transfer is not aborted while data is flowing, that
\* is, within the timeout of its last delivery.  Line 59 measures the
\* growth of dltotal instead of dlnow and line 70 measures from
\* start_time, so once the length is known any transfer longer than the
\* timeout is aborted at its next callback.
ProgressingTransferNotAborted ==
    (pc = "xfer" /\ timedOut) => now - lastData >= Timeout

\* mfs_file_system_get always returns.
DownloadReturns == <>(pc = "done")

\* Reference, from the protocol rather than the code: the decimal digits
\* of n, and the URLs an OK reply lists -- "paths" is n, 0 < n <= NumPaths,
\* and path1 .. pathn are all there -- or <<>> when it lists none.
RECURSIVE DecimalOf(_)
DecimalOf(n) ==
    (IF n < 10 THEN <<>> ELSE DecimalOf(n \div 10)) \o <<TC!DigitChars[(n % 10) + 1]>>

ListedUrls(r) ==
    LET h  == r.result
        ns == {n \in 1 .. NumPaths :
                 /\ "paths" \in DOMAIN h /\ h["paths"] = DecimalOf(n)
                 /\ \A k \in 1 .. n : ("path" \o ToString(k)) \in DOMAIN h}
    IN IF r.rv = "Success" /\ r.ok /\ ns # {}
       THEN LET n == CHOOSE m \in ns : TRUE
            IN [k \in 1 .. n |-> h["path" \o ToString(k)]]
       ELSE <<>>

\* What a reply listing no URL must end the call with: the transport's own
\* error, "not found" for ERR unknown_key, a general error otherwise.
TrackerFailure(r) ==
    CASE r.rv # "Success" -> r.rv
      [] ~r.ok /\ r.result["ERROR_CODE"] = <<"unknown_key">> -> "EBADPATH"
      [] OTHER -> "EGENERAL"

\* Spec "Download" and "Protocol-level application error", across
\* mfs_get_paths (file.c:160-215) and the loop of mfs_file_system_get: the
\* loop walks exactly the URLs the tracker listed, in order, and returns
\* a failure only after trying every one of them; a reply that lists no
\* URL ends the call at once, with "not found" only for unknown_key and
\* the dispatcher's error when no tracker answered.
DownloadFollowsTrackerReply ==
    pc # "start" =>
        IF ListedUrls(reply) # <<>>
        THEN /\ paths = ListedUrls(reply)
             /\ (pc = "done" /\ rv # "Success") => i = Len(paths) + 1
        ELSE pc = "done" /\ rv = TrackerFailure(reply)

\* What the caller reads after a successful call.
Sink ==
    CASE mode = "file" -> files[CallerFile]
      [] mode = "brigade" -> SubSeq(brigade, Len(pre) + 1, Len(brigade))
      [] OTHER -> IF callerFile # NoFile THEN files[callerFile] ELSE bytesOut

\* Spec "Download" (scenario B, test_file_system_get_ok_either): a
\* successful download returns the content of the path that succeeded and
\* nothing else, whatever earlier paths left behind.
SinkIsWinningReplica ==
    (pc = "done" /\ rv = "Success") => Sink = Replica(i)
====
