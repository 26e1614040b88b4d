----------------------------- MODULE FileUpload -----------------------------
(***************************************************************************)
(* mfs_store_file_or_bytes (src/src/file_upload.c): the create_open /      *)
(* PUT / create_close attempt loop of one upload, with mfs_file_server_put *)
(* and the resources the call owns.                                        *)
(*                                                                         *)
(* The two tracker calls go through mfs_request_do; their result is an     *)
(* input here (RequestDispatch models how it is reached).  The tracker     *)
(* hands out destinations (path + fid + devid) as fresh identities; the    *)
(* file server stores a blob per destination.                              *)
(*                                                                         *)
(* The PUT itself runs over a clock of ticks: curl hands the body to the   *)
(* storage node through the read callback, in chunks, and calls the       *)
(* progress callback mfs_curl_upload_timeout_checker after each chunk and  *)
(* at least once a tick; a -1 from it aborts the transfer.                 *)
(***************************************************************************)
EXTENDS Integers, FiniteSets

CONSTANTS
    MaxRetries,   \* file_system->max_retries (DEFAULT_MAX_RETRIES = 2)
    Dests,        \* destinations create_open may return, in order
    NoDest,       \* put_url / fid / devid not yet assigned
    Sizes,        \* sizes the payload may have (finfo.size, or total_bytes)
    Timeout,      \* file_system->file_server_timeout, in ticks
    MaxClock      \* bound on the clock

ASSUME /\ MaxRetries \in Nat \ {0}
       /\ Dests \subseteq Nat \ {0} /\ NoDest \notin Dests
       /\ Sizes \subseteq Nat /\ Timeout \in Nat \ {0} /\ MaxClock \in Nat

\* Status values of rv.  "EPERM" is the apr_status_t 1 (errno EPERM).
Statuses == {"Success", "EGENERAL", "TrackerErr", "SeekErr", "ReslistErr",
             "ENOSTAT", "GetServerErr", "EPERM"}

VARIABLES
    pc,           \* "attempt" (loop head), "put", "close", "done"
    attemptCount, \* attempt_count
    callTracker,  \* call_tracker
    dest,         \* put_url, fid, devid of the last successful create_open
    rv,           \* rv
    totalBytes,   \* total_bytes (-1 for a file until it is stat'ed)
    isFile,       \* file != NULL (mfs_store_file*) or bytes (mfs_store_bytes*)
    managePool,   \* pool == NULL on entry: the call made its own pool
    poolLive,     \* that pool is not yet destroyed
    reslistHeld,  \* file-server connections acquired and not given back
    nextDest,     \* the tracker's next destination
    badUrl,       \* destinations whose put_url apr_uri_parse rejects
    puts,         \* PUTs sent to each destination
    stored,       \* destinations whose blob the file server holds
    committed,    \* destinations create_close committed
    size,         \* the payload's size
    now,          \* apr_time_now(), in ticks from 1
    tt,           \* the mfs_timeout_tracker of the PUT
    sent,         \* ulnow: bytes the read callback has handed to curl
    timedOut,     \* the checker has returned -1 in this PUT
    lastData      \* when the read callback last handed over bytes (ghost)

vars == <<pc, attemptCount, callTracker, dest, rv, totalBytes, isFile,
          managePool, poolLive, reslistHeld, nextDest, badUrl, puts, stored,
          committed, size, now, tt, sent, timedOut, lastData>>

world == <<nextDest, badUrl, puts, stored, committed>>

xferVars == <<size, now, tt, sent, timedOut, lastData>>

-----------------------------------------------------------------------------

\* Variant of the attempt's end that never counts it.
EndAttemptNoCount ==
    /\ UNCHANGED attemptCount
    /\ pc' = "attempt"

\* Lines 331-333 and the loop head (line 250): the attempt ends; the loop
\* goes on while attempts remain and rv is not APR_SUCCESS (the sleep is
\* not modelled).
EndAttempt ==
    /\ attemptCount' = attemptCount + 1
    /\ pc' = "attempt"

\* Lines 338-340: the call destroys its own pool and returns rv.
mfs_store_file_or_bytes_return ==
    /\ pc = "attempt"
    /\ ~(attemptCount < MaxRetries /\ rv # "Success")
    /\ pc' = "done"
    /\ poolLive' = (poolLive /\ ~managePool)
    /\ UNCHANGED <<attemptCount, callTracker, dest, rv, totalBytes, isFile,
                   managePool, reslistHeld, world, xferVars>>

\* Variants of the loop body's start: the attempt bound tested with <=, and
\* the reuse branch that never sets call_tracker again.
OpenBoundOffByOne ==
    /\ pc = "attempt"
    /\ attemptCount <= MaxRetries /\ rv # "Success"
    /\ \/ /\ callTracker
          /\ rv' = "TrackerErr"
          /\ EndAttempt
          /\ UNCHANGED <<dest, callTracker, nextDest, badUrl>>
       \/ /\ ~callTracker
          /\ callTracker' = TRUE
          /\ rv' = "Success"
          /\ pc' = "put"
          /\ UNCHANGED <<dest, nextDest, badUrl, attemptCount>>
    /\ UNCHANGED <<totalBytes, isFile, managePool, poolLive, reslistHeld,
                   puts, stored, committed, xferVars>>

OpenNeverRecallsTracker ==
    /\ pc = "attempt"
    /\ attemptCount < MaxRetries /\ rv # "Success"
    /\ \/ /\ callTracker
          /\ nextDest \in Dests
          /\ rv' = "Success"
          /\ dest' = nextDest
          /\ nextDest' = nextDest + 1
          /\ callTracker' = FALSE
          /\ pc' = "put"
          /\ UNCHANGED <<attemptCount, badUrl>>
       \/ /\ ~callTracker
          /\ rv' = "Success"
          /\ pc' = "put"
          /\ UNCHANGED <<dest, nextDest, badUrl, attemptCount, callTracker>>
    /\ UNCHANGED <<totalBytes, isFile, managePool, poolLive, reslistHeld,
                   puts, stored, committed, xferVars>>

\* Lines 250-267: with call_tracker set, create_open through
\* mfs_request_do; a failed call, ok = false, or a reply missing path, fid
\* or devid leaves call_tracker set.  Otherwise the previous destination is
\* reused and call_tracker is set for the attempt after.
mfs_store_file_or_bytes_open ==
    /\ pc = "attempt"
    /\ attemptCount < MaxRetries /\ rv # "Success"
    /\ \/ /\ callTracker
          /\ \/ /\ rv' = "TrackerErr"
                /\ EndAttempt
                /\ UNCHANGED <<dest, callTracker, nextDest, badUrl>>
             \/ /\ rv' = "EGENERAL"
                /\ EndAttempt
                /\ UNCHANGED <<dest, callTracker, nextDest, badUrl>>
             \/ /\ nextDest \in Dests
                /\ rv' = "Success"
                /\ dest' = nextDest
                /\ nextDest' = nextDest + 1
                /\ \E bad \in BOOLEAN :
                      badUrl' = IF bad THEN badUrl \cup {nextDest} ELSE badUrl
                /\ callTracker' = FALSE
                /\ pc' = "put"
                /\ UNCHANGED attemptCount
       \/ /\ ~callTracker
          /\ callTracker' = TRUE
          /\ rv' = "Success"
          /\ pc' = "put"
          /\ UNCHANGED <<dest, nextDest, badUrl, attemptCount>>
    /\ UNCHANGED <<totalBytes, isFile, managePool, poolLive, reslistHeld,
                   puts, stored, committed, xferVars>>

\* Variant of the checker that never records ultotal: every call sees the
\* total grow.
CheckerNoTotalUpdate(t) ==
    LET amount == size - tt.total
        limit  == IF tt.last = 0 THEN 2 * Timeout ELSE Timeout
    IN  IF amount > 0 THEN [tt |-> [tt EXCEPT !.last = t], abort |-> FALSE]
        ELSE [tt |-> tt, abort |-> t - tt.start >= limit]

\* Lines 37-63, mfs_curl_upload_timeout_checker, called at time t: the new
\* tracker and whether it returns -1.  curl passes ultotal, the size set
\* by CURLOPT_INFILESIZE_LARGE, so `amount` is positive at the first call
\* only (never for an empty body); both branches measure from start_time.
mfs_curl_upload_timeout_checker(t) ==
    LET amount == size - tt.total
        tt1    == [tt EXCEPT !.total = size]
        limit  == IF tt.last = 0 THEN 2 * Timeout ELSE Timeout
    IN  IF amount > 0 THEN [tt |-> [tt1 EXCEPT !.last = t], abort |-> FALSE]
        ELSE [tt |-> tt1, abort |-> t - tt.start >= limit]

\* curl calls the progress callback at time t; a -1 aborts the transfer.
UploadProgress(t) ==
    LET r == mfs_curl_upload_timeout_checker(t) IN
    /\ tt' = r.tt
    /\ timedOut' = r.abort

\* mfs_file_server_put returning before the transfer.  Line 134 assigns the
\* comparison mfs_get_file_server(...) != APR_SUCCESS to rv, so its
\* failure returns 1.  A failed apr_reslist_acquire returns its status;
\* the apr_file_info_get failure at line 185 returns with the acquired
\* connection kept.
mfs_file_server_put_refused ==
    \/ /\ rv' = "EPERM"
       /\ UNCHANGED <<totalBytes, reslistHeld, puts, xferVars>>
    \/ /\ rv' = "ReslistErr"
       /\ UNCHANGED <<totalBytes, reslistHeld, puts, xferVars>>
    \/ /\ isFile /\ totalBytes = -1
       /\ rv' = "ENOSTAT"
       /\ reslistHeld' = reslistHeld + 1
       /\ UNCHANGED <<totalBytes, puts, xferVars>>

\* The rest of mfs_file_server_put up to curl_easy_perform: the timeout
\* tracker is started (lines 159-162), the size of a file is taken from
\* its stat, and the PUT starts.
mfs_file_server_put ==
    /\ totalBytes' = size
    /\ puts' = [puts EXCEPT ![dest] = @ + 1]
    /\ tt' = [start |-> now, last |-> 0, total |-> 0]
    /\ sent' = 0
    /\ timedOut' = FALSE
    /\ lastData' = now
    /\ UNCHANGED <<rv, reslistHeld, size, now>>

\* Lines 300-305: after mfs_file_server_put returns, the attempt goes on
\* to create_close on APR_SUCCESS and ends otherwise.
AfterPut ==
    \/ rv' = "Success" /\ pc' = "close" /\ UNCHANGED attemptCount
    \/ rv' # "Success" /\ EndAttempt

\* Lines 284-299: parse put_url, rewind a file to its start (a failed
\* seek returns from the call at once), then mfs_file_server_put.
mfs_store_file_or_bytes_put ==
    /\ pc = "put"
    /\ \/ /\ dest \in badUrl
          /\ rv' = "EGENERAL"
          /\ EndAttempt
          /\ UNCHANGED <<totalBytes, reslistHeld, puts, xferVars>>
       \/ /\ dest \notin badUrl
          /\ isFile
          /\ rv' = "SeekErr"
          /\ pc' = "done"
          /\ UNCHANGED <<attemptCount, totalBytes, reslistHeld, puts, xferVars>>
       \/ /\ dest \notin badUrl
          /\ mfs_file_server_put_refused
          /\ AfterPut
       \/ /\ dest \notin badUrl
          /\ mfs_file_server_put
          /\ pc' = "xfer"
          /\ UNCHANGED attemptCount
    /\ UNCHANGED <<callTracker, dest, isFile, managePool, poolLive, nextDest,
                   badUrl, stored, committed>>

\* Lines 80-104 and 106-120: curl pulls the next chunk of the body through
\* mfs_buffer_put_read_callback (bytes) or mfs_file_put_read_callback (a
\* file), which hand over up to the size curl asks for, and then calls the
\* progress callback.  A read error of the file is an abort (below).
mfs_put_read_callback ==
    /\ pc = "xfer" /\ ~timedOut
    /\ sent < size
    /\ \E k \in 1 .. size - sent : sent' = sent + k
    /\ lastData' = now
    /\ UploadProgress(now)
    /\ UNCHANGED <<pc, attemptCount, callTracker, dest, rv, totalBytes,
                   isFile, managePool, poolLive, reslistHeld, world, size, now>>

\* A tick of the clock during the PUT, with curl's periodic call of the
\* progress callback.
mfs_file_server_put_tick ==
    /\ pc = "xfer" /\ ~timedOut
    /\ now < MaxClock
    /\ now' = now + 1
    /\ UploadProgress(now + 1)
    /\ UNCHANGED <<pc, attemptCount, callTracker, dest, rv, totalBytes,
                   isFile, managePool, poolLive, reslistHeld, world, size,
                   sent, lastData>>

\* Lines 196-217: curl_easy_perform returns.  CURLE_OK needs the whole
\* body sent and no abort; the connection goes back to the reslist.
\* Neither CURLOPT_FAILONERROR nor the response code is looked at, so
\* CURLE_OK comes whether the storage node stored the body or answered
\* with an error status.  Any other result (the checker's -1, a read
\* error, a lost connection) invalidates the connection and returns
\* APR_EGENERAL.
mfs_file_server_put_end ==
    /\ pc = "xfer"
    /\ \/ /\ ~timedOut /\ sent = size
          /\ rv' = "Success"
          /\ \E accepted \in BOOLEAN :
                stored' = IF accepted THEN stored \cup {dest} ELSE stored
       \/ /\ rv' = "EGENERAL"
          /\ UNCHANGED stored
    /\ AfterPut
    /\ UNCHANGED <<callTracker, dest, totalBytes, isFile, managePool,
                   poolLive, reslistHeld, nextDest, badUrl, puts, committed,
                   xferVars>>

\* Variant of create_close that does not turn ok = false into an error.
CloseIgnoringOk ==
    /\ pc = "close"
    /\ \/ /\ rv' = "Success"
          /\ UNCHANGED committed
       \/ /\ rv' = "Success"
          /\ committed' = committed \cup {dest}
    /\ EndAttempt
    /\ UNCHANGED <<callTracker, dest, totalBytes, isFile, managePool, poolLive,
                   reslistHeld, nextDest, badUrl, puts, stored, xferVars>>

\* Lines 306-329: create_close through mfs_request_do; ok = false is
\* turned into APR_EGENERAL.
mfs_store_file_or_bytes_close ==
    /\ pc = "close"
    /\ \/ /\ rv' = "TrackerErr"
          /\ UNCHANGED committed
       \/ /\ rv' = "EGENERAL"
          /\ UNCHANGED committed
       \/ /\ rv' = "Success"
          /\ committed' = committed \cup {dest}
    /\ EndAttempt
    /\ UNCHANGED <<callTracker, dest, totalBytes, isFile, managePool, poolLive,
                   reslistHeld, nextDest, badUrl, puts, stored, xferVars>>

\* Lines 221-249 and the public entry points (lines 342-374): bytes or a
\* file (total_bytes = -1), with the caller's pool or one of its own.
Init ==
    /\ isFile \in BOOLEAN
    /\ managePool \in BOOLEAN
    /\ poolLive = managePool
    /\ size \in Sizes
    /\ totalBytes = IF isFile THEN -1 ELSE size
    /\ pc = "attempt"
    /\ attemptCount = 0
    /\ callTracker = TRUE
    /\ dest = NoDest
    /\ rv = "EGENERAL"
    /\ reslistHeld = 0
    /\ nextDest = CHOOSE d \in Dests : \A e \in Dests : d <= e
    /\ badUrl = {}
    /\ puts = [d \in Dests |-> 0]
    /\ stored = {}
    /\ committed = {}
    /\ now = 1
    /\ tt = [start |-> 0, last |-> 0, total |-> 0]
    /\ sent = 0
    /\ timedOut = FALSE
    /\ lastData = 0

\* The call has returned.
Returned ==
    /\ pc = "done"
    /\ UNCHANGED vars

Next ==
    \/ mfs_store_file_or_bytes_open
    \/ mfs_store_file_or_bytes_put
    \/ mfs_put_read_callback
    \/ mfs_file_server_put_tick
    \/ mfs_file_server_put_end
    \/ mfs_store_file_or_bytes_close
    \/ mfs_store_file_or_bytes_return
    \/ Returned

\* One thread runs the call; it is never starved.
Spec == Init /\ [][Next]_vars /\ WF_vars(Next)
-----------------------------------------------------------------------------
(* Properties.                                                             *)

TypeOK ==
    /\ pc \in {"attempt", "put", "xfer", "close", "done"}
    /\ attemptCount \in 0 .. MaxRetries
    /\ callTracker \in BOOLEAN
    /\ dest \in Dests \cup {NoDest}
    /\ rv \in Statuses
    /\ size \in Sizes /\ totalBytes \in {-1, size}
    /\ now \in 1 .. MaxClock /\ sent \in 0 .. size
    /\ tt \in [start : 0 .. MaxClock, last : 0 .. MaxClock, total : {0, size}]
    /\ timedOut \in BOOLEAN /\ lastData \in 0 .. MaxClock
    /\ reslistHeld \in Nat
    /\ puts \in [Dests -> 0 .. MaxRetries]
    /\ stored \subseteq Dests /\ committed \subseteq Dests /\ badUrl \subseteq Dests

\* Spec 4.5 and 7 (no partial state escapes as success): the tracker is
\* told to commit (create_close) only a file the storage node holds.  The
\* PUT's HTTP status is never checked (lines 201-215), so a body the
\* storage node refused still counts as sent and is committed; TLC breaks
\* it in one attempt.
CommittedHasBlob == committed \subseteq stored

\* When mfs_store_file_or_bytes returns APR_SUCCESS the destination it
\* last used is committed on the tracker (spec 4.5, 7: no partial state
\* escapes as success).
SuccessMeansCommitted ==
    (pc = "done" /\ rv = "Success") => dest \in committed

\* The call_tracker alternation (lines 265-267): a destination from
\* create_open is used for at most two PUTs before a new create_open,
\* whatever mix of PUT and create_close failures happens (spec 4.5: two
\* consecutive PUT failures burn a fresh open).
DestinationPutAtMostTwice == \A d \in Dests : puts[d] <= 2

\* The comment above mfs_timeout_tracker (lines 28-29): the checker
\* tracks "the last time a successful transfer occured and timeout[s] if
\* that time is too long ago".  A PUT whose read callback has handed curl
\* no bytes for twice the timeout is no longer running: the checker,
\* called at least once a tick, has aborted it.
StalledUploadAborted ==
    (pc = "xfer" /\ ~timedOut) => now - lastData < 2 * Timeout

\* The same comment read the other way: a PUT that handed curl bytes
\* within the timeout is not aborted.  ultotal does not grow after the
\* first call and line 58 measures from start_time, so any PUT running
\* longer than the timeout is aborted at its next callback.
ProgressingUploadNotAborted ==
    (pc = "xfer" /\ timedOut) => now - lastData >= Timeout

\* The attempt loop always ends: the call returns.
UploadTerminates == <>(pc = "done")

\* The pool the call created for itself (pool == NULL) is destroyed
\* before it returns.
ManagedPoolDestroyed == (pc = "done" /\ managePool) => ~poolLive

\* Every file-server connection mfs_file_server_put takes from the
\* reslist is released or invalidated by the time the upload returns.
FileServerConnectionsReleased == pc = "done" => reslistHeld = 0

\* Spec 7: a failure is reported with its underlying cause; the status
\* returned is never the 1 produced by a comparison.
StatusCarriesCause == rv # "EPERM"
====
