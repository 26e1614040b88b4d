---------------------------- MODULE FileServerMap ----------------------------
(***************************************************************************)
(* mfs_get_file_server (src/src/file.c): the map from a storage node's     *)
(* host:port to its mfs_file_server (a reslist of HTTP handles), shared by *)
(* every download and upload thread and guarded by file_system->lock, a    *)
(* read/write lock.  A lookup under the read lock that misses takes the    *)
(* write lock, looks again and inserts a new server if still absent.       *)
(*                                                                         *)
(* Each read-locked section only reads, so it is one step; the write-      *)
(* locked section is one step too.  Between the two a thread holds no lock.*)
(***************************************************************************)
EXTENDS Naturals, FiniteSets, TLC

CONSTANTS
    Callers,    \* threads calling mfs_get_file_server
    Hosts,      \* uri->hostinfo values
    MaxServers, \* bound on file servers created
    NoServer,   \* apr_hash_get returned NULL / no result
    NoThread    \* the write lock is free

ASSUME /\ MaxServers \in Nat
       /\ NoServer \notin 1 .. MaxServers
       /\ NoThread \notin Callers

Servers == 1 .. MaxServers

VARIABLES
    pc,        \* "idle", "read" (waiting for the read lock), "write"
    host,      \* the host the caller asks for
    result,    \* *file_server handed back by the last call
    servers,   \* file_system->file_servers: host -> server
    created,   \* servers allocated so far (apr_palloc + apr_reslist_create)
    writer     \* holder of the write lock

vars == <<pc, host, result, servers, created, writer>>

-----------------------------------------------------------------------------

\* A caller starts mfs_get_file_server for some host.
Call(p) ==
    /\ pc[p] = "idle"
    /\ \E h \in Hosts : host' = [host EXCEPT ![p] = h]
    /\ pc' = [pc EXCEPT ![p] = "read"]
    /\ UNCHANGED <<result, servers, created, writer>>

\* Lines 98-113: under the read lock, apr_hash_get; a hit returns it.
\* The read lock waits while a writer holds the lock.  The thread that
\* holds the write lock itself gets EDEADLK from the read lock (lines
\* 100-103) or blocks for ever (POSIX leaves it open); the error return
\* is the step below, blocking is the absence of a step.
mfs_get_file_server_read(p) ==
    /\ pc[p] = "read"
    /\ \/ /\ writer = NoThread
          /\ \/ /\ servers[host[p]] # NoServer
                /\ result' = [result EXCEPT ![p] = servers[host[p]]]
                /\ pc' = [pc EXCEPT ![p] = "idle"]
             \/ /\ servers[host[p]] = NoServer
                /\ pc' = [pc EXCEPT ![p] = "write"]
                /\ UNCHANGED result
       \/ /\ writer = p
          /\ result' = [result EXCEPT ![p] = NoServer]
          /\ pc' = [pc EXCEPT ![p] = "idle"]
    /\ UNCHANGED <<host, servers, created, writer>>

\* Variant of the write-locked section without the second look: it
\* always creates and inserts a server.
WriteNoRecheck(p) ==
    /\ pc[p] = "write"
    /\ writer = NoThread
    /\ pc' = [pc EXCEPT ![p] = "idle"]
    /\ created < MaxServers
    /\ created' = created + 1
    /\ servers' = [servers EXCEPT ![host[p]] = created + 1]
    /\ result' = [result EXCEPT ![p] = created + 1]
    /\ UNCHANGED <<host, writer>>

\* Lines 114-137: under the write lock, look again; if still absent,
\* create the reslist (which may fail: unlock, return the error) and
\* insert it, then unlock.  If another thread inserted it meanwhile, the
\* found server is returned with the write lock still held.
mfs_get_file_server_write(p) ==
    /\ pc[p] = "write"
    /\ writer = NoThread
    /\ pc' = [pc EXCEPT ![p] = "idle"]
    /\ \/ /\ servers[host[p]] = NoServer
          /\ created < MaxServers
          /\ created' = created + 1
          /\ servers' = [servers EXCEPT ![host[p]] = created + 1]
          /\ result' = [result EXCEPT ![p] = created + 1]
          /\ UNCHANGED writer
       \/ /\ servers[host[p]] = NoServer
          /\ result' = [result EXCEPT ![p] = NoServer]
          /\ UNCHANGED <<servers, created, writer>>
       \/ /\ servers[host[p]] # NoServer
          /\ result' = [result EXCEPT ![p] = servers[host[p]]]
          /\ writer' = p
          /\ UNCHANGED <<servers, created>>
    /\ UNCHANGED host

Init ==
    /\ pc = [p \in Callers |-> "idle"]
    /\ host = [p \in Callers |-> CHOOSE h \in Hosts : TRUE]
    /\ result = [p \in Callers |-> NoServer]
    /\ servers = [h \in Hosts |-> NoServer]
    /\ created = 0
    /\ writer = NoThread

Next ==
    \E p \in Callers :
        \/ Call(p)
        \/ mfs_get_file_server_read(p)
        \/ mfs_get_file_server_write(p)

Spec == Init /\ [][Next]_vars

-----------------------------------------------------------------------------
(* Properties.                                                             *)

TypeOK ==
    /\ pc \in [Callers -> {"idle", "read", "write"}]
    /\ host \in [Callers -> Hosts]
    /\ result \in [Callers -> Servers \cup {NoServer}]
    /\ servers \in [Hosts -> Servers \cup {NoServer}]
    /\ created \in 0 .. MaxServers
    /\ writer \in Callers \cup {NoThread}

\* Spec 5 (double-checked creation): however lookups and inserts of
\* several threads interleave, every caller that got a file server for a
\* host got the one the map holds for it, so all threads share one
\* reslist per storage node and none is created twice.
OneServerPerHost ==
    /\ \A p \in Callers :
          (pc[p] = "idle" /\ result[p] # NoServer)
             => servers[host[p]] = result[p]
    /\ created = Cardinality({h \in Hosts : servers[h] # NoServer})

\* A thread that has returned from mfs_get_file_server holds no lock on
\* file_system->lock.
LockReleasedOnReturn == \A p \in Callers : pc[p] = "idle" => writer # p
====
