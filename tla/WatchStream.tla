---------------------------- MODULE WatchStream ----------------------------
(***************************************************************************)
(* The watch reader of src/src/watch.c: sock_readline over the 5000-byte   *)
(* read_buf of a watch_data, the reconnect loop of get_next_watch_line and *)
(* the [cache][id] filter of get_next_watch_cache_line, run by one caller  *)
(* thread while any other thread may call stop_watching/enable_watching.   *)
(*                                                                         *)
(* The tracker's side of a connection is the list of lines it sends after *)
(* "!watch", each ending in CR LF; apr_socket_recv hands over any 1..size  *)
(* bytes of what is still unsent, times out, or fails.  Bytes are small    *)
(* strings; the eight bytes "[cache][" are the one symbol "CK".            *)
(***************************************************************************)
EXTENDS Integers, Sequences, SequencesExt

CONSTANTS
    BufSize,      \* sizeof(read_buf)
    LineLen,      \* the len argument of get_next_watch_line
    Scripts,      \* what the tracker may send on a connection: line lists
    ClientId,     \* watch->client_id, a byte sequence, or NoClient
    NoClient,     \* model value: client_id NULL
    AfterBuf,     \* bytes the first byte of buf_pointer may hold
    MaxConnects   \* bound on connections the watch opens

NUL == "NUL"
CR  == "CR"
LF  == "LF"
SP  == "SP"
RB  == "RB"
CK  == "CK"

VARIABLES
    allow,     \* allow_watching
    conn,      \* watch->connection # NULL
    unsent,    \* bytes the tracker still has to deliver on it
    rb,        \* read_buf[0 .. BufSize-1]
    bp,        \* buf_pointer - read_buf
    cnt,       \* watch->cnt
    pc,        \* where the caller thread is
    mode,      \* "line" or "cache": which function the caller called
    out,       \* bytes copied to bufptr by the running sock_readline
    left,      \* its len counter
    connects,  \* connections opened so far (bounded)
    sent,      \* lines the tracker sent on the current connection (ghost)
    got,       \* lines returned for the current connection (ghost)
    payloads   \* what get_next_watch_cache_line returned (ghost)

wvars == <<allow, conn, unsent, rb, bp, cnt, pc, mode, out, left, connects,
           sent, got, payloads>>

\* The bytes of a script on the wire.
Wire(lines) == FoldLeft(LAMBDA acc, l : acc \o l \o <<CR, LF>>, <<>>, lines)

\* What the caller reads from its buffer: the bytes up to the first NUL.
AsCString(s) ==
    IF \E i \in DOMAIN s : s[i] = NUL
    THEN SubSeq(s, 1, Min({i \in DOMAIN s : s[i] = NUL}) - 1)
    ELSE s

\* Lines 85-94: the caller's buffer after a line ending in '\n': a NUL is
\* written after the '\n', and over a '\r' before it when the line has more
\* than one byte (the '\n' itself stays).
Terminated(s) ==
    (IF Len(s) > 1 /\ s[Len(s) - 1] = CR
     THEN [s EXCEPT ![Len(s) - 1] = NUL]
     ELSE s) \o <<NUL>>

\* *buf_pointer at offset i of read_buf `buf`: for i = BufSize it is the
\* byte after the array, the first byte of the buf_pointer field, g.
ByteAt(buf, i, g) == IF i < BufSize THEN buf[i + 1] ELSE g

\* Lines 96-99: skip NUL bytes while cnt > 0; the new <<offset, cnt>>.
RECURSIVE SkipNuls(_, _, _, _)
SkipNuls(buf, i, n, g) ==
    IF n > 0 /\ ByteAt(buf, i, g) = NUL
    THEN SkipNuls(buf, i + 1, n - 1, g)
    ELSE <<i, n>>

Init ==
    /\ allow = TRUE
    /\ conn = FALSE
    /\ unsent = <<>>
    /\ rb = [i \in 1 .. BufSize |-> NUL]
    /\ bp = 0
    /\ cnt = 0
    /\ pc = "idle"
    /\ mode = "line"
    /\ out = <<>>
    /\ left = 0
    /\ connects = 0
    /\ sent = <<>>
    /\ got = <<>>
    /\ payloads = <<>>

-----------------------------------------------------------------------------
(* Other threads: stop_watching and enable_watching (lines 36-42).         *)

stop_watching ==
    /\ allow
    /\ allow' = FALSE
    /\ UNCHANGED <<conn, unsent, rb, bp, cnt, pc, mode, out, left, connects,
                   sent, got, payloads>>

enable_watching ==
    /\ ~allow
    /\ allow' = TRUE
    /\ UNCHANGED <<conn, unsent, rb, bp, cnt, pc, mode, out, left, connects,
                   sent, got, payloads>>

-----------------------------------------------------------------------------
(* The caller thread.                                                      *)

\* The caller calls get_next_watch_line or get_next_watch_cache_line.
get_next_watch_line_call ==
    /\ pc = "idle"
    /\ pc' = "loop"
    /\ mode' = "line"
    /\ UNCHANGED <<allow, conn, unsent, rb, bp, cnt, out, left, connects,
                   sent, got, payloads>>

get_next_watch_cache_line_call ==
    /\ pc = "idle"
    /\ pc' = "cache"
    /\ mode' = "cache"
    /\ UNCHANGED <<allow, conn, unsent, rb, bp, cnt, out, left, connects,
                   sent, got, payloads>>

\* Lines 140 and 156 of get_next_watch_cache_line: loop while allowed.
get_next_watch_cache_line_loop ==
    /\ pc = "cache"
    /\ pc' = IF allow THEN "loop" ELSE "idle"
    /\ UNCHANGED <<allow, conn, unsent, rb, bp, cnt, mode, out, left,
                   connects, sent, got, payloads>>

\* sock_readline is entered with an empty line and len (line 119).
StartReadline ==
    /\ pc' = "read"
    /\ out' = <<>>
    /\ left' = LineLen

\* Lines 108-117 and 134: the loop head.  Without a connection one is taken
\* from the pool and "!watch" is sent on it; a failed send is only logged,
\* and the tracker then sends nothing (the empty script).  A NULL from the
\* pool changes nothing: the loop sleeps and comes back.
get_next_watch_line_loop ==
    /\ pc = "loop"
    /\ \/ /\ ~allow
          /\ pc' = "idle"
          /\ UNCHANGED <<conn, unsent, out, left, connects, sent, got>>
       \/ /\ allow /\ conn
          /\ StartReadline
          /\ UNCHANGED <<conn, unsent, connects, sent, got>>
       \/ /\ allow /\ ~conn
          /\ connects < MaxConnects
          /\ \E script \in Scripts \cup {<<>>} :
                /\ unsent' = Wire(script)
                /\ sent' = script
          /\ conn' = TRUE
          /\ connects' = connects + 1
          /\ got' = <<>>
          /\ StartReadline
    /\ UNCHANGED <<allow, rb, bp, cnt, mode, payloads>>

\* Lines 120-124 and 129-132: sock_readline failed; the connection is
\* destroyed (watch->cnt and buf_pointer are left as they are) and the
\* loop goes round again after the sleep.
ReadlineFailed ==
    /\ conn' = FALSE
    /\ unsent' = <<>>
    /\ pc' = "loop"
    /\ out' = <<>>
    /\ left' = 0
    /\ UNCHANGED <<rb, bp, cnt, got, payloads>>

\* Lines 142-151 on the caller's buffer b after a line was read: the first
\* "[cache][", the id up to the first ']' or ' ', and, unless the id is the
\* client's own, the bytes from two past the id moved to the start.  Past
\* the end of the bytes the line wrote the buffer holds what an earlier
\* call left there, g.
CacheFilter(b, g) ==
    LET l    == AsCString(b)
        ks   == {i \in DOMAIN l : l[i] = CK}
        k    == Min(ks)
        rest == SubSeq(l, k + 1, Len(l))
        ends == {i \in DOMAIN rest : rest[i] \in {RB, SP}}
        pos  == IF ends = {} THEN Len(rest) ELSE Min(ends) - 1
        from == k + pos + 3
        own  == ClientId # NoClient /\ pos = Len(ClientId)
                /\ SubSeq(rest, 1, pos) = ClientId
    IN  IF ks = {} \/ own THEN <<"skip">>
        ELSE <<"payload", AsCString(SubSeq(b \o <<g>>, from, Len(b) + 1))>>

\* sock_readline returned APR_SUCCESS with the caller's buffer b: the line
\* is returned, or handed to the cache filter, which returns its payload
\* or loops.
LineRead(b) ==
    /\ got' = Append(got, AsCString(b))
    /\ out' = <<>>
    /\ left' = 0
    /\ \/ /\ mode = "line"
          /\ pc' = "idle"
          /\ UNCHANGED payloads
       \/ /\ mode = "cache"
          /\ \E g \in AfterBuf :
               LET r == CacheFilter(b, g) IN
               /\ pc' = IF r[1] = "skip" THEN "cache" ELSE "idle"
               /\ payloads' = IF r[1] = "skip" THEN payloads
                              ELSE Append(payloads, r[2])

\* Lines 83-101 with the byte c just read from read_buf `buf`, the offset
\* p and the count n after the read.
Consume(c, buf, p, n) ==
    /\ rb' = buf
    /\ \/ /\ c # LF
          /\ out' = Append(out, c)
          /\ left' = left - 1
          /\ bp' = p /\ cnt' = n
          /\ UNCHANGED <<pc, got, payloads>>
       \/ /\ c = LF
          /\ \E g \in AfterBuf :
               LET r == SkipNuls(buf, p, n, g) IN
               /\ bp' = r[1] /\ cnt' = r[2]
          /\ LineRead(Terminated(Append(out, c)))

\* One turn of the loop of sock_readline, lines 64-103.  With cnt = 0 the
\* buffer is refilled: a time-out (len++, continue) changes nothing, an
\* error or end of stream without data fails the readline, and data
\* (with or without an error) is 1..BufSize bytes of what the tracker has
\* still to send, written over the front of read_buf.
sock_readline ==
    /\ pc = "read"
    /\ \/ /\ ~allow \/ left - 1 = 0
          /\ ReadlineFailed
       \/ /\ allow /\ left - 1 > 0 /\ cnt = 0
          /\ \/ /\ ReadlineFailed
             \/ /\ unsent # <<>>
                /\ \E k \in 1 .. Min({BufSize, Len(unsent)}) :
                     /\ unsent' = SubSeq(unsent, k + 1, Len(unsent))
                     /\ Consume(unsent[1],
                                [i \in 1 .. BufSize |->
                                   IF i <= k THEN unsent[i] ELSE rb[i]],
                                1, k)
                     /\ UNCHANGED conn
       \/ /\ allow /\ left - 1 > 0 /\ cnt > 0
          /\ \E g \in AfterBuf :
               Consume(ByteAt(rb, bp, g), rb, bp + 1, cnt - 1)
          /\ UNCHANGED <<conn, unsent>>
    /\ UNCHANGED <<allow, mode, connects, sent>>

-----------------------------------------------------------------------------

Next ==
    \/ stop_watching \/ enable_watching
    \/ get_next_watch_line_call \/ get_next_watch_cache_line_call
    \/ get_next_watch_cache_line_loop
    \/ get_next_watch_line_loop
    \/ sock_readline

Spec == Init /\ [][Next]_wvars

-----------------------------------------------------------------------------
(* Properties.                                                             *)

\* Spec 4.6: the reader returns the newline-terminated lines the tracker
\* sends: on every connection the lines get_next_watch_line has returned
\* are the first lines the tracker sent on it, in order, each without its
\* CR LF.  sock_readline consumes the first byte after a refill without
\* decrementing cnt (line 83 against line 81), so each fill yields one
\* byte more than was received.
WatchLinesAsSent == IsPrefix(got, sent)
====

