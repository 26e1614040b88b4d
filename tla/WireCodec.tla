----------------------------- MODULE WireCodec -----------------------------
(***************************************************************************)
(* The tracker wire protocol of src/src/tracker.c: parameter lists         *)
(* (mfs_tracker_add_parameter, mfs_tracker_add_meta_data), URL encoding    *)
(* and decoding, the request line (mfs_tracker_build_request), the read   *)
(* loop and terminator check of mfs_tracker_request, and                   *)
(* mfs_tracker_parse_response.                                             *)
(*                                                                         *)
(* A string is a sequence of byte values 1..255 (C strings hold no NUL);   *)
(* char is signed, as on the x86 and ARM-Linux builds the library targets. *)
(***************************************************************************)
EXTENDS Integers, Sequences, SequencesExt, Bitwise

CONSTANTS
    Keys,       \* parameter keys callers pass
    Values,     \* parameter values callers pass
    MaxParams,  \* bound on mfs_tracker_add_* calls per list
    Cmd,        \* the command of the request (a string)
    MaxReplyPairs \* bound on the pairs of a tracker reply

\* Byte values: NUL, '\n', '\r', ' ', '%', '&', '+', '='.
NUL == 0
LF == 10
CR == 13
SP == 32
PCT == 37
AMP == 38
PLUS == 43
EQ == 61

\* "OK ", "ERR ", "plugin.meta.key", "plugin.meta.value", "plugin.meta.keys"
OkPrefix == <<79, 75, SP>>
ErrPrefix == <<69, 82, 82, SP>>
PluginMetaKey == <<112, 108, 117, 103, 105, 110, 46, 109, 101, 116, 97, 46, 107, 101, 121>>
PluginMetaValue == <<112, 108, 117, 103, 105, 110, 46, 109, 101, 116, 97, 46, 118, 97, 108, 117, 101>>
PluginMetaKeys == PluginMetaKey \o <<115>>

\* MFS_TRACKER_ERROR_CODE and MFS_TRACKER_ERROR_DESC (mogile_fs.h 42-43).
ErrorCodeKey == <<69, 82, 82, 79, 82, 95, 67, 79, 68, 69>>
ErrorDescKey == <<69, 82, 82, 79, 82, 95, 68, 69, 83, 67>>

\* apr_psprintf's "%d" for the small counts used here.
Decimal(n) == <<48 + n>>

-----------------------------------------------------------------------------
(* Characters and URL coding, tracker.c lines 218-267.                     *)

IsDigit(c) == c \in 48 .. 57
IsAlnum(c) == c \in (48 .. 57) \cup (65 .. 90) \cup (97 .. 122)
ToLower(c) == IF c \in 65 .. 90 THEN c + 32 ELSE c

\* The value of a (signed) char holding byte c.
SignedChar(c) == IF c >= 128 THEN c - 256 ELSE c

\* to_hex: "0123456789abcdef"[code & 15].
to_hex(code) == LET n == code % 16 IN IF n < 10 THEN 48 + n ELSE 87 + n

\* from_hex: isdigit(ch) ? ch - '0' : tolower(ch) - 'a' + 10.
from_hex(ch) == IF IsDigit(ch) THEN ch - 48 ELSE ToLower(ch) - 97 + 10

\* from_hex(a) << 4 | from_hex(b), stored in a char: its low byte.
DecodedByte(a, b) == ((from_hex(a) * 16) % 256) | (from_hex(b) % 256)

\* Line 233: the characters passed through unencoded.
Unreserved(c) == IsAlnum(c) \/ c \in {45, 95, 46, 126}

\* Lines 229-248.  *pstr >> 4 on a signed char is an arithmetic shift.
RECURSIVE mfs_tracker_url_encode(_)
mfs_tracker_url_encode(s) ==
    IF s = <<>> THEN <<>>
    ELSE LET c == Head(s)
             e == CASE Unreserved(c) -> <<c>>
                    [] c = SP        -> <<PLUS>>
                    [] OTHER         -> <<PCT, to_hex(SignedChar(c) \div 16),
                                               to_hex(SignedChar(c))>>
         IN e \o mfs_tracker_url_encode(Tail(s))

\* Variant of the '%' case that steps over one character too few.
RECURSIVE UrlDecodeShortSkip(_)
UrlDecodeShortSkip(s) ==
    IF s = <<>> THEN <<>>
    ELSE CASE s[1] = PCT /\ Len(s) >= 3 ->
                  <<DecodedByte(s[2], s[3])>> \o UrlDecodeShortSkip(SubSeq(s, 3, Len(s)))
           [] s[1] = PCT  -> UrlDecodeShortSkip(Tail(s))
           [] s[1] = PLUS -> <<SP>> \o UrlDecodeShortSkip(Tail(s))
           [] OTHER       -> <<s[1]>> \o UrlDecodeShortSkip(Tail(s))

\* Lines 250-267: "%xy" becomes one byte; a '%' without two characters
\* after it is dropped; '+' becomes a space.
RECURSIVE mfs_tracker_url_decode(_)
mfs_tracker_url_decode(s) ==
    IF s = <<>> THEN <<>>
    ELSE CASE s[1] = PCT /\ Len(s) >= 3 ->
                  <<DecodedByte(s[2], s[3])>> \o mfs_tracker_url_decode(SubSeq(s, 4, Len(s)))
           [] s[1] = PCT  -> mfs_tracker_url_decode(Tail(s))
           [] s[1] = PLUS -> <<SP>> \o mfs_tracker_url_decode(Tail(s))
           [] OTHER       -> <<s[1]>> \o mfs_tracker_url_decode(Tail(s))
-----------------------------------------------------------------------------
(* Parameter lists, lines 79-138.                                          *)

EmptyParameters == [count |-> 0, strlen |-> 0, meta_count |-> 0, list |-> <<>>]

\* Lines 90-108: an already encoded pair is appended, count and strlen
\* (key, value and '=') are updated.
mfs_tracker_add_parameter_pointers(P, ek, ev) ==
    [P EXCEPT !.count = @ + 1,
              !.strlen = @ + Len(ek) + Len(ev) + 1,
              !.list = Append(@, <<ek, ev>>)]

\* Lines 82-87.
mfs_tracker_add_parameter(P, key, value) ==
    mfs_tracker_add_parameter_pointers(P, mfs_tracker_url_encode(key),
                                       mfs_tracker_url_encode(value))

\* Lines 110-116 (prepare = true): the pair becomes the parameters
\* plugin.meta.key<i> and plugin.meta.value<i>, i = meta_count.
mfs_tracker_add_meta_data(P, key, value) ==
    LET i == P.meta_count
        P1 == mfs_tracker_add_parameter(P, PluginMetaKey \o Decimal(i), key)
        P2 == mfs_tracker_add_parameter(P1, PluginMetaValue \o Decimal(i), value)
    IN [P2 EXCEPT !.meta_count = @ + 1]

\* Lines 140-150: the entries of a staged list are added to dest in
\* order, a metadata entry (staged with prepare = false, lines 117-136,
\* its key and value kept unencoded) through mfs_tracker_add_meta_data
\* with prepare = true, any other by its encoded pointers.
mfs_tracker_copy_parameter_pointers(staged, P) ==
    LET Add(Q, e) ==
            IF e.meta THEN mfs_tracker_add_meta_data(Q, e.key, e.value)
            ELSE mfs_tracker_add_parameter_pointers(Q, e.key, e.value)
    IN FoldLeft(Add, P, staged)

-----------------------------------------------------------------------------
(* The request line, lines 269-309.                                        *)

\* "plugin.meta.keys=<meta_count>&"
MetaCountParam(P) == PluginMetaKeys \o <<EQ>> \o Decimal(P.meta_count) \o <<AMP>>

\* Variant of the size computation that does not take off the '&' the
\* last parameter has none of.
RequestLengthNoAmpCorrection(cmd, P) ==
    Len(cmd) + 3 + P.strlen + P.count
    + (IF P.meta_count > 0 THEN Len(MetaCountParam(P)) ELSE 0)

\* Line 273-280: *size.
RequestLength(cmd, P) ==
    Len(cmd) + 3 + P.strlen + P.count - 1
    + (IF P.meta_count > 0 THEN Len(MetaCountParam(P)) ELSE 0)

\* Lines 284-306: what the copies write, "key=value" joined by '&'.
RECURSIVE JoinParameters(_)
JoinParameters(l) ==
    IF l = <<>> THEN <<>>
    ELSE Head(l)[1] \o <<EQ>> \o Head(l)[2]
         \o (IF Tail(l) # <<>> THEN <<AMP>> \o JoinParameters(Tail(l)) ELSE <<>>)

RequestBuffer(cmd, P) ==
    cmd \o <<SP>> \o (IF P.meta_count > 0 THEN MetaCountParam(P) ELSE <<>>)
    \o JoinParameters(P.list) \o <<CR, LF>>

\* mfs_tracker_build_request with the send of mfs_tracker_request (line
\* 156): the first *size bytes of the buffer go out; a size one past the
\* written line sends its NUL terminator as well.
mfs_tracker_build_request(cmd, P) ==
    LET buf == RequestBuffer(cmd, P) \o <<NUL>>
    IN SubSeq(buf, 1, RequestLength(cmd, P))

-----------------------------------------------------------------------------
(* Reading the reply, lines 163-213.                                       *)

\* Variant of the loop that keeps only the latest chunk.
RECURSIVE ReadLoopForget(_, _)
ReadLoopForget(chunks, acc) ==
    IF chunks = <<>> THEN [rv |-> "timeout", buf |-> acc]
    ELSE IF Head(chunks) = <<>> THEN [rv |-> "eof", buf |-> acc]
    ELSE LET a == Head(chunks)
         IN IF Last(a) = LF THEN [rv |-> "success", buf |-> a]
            ELSE ReadLoopForget(Tail(chunks), a)

\* Lines 170-206: each apr_socket_recv result is appended to what was read
\* until the buffer ends in '\n'; a zero-sized read is APR_EOF, and when
\* the peer sends nothing more the recv fails with the socket timeout.
RECURSIVE ReadLoop(_, _)
ReadLoop(chunks, acc) ==
    IF chunks = <<>> THEN [rv |-> "timeout", buf |-> acc]
    ELSE IF Head(chunks) = <<>> THEN [rv |-> "eof", buf |-> acc]
    ELSE LET a == acc \o Head(chunks)
         IN IF Last(a) = LF THEN [rv |-> "success", buf |-> a]
            ELSE ReadLoop(Tail(chunks), a)

\* Lines 311-337.  Each returns the index of the first byte that stops the
\* scan, or -1 when the scan runs to the end of the buffer.
ScanResult(b, Stop(_)) ==
    LET k == SelectInSeq(b, Stop) IN IF k = 0 THEN -1 ELSE k - 1

skip_char(b, c) == ScanResult(b, LAMBDA x : x # c)
skip_space_or_number(b) == ScanResult(b, LAMBDA x : x # SP /\ ~IsDigit(x))
skip_not_char(b, c) == ScanResult(b, LAMBDA x : x = c)

\* skip_not_char_in_str scans a C string: the bytes before its NUL.
CString(b) ==
    LET k == SelectInSeq(b, LAMBDA x : x = NUL)
    IN IF k = 0 THEN b ELSE SubSeq(b, 1, k - 1)

skip_not_char_in_str(s, c) == ScanResult(CString(s), LAMBDA x : x = c)

\* apr_strtok(buf, "&"): the non-empty runs between '&'s, in order.
RECURSIVE Tokens(_)
Tokens(s) ==
    IF s = <<>> THEN <<>>
    ELSE IF Head(s) = AMP THEN Tokens(Tail(s))
    ELSE LET k == SelectInSeq(s, LAMBDA x : x = AMP)
         IN IF k = 0 THEN <<s>>
            ELSE <<SubSeq(s, 1, k - 1)>> \o Tokens(SubSeq(s, k + 1, Len(s)))

Framing(res) == [rv |-> "eftype", ok |-> "unset", result |-> res]

\* Lines 367-379: each pair goes into the hash as (raw key, decoded value),
\* a later one replacing an earlier one with the same key; a pair with
\* no '=' is a framing error, with the pairs before it already stored.
RECURSIVE ParsePairs(_, _)
ParsePairs(toks, res) ==
    IF toks = <<>> THEN [rv |-> "success", ok |-> TRUE, result |-> res]
    ELSE LET t == Head(toks)
             np == skip_not_char_in_str(t, EQ)
         IN IF np = -1 THEN Framing(res)
            ELSE ParsePairs(Tail(toks),
                     (SubSeq(t, 1, np) :> mfs_tracker_url_decode(SubSeq(t, np + 2, Len(t))))
                       @@ res)

\* Lines 381-421: "ERR <spaces><code> <spaces><message>".
ParseErr(b) ==
    LET np1 == skip_char(b, SP)
        b2  == SubSeq(b, np1 + 1, Len(b))
        np2 == skip_not_char(b2, SP)
        b3  == SubSeq(b2, np2 + 2, Len(b2))
        np3 == skip_char(b3, SP)
    IN CASE np1 = -1 -> Framing(<< >>)
         [] np2 = -1 -> Framing(<< >>)
         [] np3 = -1 -> Framing(<< >>)
         [] OTHER ->
              [rv |-> "success", ok |-> FALSE,
               result |-> (ErrorCodeKey :> mfs_tracker_url_decode(SubSeq(b2, 1, np2)))
                          @@ (ErrorDescKey :> mfs_tracker_url_decode(CString(SubSeq(b3, np3 + 1, Len(b3)))))]

\* Lines 339-428, on the buffer whose '\r' was overwritten by NUL.
mfs_tracker_parse_response(fb) ==
    LET n == Len(fb)
        b == SubSeq(fb, 4, n)
        np == skip_space_or_number(b)
    IN CASE n < 4 -> Framing(<< >>)
         [] SubSeq(fb, 1, 3) = OkPrefix ->
              IF np = -1 THEN Framing(<< >>)
              ELSE ParsePairs(Tokens(CString(SubSeq(b, np + 1, Len(b)))), << >>)
         [] n > 4 /\ SubSeq(fb, 1, 4) = ErrPrefix -> ParseErr(SubSeq(fb, 5, n))
         [] OTHER -> Framing(<< >>)

\* mfs_tracker_request after the send (lines 170-215): read, check the
\* "\r\n" terminator (lines 207-213), parse.
mfs_tracker_request_receive(chunks) ==
    LET r == ReadLoop(chunks, << >>)
        n == Len(r.buf)
    IN CASE r.rv # "success" -> [rv |-> r.rv, ok |-> "unset", result |-> << >>]
         [] n > 1 /\ r.buf[n - 1] = CR ->
              mfs_tracker_parse_response([r.buf EXCEPT ![n - 1] = NUL])
         [] OTHER -> Framing(<< >>)

-----------------------------------------------------------------------------
(* Reference definitions, independent of the code: the request line of     *)
(* the protocol (spec section 4.1) and replies as a tracker writes them.   *)

HexDigit(d, a) == IF d < 10 THEN 48 + d ELSE a + d - 10

\* Percent-encoding of byte string s: unreserved bytes stay, a space is
\* '+', any other byte c is '%' and the two hex digits of c (0..255);
\* a is the code of the letter digit 10 ('a' or 'A').
PercentEncode(s, a) ==
    FlattenSeq([j \in 1 .. Len(s) |->
        CASE Unreserved(s[j]) -> <<s[j]>>
          [] s[j] = SP        -> <<PLUS>>
          [] OTHER -> <<PCT, HexDigit(s[j] \div 16, a), HexDigit(s[j] % 16, a)>>])

RECURSIVE JoinAmp(_)
JoinAmp(l) ==
    IF Len(l) <= 1 THEN FlattenSeq(l)
    ELSE Head(l) \o <<AMP>> \o JoinAmp(Tail(l))

\* The line for the calls recorded in h, in call order: ordinary pairs as
\* key=value, the i-th metadata pair as plugin.meta.key<i>=key&
\* plugin.meta.value<i>=value, with plugin.meta.keys=<N>& first if N > 0.
RefRequest(cmd, h) ==
    LET Enc(x) == PercentEncode(x, 97)
        MetaIndex(j) == Len(SelectSeq(SubSeq(h, 1, j - 1), LAMBDA e : e.meta))
        N == Len(SelectSeq(h, LAMBDA e : e.meta))
        Piece(j) ==
            IF h[j].meta
            THEN PluginMetaKey \o Decimal(MetaIndex(j)) \o <<EQ>> \o Enc(h[j].key)
                 \o <<AMP>> \o PluginMetaValue \o Decimal(MetaIndex(j)) \o <<EQ>>
                 \o Enc(h[j].value)
            ELSE Enc(h[j].key) \o <<EQ>> \o Enc(h[j].value)
    IN cmd \o <<SP>> \o (IF N > 0 THEN PluginMetaKeys \o <<EQ>> \o Decimal(N) \o <<AMP>> ELSE <<>>)
       \o JoinAmp([j \in 1 .. Len(h) |-> Piece(j)]) \o <<CR, LF>>

\* The value the last pair with each key gives it.
LastWins(ps) ==
    [k \in {ps[j][1] : j \in DOMAIN ps} |->
        ps[SelectLastInSeq(ps, LAMBDA p : p[1] = k)][2]]

\* "OK k=v&...\r\n" and "ERR code message\r\n", uppercase hex, with the
\* result mfs_tracker_request is to hand back for each.
TrackerReplies ==
    LET Enc(x) == PercentEncode(x, 65)
    IN {[bytes |-> OkPrefix \o JoinAmp([j \in 1 .. Len(ps) |->
                      Enc(ps[j][1]) \o <<EQ>> \o Enc(ps[j][2])]) \o <<CR, LF>>,
         expect |-> [rv |-> "success", ok |-> TRUE, result |-> LastWins(ps)]]
        : ps \in BoundedSeq(Keys \X Values, MaxReplyPairs)}
       \cup
       {[bytes |-> ErrPrefix \o Enc(c) \o <<SP>> \o Enc(d) \o <<CR, LF>>,
         expect |-> [rv |-> "success", ok |-> FALSE,
                     result |-> (ErrorCodeKey :> c) @@ (ErrorDescKey :> d)]]
        : c \in Keys, d \in Values}

\* How the bytes of a reply reach apr_socket_recv: in one read, in two
\* reads cut after the first byte, in the middle or before the '\n'; or
\* not all of them: a zero-sized read after the first two bytes, or the
\* last byte never arriving.
Deliveries(b) ==
    {<<b>>}
    \cup {<<SubSeq(b, 1, c), SubSeq(b, c + 1, Len(b))>> : c \in {1, Len(b) \div 2, Len(b) - 1}}
    \cup {<<SubSeq(b, 1, 2), <<>>>>, <<SubSeq(b, 1, Len(b) - 1)>>}

-----------------------------------------------------------------------------
(* The caller's steps.                                                     *)

VARIABLES
    params,    \* the tracker_request_parameters being built
    history,   \* the add calls made on it, in order
    staged,    \* a second list of extra parameters: its entries as stored
    stagedCalls, \* and the add calls that made them
    exchange   \* the last mfs_tracker_request: the calls made on the list
               \* then, the line sent, the reply, how it arrived, the result

vars == <<params, history, staged, stagedCalls, exchange>>

\* Add calls made so far, on either list.
Calls == Len(history) + Len(stagedCalls)

NoExchange == [calls |-> <<>>, sent |-> <<>>, reply |-> <<>>, chunks |-> <<>>, response |-> <<>>]

\* mfs_tracker_init_parameters (lines 79-80): a new, empty list.
InitParameters ==
    /\ params' = EmptyParameters
    /\ history' = <<>>
    /\ staged' = <<>>
    /\ stagedCalls' = <<>>
    /\ exchange' = NoExchange

AddParameter ==
    /\ exchange = NoExchange
    /\ Calls < MaxParams
    /\ \E k \in Keys, v \in Values :
          /\ params' = mfs_tracker_add_parameter(params, k, v)
          /\ history' = Append(history, [meta |-> FALSE, key |-> k, value |-> v])
    /\ UNCHANGED <<staged, stagedCalls, exchange>>

AddMetaData ==
    /\ exchange = NoExchange
    /\ Calls < MaxParams
    /\ \E k \in Keys, v \in Values :
          /\ params' = mfs_tracker_add_meta_data(params, k, v)
          /\ history' = Append(history, [meta |-> TRUE, key |-> k, value |-> v])
    /\ UNCHANGED <<staged, stagedCalls, exchange>>

\* mfs_tracker_add_parameter on the staged list: the entry holds the
\* encoded pair.
AddStagedParameter ==
    /\ exchange = NoExchange
    /\ Calls < MaxParams
    /\ \E k \in Keys, v \in Values :
          /\ staged' = Append(staged, [meta |-> FALSE, key |-> mfs_tracker_url_encode(k),
                                       value |-> mfs_tracker_url_encode(v)])
          /\ stagedCalls' = Append(stagedCalls, [meta |-> FALSE, key |-> k, value |-> v])
    /\ UNCHANGED <<params, history, exchange>>

\* mfs_tracker_add_meta_data(..., prepare = false) on the staged list.
AddStagedMetaData ==
    /\ exchange = NoExchange
    /\ Calls < MaxParams
    /\ \E k \in Keys, v \in Values :
          /\ staged' = Append(staged, [meta |-> TRUE, key |-> k, value |-> v])
          /\ stagedCalls' = Append(stagedCalls, [meta |-> TRUE, key |-> k, value |-> v])
    /\ UNCHANGED <<params, history, exchange>>

\* file_upload.c 236 and 310: the staged extras are copied into the list
\* of the request, after the parameters added to it so far.
CopyParameterPointers ==
    /\ exchange = NoExchange
    /\ staged # <<>>
    /\ params' = mfs_tracker_copy_parameter_pointers(staged, params)
    /\ history' = history \o stagedCalls
    /\ staged' = <<>>
    /\ stagedCalls' = <<>>
    /\ UNCHANGED exchange

\* mfs_tracker_request (lines 152-216) with the list as it stands; every
\* caller in the repository has added a parameter first.  The send
\* succeeds; the tracker answers with one of its replies.  The list is
\* then done with (a retry on another tracker sends the same bytes), so
\* the next step starts a new one.
mfs_tracker_request ==
    /\ exchange = NoExchange
    /\ params.count > 0
    /\ \E r \in TrackerReplies : \E d \in Deliveries(r.bytes) :
          exchange' = [calls |-> history,
                       sent |-> mfs_tracker_build_request(Cmd, params),
                       reply |-> r, chunks |-> d,
                       response |-> mfs_tracker_request_receive(d)]
    /\ UNCHANGED <<params, history, staged, stagedCalls>>

Init ==
    /\ params = EmptyParameters
    /\ history = <<>>
    /\ staged = <<>>
    /\ stagedCalls = <<>>
    /\ exchange = NoExchange

Next ==
    \/ InitParameters
    \/ AddParameter
    \/ AddMetaData
    \/ AddStagedParameter
    \/ AddStagedMetaData
    \/ CopyParameterPointers
    \/ mfs_tracker_request

Spec == Init /\ [][Next]_vars

-----------------------------------------------------------------------------
(* Properties.                                                             *)

\* Whatever ordinary and metadata parameters were added, with whatever
\* bytes, mfs_tracker_build_request's exactly-sized buffer (lines
\* 273-307) sends the protocol line for them: every pair percent-encoded,
\* the metadata count prefix and synthetic names, '&' between pairs, and
\* "\r\n" as the last bytes sent -- no byte missing, none extra.
RequestIsReferenceLine ==
    exchange # NoExchange => exchange.sent = RefRequest(Cmd, exchange.calls)

\* However the reply is cut into reads, mfs_tracker_request returns, for
\* every OK reply, exactly its pairs with values decoded (the last of a
\* repeated key winning) and, for every ERR reply, its decoded code and
\* message; a reply that does not arrive whole is an error, never a
\* success.
ReplyParsedAsSent ==
    exchange # NoExchange =>
        IF FlattenSeq(exchange.chunks) = exchange.reply.bytes
           /\ \A j \in DOMAIN exchange.chunks : exchange.chunks[j] # <<>>
        THEN exchange.response = exchange.reply.expect
        ELSE exchange.response.rv # "success"
====
