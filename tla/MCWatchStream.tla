------------------------- MODULE MCWatchStream -------------------------
(* A model of the watch reader: a 4-byte read_buf, lines of at most 4    *)
(* bytes, and a tracker that sends a plain line and an empty one, or a   *)
(* cache line naming another client, on each of up to two connections.   *)
EXTENDS WatchStream

MCScripts == {<< <<"a">>, <<>> >>, << <<CK, "b", SP, "a">> >>}
MCClientId == <<"a">>
MCAfterBuf == {NUL, "b"}
====
