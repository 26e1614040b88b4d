---------------------------- MODULE MCWireCodec ----------------------------
(* Model values for WireCodec: keys as trackers and callers use them,      *)
(* values with the bytes the encoding must protect -- a space, '&', '=',   *)
(* a byte above 127 (a negative char) -- and the empty value.              *)
EXTENDS WireCodec

\* "k" and "p1"
MCKeys == {<<107>>, <<112, 49>>}

\* "", "a &", "=" followed by byte 0xE9
MCValues == {<<>>, <<97, SP, AMP>>, <<EQ, 233>>}

\* "delete"
MCCmd == <<100, 101, 108, 101, 116, 101>>
====
