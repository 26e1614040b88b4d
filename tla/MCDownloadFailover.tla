------------------------- MODULE MCDownloadFailover -------------------------
EXTENDS DownloadFailover

MCLengths == 0 .. 3
MCRequired == {-1, 2}
MCChunks == {1, 2}

\* Two storage-node URLs and one apr_uri_parse rejects.
U1 == <<"http://a/1">>
U2 == <<"http://b/2">>
Bad == <<"a/1">>
MCBadUrls == {Bad}

\* What mfs_request_do may hand mfs_get_paths: no tracker answered; an
\* ERR unknown_key or another code; an OK reply with a count of 0, with a
\* path missing, with one or two paths (one unparsable).
Ok(h) == [rv |-> "Success", ok |-> TRUE, result |-> h]
Err(c) == [rv |-> "Success", ok |-> FALSE,
           result |-> [ERROR_CODE |-> <<c>>, ERROR_DESC |-> <<"d">>]]
MCPathsReplies ==
    { [rv |-> "ECONNREFUSED", ok |-> FALSE, result |-> <<>>],
      Err("unknown_key"), Err("no_domain"),
      Ok([paths |-> <<"0">>]),
      Ok([paths |-> <<"2">>, path1 |-> U1]),
      Ok([paths |-> <<"1">>, path1 |-> U1]),
      Ok([paths |-> <<"2">>, path1 |-> Bad, path2 |-> U2]),
      Ok([paths |-> <<"2">>, path1 |-> U1, path2 |-> U2]) }
====
