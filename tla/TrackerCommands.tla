-------------------------- MODULE TrackerCommands --------------------------
(***************************************************************************)
(* The tracker-command wrappers of src/src/file.c: what each makes of the  *)
(* outcome of mfs_request_do.  A response is a record                      *)
(*   [rv |-> status, ok |-> BOOLEAN, result |-> hash]                      *)
(* where status is "Success" or the transport error mfs_request_do         *)
(* returned, and hash is the apr_hash_t the reply was parsed into: a       *)
(* function from key strings to values.  A value is a sequence of          *)
(* strings: the characters of a value the code converts with atoi or       *)
(* apr_atoi64 or whose first character it tests, one per element; any     *)
(* other value (a URL, a name, an error code) is one opaque element.       *)
(*                                                                         *)
(* The request each wrapper builds (domain, key, argN, client_id) is data  *)
(* sent through WireCodec and is not repeated here.  Each wrapper is an   *)
(* operator from the response to the wrapper's return value and what it    *)
(* wrote through its output pointers (NotSet for an output left alone).    *)
(***************************************************************************)
EXTENDS Integers, Sequences, TLC

MaxAllowedPaths == 100               \* MAX_ALLOWED_PATHS, mogile_fs.h:274
MaxAllowedDirectoryEntries == 32000   \* mogile_fs.h:275

ErrorCode == "ERROR_CODE"   \* MFS_TRACKER_ERROR_CODE
NULL == <<"(null)">>        \* apr_hash_get of an absent key: no value is it
NotSet == "NotSet"          \* an output the call did not write

\* apr_hash_get(result, k, APR_HASH_KEY_STRING).
Get(h, k) == IF k \in DOMAIN h THEN h[k] ELSE NULL

DigitChars == <<"0", "1", "2", "3", "4", "5", "6", "7", "8", "9">>
Digits == [d \in {DigitChars[n] : n \in 1 .. 10} |->
             CHOOSE n \in 0 .. 9 : DigitChars[n + 1] = d]

\* The value of the leading decimal digits of s, accumulated in acc.
RECURSIVE DigitRun(_, _)
DigitRun(s, acc) ==
    IF s # <<>> /\ Head(s) \in DOMAIN Digits
    THEN DigitRun(Tail(s), 10 * acc + Digits[Head(s)])
    ELSE acc

\* atoi / apr_atoi64: leading blanks skipped, one optional sign, then the
\* digits up to the first other character; 0 when there are none.
RECURSIVE Atoi(_)
Atoi(s) ==
    CASE s # <<>> /\ Head(s) \in {" ", "\t", "\n"} -> Atoi(Tail(s))
      [] s # <<>> /\ Head(s) = "-" -> -DigitRun(Tail(s), 0)
      [] s # <<>> /\ Head(s) = "+" -> DigitRun(Tail(s), 0)
      [] OTHER -> DigitRun(s, 0)

\* The first character of a C string: NUL for the empty string.
FirstChar(s) == IF s = <<>> THEN "NUL" ELSE Head(s)

-----------------------------------------------------------------------------
(* Status-only wrappers: delete, delete_filepath_node, sleep, rename,      *)
(* rename_filepath, set_mtime.  A transport error is returned as it is; an *)
(* ERR reply is logged and turned into APR_EGENERAL.                       *)

CheckOk(resp) ==
    CASE resp.rv # "Success" -> resp.rv
      [] ~resp.ok           -> "EGENERAL"
      [] OTHER              -> "Success"

mfs_delete(resp)               == CheckOk(resp)
mfs_delete_filepath_node(resp) == CheckOk(resp)
mfs_sleep(resp)                == CheckOk(resp)
mfs_rename(resp)               == CheckOk(resp)
mfs_rename_filepath(resp)      == CheckOk(resp)
mfs_set_mtime(resp)            == CheckOk(resp)

\* mfs_create_directory / mfs_create_link: after a reply (OK or ERR) the
\* "nid" value, when present, is written to *server_id (apr_atoi64) if
\* the caller passed one.
CreateNode(resp) ==
    [rv       |-> CheckOk(resp),
     serverId |-> IF resp.rv = "Success" /\ Get(resp.result, "nid") # NULL
                  THEN Atoi(resp.result["nid"]) ELSE NotSet]

mfs_create_directory(resp) == CreateNode(resp)
mfs_create_link(resp)      == CreateNode(resp)

\* mfs_stats_filepath / mfs_checkfs_filepath: after any reply, OK or ERR,
\* each field is the converted value or its default.
FieldOr(h, k, d) == IF Get(h, k) # NULL THEN Atoi(h[k]) ELSE d

mfs_stats_filepath(resp) ==
    IF resp.rv # "Success" THEN [rv |-> resp.rv, stats |-> NotSet]
    ELSE [rv |-> CheckOk(resp),
          stats |-> [total_mb |-> FieldOr(resp.result, "mb_total", 0),
                     used_mb  |-> FieldOr(resp.result, "mb_used", 0)]]

mfs_checkfs_filepath(resp) ==
    IF resp.rv # "Success" THEN [rv |-> resp.rv, stats |-> NotSet]
    ELSE [rv |-> CheckOk(resp),
          stats |-> [fixed |-> FieldOr(resp.result, "fixed", -1),
                     total |-> FieldOr(resp.result, "total", -1)]]

-----------------------------------------------------------------------------
(* Replies that carry a list or an entry.                                  *)

\* Variant that takes every ERR reply for "not found".
NotFoundOrAny(h, codes) == "EBADPATH"

\* The ERR branch of get_paths and list_directory: unknown_key is "not
\* found" (APR_EBADPATH), any other code APR_EGENERAL.  strcmp is applied
\* to the code as it is: an ERR hash always has one (tracker.c:418).
NotFoundOr(h, codes) == IF h[ErrorCode] \in codes THEN "EBADPATH" ELSE "EGENERAL"

\* sprintf(key, "path%d", n) and sprintf(key, "file%d", n).
PathKey(n) == "path" \o ToString(n)
FileKey(n) == "file" \o ToString(n)

\* Lines 160-215, mfs_get_paths: [rv, paths, count] with the values
\* written to *paths and *path_count.  A count of 1..99 needs every
\* pathN; a "0" writes *path_count = 0 and still fails.
mfs_get_paths(resp) ==
    LET h  == resp.result
        s  == Get(h, "paths")
        pc == Atoi(s)
        Fail(r) == [rv |-> r, paths |-> NotSet, count |-> NotSet]
    IN CASE resp.rv # "Success" -> Fail(resp.rv)
         [] ~resp.ok -> Fail(NotFoundOr(h, {<<"unknown_key">>}))
         [] s = NULL -> Fail("EGENERAL")
         [] pc > 0 /\ pc < MaxAllowedPaths ->
              IF \A n \in 1 .. pc : Get(h, PathKey(n)) # NULL
              THEN [rv |-> "Success", paths |-> [n \in 1 .. pc |-> h[PathKey(n)]],
                    count |-> pc]
              ELSE Fail("EGENERAL")
         [] pc = 0 /\ s = <<"0">> -> [Fail("EGENERAL") EXCEPT !.count = 0]
         [] OTHER -> Fail("EGENERAL")

\* Lines 466-523: entry pos of a listing (keys file<pos>, file<pos>.x),
\* or NULL when its name or type is missing (the loop returns
\* APR_EGENERAL there).  The entry starts zeroed (apr_pcalloc).
ListEntry(h, pos) ==
    LET K(x) == FileKey(pos) \o "." \o x
        t    == Get(h, K("type"))
        kind == CASE t = NULL               -> NULL
                  [] FirstChar(t) = "D"     -> "directory"
                  [] FirstChar(t) = "L"     -> "symlink"
                  [] OTHER                  -> "file"
        e    == [name |-> Get(h, FileKey(pos)),
                 mtime |-> 1000000 * FieldOr(h, K("mtime"), 0),
                 server_id |-> FieldOr(h, K("nid"), -1),
                 type |-> kind,
                 link |-> IF kind = "symlink" THEN Get(h, K("link")) ELSE NULL,
                 size |-> IF kind = "file" THEN FieldOr(h, K("size"), 0) ELSE 0]
    IN IF e.name = NULL \/ kind = NULL \/ (kind = "symlink" /\ e.link = NULL)
       THEN NULL ELSE e

\* Lines 442-545, mfs_list_directory: [rv, entries, count].  Entries are
\* numbered from file0.  "files=0" returns APR_SUCCESS with *child_count 0
\* and *filepath_entries left as it was.
mfs_list_directory(resp) ==
    LET h  == resp.result
        s  == Get(h, "files")
        pc == Atoi(s)
        es == [pos \in 0 .. pc - 1 |-> ListEntry(h, pos)]
        Fail(r) == [rv |-> r, entries |-> NotSet, count |-> NotSet]
    IN CASE resp.rv # "Success" -> Fail(resp.rv)
         [] ~resp.ok -> Fail(NotFoundOr(h, {<<"unknown_key">>}))
         [] s = NULL -> Fail("EGENERAL")
         [] pc > 0 /\ pc < MaxAllowedDirectoryEntries ->
              IF \A pos \in 0 .. pc - 1 : es[pos] # NULL
              THEN [rv |-> "Success", entries |-> es, count |-> pc]
              ELSE Fail("EGENERAL")
         [] pc = 0 /\ s = <<"0">> -> [rv |-> "Success", entries |-> NotSet, count |-> 0]
         [] OTHER -> Fail("EGENERAL")

\* Lines 548-616, mfs_path_info: [rv, entry], entry the fields written to
\* *filepath_entry.  name, mtime and server_id are written before the
\* type is looked at, so a reply without a type (or a link without its
\* target) fails with those fields already overwritten.  Both
\* path_not_found and unknown_key are "not found".
mfs_path_info(resp) ==
    LET h == resp.result
        t == Get(h, "type")
        head == [name |-> NULL, mtime |-> 1000000 * FieldOr(h, "mtime", 0),
                 server_id |-> FieldOr(h, "nid", -1)]
        kind == CASE FirstChar(t) = "D" -> "directory"
                  [] FirstChar(t) = "L" -> "symlink"
                  [] OTHER              -> "file"
    IN CASE resp.rv # "Success" -> [rv |-> resp.rv, entry |-> NotSet]
         [] ~resp.ok ->
              [rv |-> NotFoundOr(h, {<<"path_not_found">>, <<"unknown_key">>}), entry |-> NotSet]
         [] t = NULL -> [rv |-> "EGENERAL", entry |-> head]
         [] kind = "symlink" /\ Get(h, "link") = NULL ->
              [rv |-> "EGENERAL", entry |-> head @@ [type |-> kind, link |-> NULL]]
         [] OTHER ->
              [rv |-> "Success",
               entry |-> head @@ [type |-> kind]
                         @@ (IF kind = "symlink" THEN [link |-> h["link"]]
                             ELSE IF kind = "file" THEN [size |-> FieldOr(h, "size", 0)]
                             ELSE <<>>)]
====
