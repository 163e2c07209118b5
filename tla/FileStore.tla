-------------------------------- MODULE FileStore --------------------------------
(***************************************************************************)
(* FileService over FileStorage: files on disk and their records in the    *)
(* table file_assets, two stores without a common transaction.  An upload  *)
(* reads its body three times, to measure it, to sniff its type and to     *)
(* save it, and writes the bytes before it inserts the record; a deletion  *)
(* removes the bytes before it marks the record; the record's fate is      *)
(* decided later, by the commit or the rollback of the session.            *)
(*                                                                         *)
(* A file is its stored name, a uuid that is never used twice; of its      *)
(* bytes the model keeps how many there are.                               *)
(***************************************************************************)
EXTENDS Naturals

CONSTANTS Files,      \* stored names an execution can generate (bound)
          Requests,   \* slots of requests in flight at once (bound)
          NoFile,
          Sizes,      \* sizes of what clients send
          Limit       \* the largest size accepted, MAX_UPLOAD_SIZE_MB

ASSUME FileAssumption ==
  NoFile \notin Files /\ Sizes \subseteq Nat /\ Limit \in Nat

VARIABLES
  complete, partial,  \* the files on disk, fully written or not
  stored,             \* the bytes of a file on disk
  live, trashed,      \* committed records, by deleted_at
  size_bytes,         \* a column of the records
  pc, arg,            \* of a request: step, input
  unread,             \* of an upload: what is left of its body to read
  wrote,              \* it has written, and locked, its record
  failed,             \* history: files left behind by a failed upload or deletion
  sent                \* history: how much the client sent for a file

disk == <<complete, partial, stored>>
db   == <<live, trashed, size_bytes>>
vars == <<complete, partial, stored, live, trashed, size_bytes,
          pc, arg, unread, wrote, failed, sent>>

Ops == {"upload", "delete", "download"}
Labels == {"idle", "validate", "sniff", "open", "write", "insert", "find", "mark", "write_record",
           "commit", "send", "sent", "not_found"}
Inputs == [op : Ops \cup {"none"}, file : Files \cup {NoFile}, size : Nat]
NoInput == [op |-> "none", file |-> NoFile, size |-> 0]

TypeOK ==
  /\ complete \subseteq Files /\ partial \subseteq Files
  /\ live \subseteq Files /\ trashed \subseteq Files
  /\ complete \cap partial = {} /\ live \cap trashed = {}
  /\ pc \in [Requests -> Labels]
  /\ arg \in [Requests -> Inputs]
  /\ unread \in [Requests -> Nat]
  /\ wrote \in [Requests -> BOOLEAN]
  /\ failed \subseteq Files
  /\ stored \in [Files -> Nat] /\ size_bytes \in [Files -> Nat] /\ sent \in [Files -> Nat]

Init ==
  /\ complete = {} /\ partial = {} /\ live = {} /\ trashed = {}
  /\ pc = [r \in Requests |-> "idle"]
  /\ arg = [r \in Requests |-> NoInput]
  /\ unread = [r \in Requests |-> 0]
  /\ wrote = [r \in Requests |-> FALSE]
  /\ failed = {}
  /\ stored = [f \in Files |-> 0]
  /\ size_bytes = [f \in Files |-> 0]
  /\ sent = [f \in Files |-> 0]

Goto(r, label) == pc' = [pc EXCEPT ![r] = label]

End(r) ==
  /\ Goto(r, "idle")
  /\ arg' = [arg EXCEPT ![r] = NoInput]
  /\ unread' = [unread EXCEPT ![r] = 0]
  /\ wrote' = [wrote EXCEPT ![r] = FALSE]

\* The request is answered, or refused, and leaves everything as it is.
Leave(r) == End(r) /\ UNCHANGED <<disk, db, failed, sent>>

Begin(r, op, f, size, label) ==
  /\ pc[r] = "idle"
  /\ arg' = [arg EXCEPT ![r] = [op |-> op, file |-> f, size |-> size]]
  /\ unread' = [unread EXCEPT ![r] = size]
  /\ Goto(r, label)
  /\ UNCHANGED <<disk, db, wrote, failed, sent>>

(***************************************************************************)
(* Upload: validate_upload_file, FileStorage.save, file_repo.create.       *)
(***************************************************************************)
Fresh == Files \ (complete \cup partial \cup live \cup trashed
                  \cup {arg[q].file : q \in Requests})

Upload(r) ==
  \E f \in Fresh, n \in Sizes : Begin(r, "upload", f, n, "validate")

\* file.seek(0).  Mutant: the body stays at its end.
RewoundMutant(r) == 0
Rewound(r) == arg[r].size

\* The chunks read so far may not exceed the limit.  Mutant: each chunk, no
\* larger than the limit, is compared with it by itself.
TooLargeMutant(n) == FALSE
TooLarge(n) == n > Limit

\* validate_upload_file: the name, the extension and the declared type may be
\* refused too.
Validate(r) ==
  /\ pc[r] = "validate"
  /\ \/ Leave(r)
     \/ /\ ~TooLarge(unread[r])
        /\ unread' = [unread EXCEPT ![r] = Rewound(r)]
        /\ Goto(r, "sniff")
        /\ UNCHANGED <<disk, db, arg, wrote, failed, sent>>

\* The first bytes are compared with the declared type.
Sniff(r) ==
  /\ pc[r] = "sniff"
  /\ \/ Leave(r)
     \/ /\ unread' = [unread EXCEPT ![r] = Rewound(r)]
        /\ Goto(r, "open")
        /\ UNCHANGED <<disk, db, arg, wrote, failed, sent>>

\* aiofiles.open(destination, "wb") creates the file.
OpenFile(r) ==
  /\ pc[r] = "open"
  /\ partial' = partial \cup {arg[r].file}
  /\ sent' = [sent EXCEPT ![arg[r].file] = arg[r].size]
  /\ Goto(r, "write")
  /\ UNCHANGED <<complete, stored, db, arg, unread, wrote, failed>>

\* The chunks are written and the file is closed.  Mutant: nobody waits for it.
WriteChunksMutant(r) ==
  /\ pc[r] = "write"
  /\ Goto(r, "insert")
  /\ UNCHANGED <<disk, db, arg, unread, wrote, failed, sent>>

\* Mutant: the file is never closed.
WriteChunksOpenMutant(r) ==
  /\ pc[r] = "write"
  /\ complete' = complete \cup {arg[r].file}
  /\ stored' = [stored EXCEPT ![arg[r].file] = unread[r]]
  /\ Goto(r, "insert")
  /\ UNCHANGED <<partial, db, arg, unread, wrote, failed, sent>>

WriteChunks(r) ==
  /\ pc[r] = "write"
  /\ partial' = partial \ {arg[r].file}
  /\ complete' = complete \cup {arg[r].file}
  /\ stored' = [stored EXCEPT ![arg[r].file] = unread[r]]
  /\ Goto(r, "insert")
  /\ UNCHANGED <<db, arg, unread, wrote, failed, sent>>

InsertRecord(r) ==
  /\ pc[r] = "insert"
  /\ wrote' = [wrote EXCEPT ![r] = TRUE]
  /\ Goto(r, "commit")
  /\ UNCHANGED <<disk, db, arg, unread, failed, sent>>

(***************************************************************************)
(* Deletion: get_file, os.remove, file_repo.soft_delete.                   *)
(***************************************************************************)
Delete(r) == \E f \in live \cup trashed : Begin(r, "delete", f, 0, "find")

\* The bytes go as soon as the record is found; a missing file is no error.
\* Mutant: they stay, because os.remove fails and the error is swallowed.
RemoveBytesMutant(f) == UNCHANGED disk
RemoveBytes(f) ==
  /\ complete' = complete \ {f} /\ partial' = partial \ {f}
  /\ stored' = [stored EXCEPT ![f] = 0]

FindAndRemove(r) ==
  /\ pc[r] = "find" /\ arg[r].op = "delete"
  /\ \/ arg[r].file \notin live /\ Leave(r)     \* NotFoundException
     \/ /\ arg[r].file \in live
        /\ RemoveBytes(arg[r].file)
        /\ Goto(r, "mark")
        /\ UNCHANGED <<db, arg, unread, wrote, failed, sent>>

\* soft_delete looks the record up again, and leaves a deleted one alone.
FindRecord(r) ==
  /\ pc[r] = "mark"
  /\ Goto(r, IF arg[r].file \in live THEN "write_record" ELSE "commit")
  /\ UNCHANGED <<disk, db, arg, unread, wrote, failed, sent>>

\* The UPDATE waits for the transaction that has locked the record.
WriteRecord(r) ==
  /\ pc[r] = "write_record"
  /\ \A q \in Requests \ {r} : arg[q].file = arg[r].file => ~wrote[q]
  /\ wrote' = [wrote EXCEPT ![r] = TRUE]
  /\ Goto(r, "commit")
  /\ UNCHANGED <<disk, db, arg, unread, failed, sent>>

(***************************************************************************)
(* Download and preview: get_file, then the response opens the path, after *)
(* the session has ended.                                                  *)
(***************************************************************************)
Download(r) == \E f \in live \cup trashed : Begin(r, "download", f, 0, "find")

FindForDownload(r) ==
  /\ pc[r] = "find" /\ arg[r].op = "download"
  /\ Goto(r, IF arg[r].file \in live THEN "send" ELSE "not_found")
  /\ UNCHANGED <<disk, db, arg, unread, wrote, failed, sent>>

\* A file that is missing by now is an internal error.
Send(r) ==
  /\ pc[r] = "send"
  /\ Goto(r, IF arg[r].file \in complete \cup partial THEN "sent" ELSE "not_found")
  /\ UNCHANGED <<disk, db, arg, unread, wrote, failed, sent>>

Answered(r) == pc[r] \in {"sent", "not_found"} /\ Leave(r)

(***************************************************************************)
(* The end of the session.                                                 *)
(***************************************************************************)
Inserted(r) == IF wrote[r] /\ arg[r].op = "upload" THEN {arg[r].file} ELSE {}
\* stored["size_bytes"]: what save has read and written.
Measured(r) == unread[r]
Marked(r) == IF wrote[r] /\ arg[r].op = "delete" THEN {arg[r].file} ELSE {}

Commit(r) ==
  /\ pc[r] = "commit"
  /\ live' = (live \cup Inserted(r)) \ Marked(r)
  /\ trashed' = trashed \cup Marked(r)
  /\ size_bytes' = [f \in Files |-> IF f \in Inserted(r) THEN Measured(r) ELSE size_bytes[f]]
  /\ failed' = failed \ Marked(r)
  /\ End(r)
  /\ UNCHANGED <<disk, sent>>

\* An upload or a deletion has touched the bytes and not committed.
Touched == {"write", "insert", "mark", "write_record", "commit"}

\* An await raises, the answer cannot be rendered, or the process dies: the
\* record's change is rolled back, the bytes stay as they are.
Fail(r) ==
  /\ pc[r] \notin {"idle", "sent", "not_found"}
  /\ failed' = IF pc[r] \in Touched THEN failed \cup {arg[r].file} ELSE failed
  /\ End(r)
  /\ UNCHANGED <<disk, db, sent>>

Next ==
  \E r \in Requests :
    \/ Upload(r) \/ Validate(r) \/ Sniff(r) \/ OpenFile(r) \/ WriteChunks(r) \/ InsertRecord(r)
    \/ Delete(r) \/ FindAndRemove(r) \/ FindRecord(r) \/ WriteRecord(r)
    \/ Download(r) \/ FindForDownload(r) \/ Send(r) \/ Answered(r)
    \/ Commit(r) \/ Fail(r)

Spec == Init /\ [][Next]_vars

(***************************************************************************)
(* What the component promises.                                            *)
(***************************************************************************)
\* An upload or a deletion that has touched the bytes is under way.
InFlight(f) == \E r \in Requests : arg[r].file = f /\ pc[r] \in Touched

\* The file is on disk, closed, with all the bytes the client sent and no more
\* than the limit allows.
AsSent(f) == f \in complete /\ stored[f] = sent[f] /\ sent[f] <= Limit

\* FileService.upload, delete: the two stores agree.  Outside an upload or a
\* deletion that is under way, or failed half-way, a file with a live record is
\* on disk as it was sent, although its body was read three times, the record
\* has its size, and a file without a live record is not on disk.
DiskMatchesRecords ==
  \A f \in Files :
    \/ InFlight(f) \/ f \in failed
    \/ f \in live /\ AsSent(f) /\ size_bytes[f] = stored[f]
    \/ f \notin live \cup complete \cup partial

\* A deletion that was committed took the bytes with it, however many
\* deletions of the file ran at once or failed before.
DeletedBytesAreGone == trashed \cap (complete \cup partial) = {}

\* get_download_path, FileResponse: whatever uploads and deletions run beside
\* it, a download delivers a file as it was sent, never one that is still being
\* written or was let through above the limit.
WholeFilesServed ==
  [][\A r \in Requests :
       pc[r] = "send" /\ pc'[r] = "sent" => AsSent(arg[r].file)]_vars
================================================================================
