---------------------------- MODULE FileStoreProofs ----------------------------
(***************************************************************************)
(* Proofs about FileStore, for any number of files and of requests in      *)
(* flight at once.                                                         *)
(***************************************************************************)
EXTENDS FileStore, TLAPS

\* An upload owns its file until the record is committed; whenever it is about
\* to read the body, all of it is left, and past the first check it is in bounds.
UploadOK(r) ==
  arg[r].op = "upload" =>
    /\ pc[r] \in {"validate", "sniff", "open", "write", "insert", "commit"}
    /\ arg[r].file \in Files \ (live \cup trashed)
    /\ \A q \in Requests \ {r} : arg[q].file # arg[r].file
    /\ pc[r] \in {"validate", "sniff", "open"} => arg[r].file \notin complete \cup partial
    /\ pc[r] = "write" => arg[r].file \notin complete
    /\ pc[r] \in {"insert", "commit"} => arg[r].file \in complete \ partial
    /\ pc[r] = "commit" => wrote[r]
    /\ unread[r] = arg[r].size
    /\ pc[r] # "validate" => arg[r].size <= Limit
    /\ pc[r] \in {"write", "insert", "commit"} => sent[arg[r].file] = arg[r].size

\* Once a deletion has found the record its bytes are gone for good, and when
\* it leaves the record alone another deletion has marked it.
DeleteOK(r) ==
  arg[r].op = "delete" =>
    /\ pc[r] \in {"find", "mark", "write_record", "commit"}
    /\ arg[r].file \in live \cup trashed
    /\ pc[r] # "find" => arg[r].file \notin complete \cup partial
    /\ pc[r] = "commit" /\ ~wrote[r] => arg[r].file \in trashed

DownloadOK(r) ==
  arg[r].op = "download" =>
    /\ pc[r] \in {"find", "send", "sent", "not_found"}
    /\ arg[r].file \in live \cup trashed

IdleOK(r) ==
  /\ arg[r].op = "none" <=> pc[r] = "idle"
  /\ arg[r].op = "none" => arg[r].file = NoFile
  /\ wrote[r] => pc[r] = "commit"

RequestOK(r) == UploadOK(r) /\ DeleteOK(r) /\ DownloadOK(r) /\ IdleOK(r)

\* No record stands for a file that is still being written.
RecordsWhole == (live \cup trashed) \cap partial = {}

\* A closed file has the bytes that were sent for it, and a record their number.
BytesOK ==
  /\ \A f \in complete : AsSent(f)
  /\ \A f \in live \cup trashed : size_bytes[f] = sent[f]

\* The inductive invariant.
IInv ==
  /\ TypeOK
  /\ RecordsWhole
  /\ BytesOK
  /\ DeletedBytesAreGone
  /\ DiskMatchesRecords
  /\ \A r \in Requests : RequestOK(r)

USE DEF Ops, Labels, Inputs, Touched

LEMMA InitIInv == Init => IInv
<1> SUFFICES ASSUME Init PROVE IInv
  OBVIOUS
<1>1. TypeOK
  BY DEF Init, TypeOK, NoInput
<1>2. RecordsWhole /\ BytesOK /\ DeletedBytesAreGone /\ DiskMatchesRecords
  BY DEF Init, RecordsWhole, BytesOK, DeletedBytesAreGone, DiskMatchesRecords
<1>3. \A r \in Requests : RequestOK(r)
  BY DEF Init, RequestOK, UploadOK, DeleteOK, DownloadOK, IdleOK, NoInput
<1>4. QED BY <1>1, <1>2, <1>3 DEF IInv

--------------------------------------------------------------------------------
(***************************************************************************)
(* What a step of one request leaves alone: the other requests, and every  *)
(* file but its own.                                                       *)
(***************************************************************************)
OnlyRequest(r) ==
  \A q \in Requests \ {r} :
    /\ pc'[q] = pc[q] /\ arg'[q] = arg[q]
    /\ unread'[q] = unread[q] /\ wrote'[q] = wrote[q]
    /\ arg[q].op = "upload" => arg'[r].file # arg[q].file

OnlyFile(r) ==
  /\ \A f \in Files \ {arg[r].file} :
       /\ f \in complete' <=> f \in complete
       /\ f \in partial' <=> f \in partial
       /\ f \in live' <=> f \in live
       /\ f \in trashed' <=> f \in trashed
       /\ f \in failed => f \in failed'
       /\ stored'[f] = stored[f] /\ size_bytes'[f] = size_bytes[f] /\ sent'[f] = sent[f]
  /\ live \cup trashed \subseteq live' \cup trashed'
  /\ trashed \subseteq trashed'
  /\ arg[r].op = "upload" \/ (complete' \subseteq complete /\ partial' \subseteq partial)

FileOK(f) ==
  /\ f \in live \cup trashed => f \notin partial
  /\ f \in trashed => f \notin complete
  /\ f \in complete => AsSent(f)
  /\ f \in live \cup trashed => size_bytes[f] = sent[f]
  /\ f \in live /\ ~InFlight(f) /\ f \notin failed => f \in complete
  /\ f \notin live /\ ~InFlight(f) /\ f \notin failed => f \notin complete \cup partial

\* The other requests stay consistent: an upload shares its file with nobody.
LEMMA OtherRequests ==
  ASSUME IInv, NEW r \in Requests, OnlyRequest(r), OnlyFile(r),
         NEW q \in Requests \ {r}
  PROVE  RequestOK(q)'
<1>1. RequestOK(q) /\ RequestOK(r) /\ TypeOK
  BY DEF IInv
<1>2. UploadOK(q)'
  <2> SUFFICES ASSUME arg[q].op = "upload" PROVE UploadOK(q)'
    BY DEF OnlyRequest, UploadOK
  <2>1. arg[q].file \in Files \ {arg[r].file}
    BY <1>1 DEF RequestOK, UploadOK
  <2>2. \A p \in Requests \ {q} : arg'[p].file # arg[q].file
    BY <1>1 DEF RequestOK, UploadOK, OnlyRequest
  <2>3. QED BY <1>1, <2>1, <2>2 DEF RequestOK, UploadOK, OnlyRequest, OnlyFile
<1>3. DeleteOK(q)'
  <2> SUFFICES ASSUME arg[q].op = "delete" PROVE DeleteOK(q)'
    BY DEF OnlyRequest, DeleteOK
  <2>1. CASE arg[q].file = arg[r].file
    <3>1. arg[r].op # "upload"
      BY <1>1, <2>1 DEF RequestOK, UploadOK
    <3>2. QED BY <1>1, <3>1 DEF RequestOK, DeleteOK, OnlyRequest, OnlyFile
  <2>2. CASE arg[q].file # arg[r].file
    <3>1. arg[q].file \in Files
      BY <1>1 DEF RequestOK, DeleteOK, TypeOK
    <3>2. QED BY <1>1, <2>2, <3>1 DEF RequestOK, DeleteOK, OnlyRequest, OnlyFile
  <2>3. QED BY <2>1, <2>2
<1>4. DownloadOK(q)' /\ IdleOK(q)'
  BY <1>1 DEF RequestOK, DownloadOK, IdleOK, OnlyRequest, OnlyFile
<1>5. QED BY <1>2, <1>3, <1>4 DEF RequestOK

\* So it is enough to look at the request that steps and at its own file.
LEMMA StepOK ==
  ASSUME IInv, NEW r \in Requests, OnlyRequest(r), OnlyFile(r),
         TypeOK', RequestOK(r)',
         \A f \in Files : f = arg[r].file => FileOK(f)'
  PROVE  IInv'
<1>1. \A q \in Requests : RequestOK(q)'
  BY OtherRequests
<1>2. \A f \in Files : FileOK(f)'
  <2> SUFFICES ASSUME NEW f \in Files \ {arg[r].file} PROVE FileOK(f)'
    OBVIOUS
  <2>1. FileOK(f)
    BY DEF IInv, RecordsWhole, BytesOK, AsSent, DeletedBytesAreGone, DiskMatchesRecords, FileOK
  <2>2. InFlight(f) => InFlight(f)'
    BY DEF InFlight, OnlyRequest
  <2>3. QED BY <2>1, <2>2 DEF FileOK, OnlyFile, AsSent
<1>3. RecordsWhole' /\ BytesOK' /\ DeletedBytesAreGone' /\ DiskMatchesRecords'
  BY <1>2 DEF FileOK, RecordsWhole, BytesOK, AsSent, DeletedBytesAreGone, DiskMatchesRecords, TypeOK
<1>4. QED BY <1>1, <1>3 DEF IInv

\* A request that ends lets go of its file.
LEMMA EndOK ==
  ASSUME IInv, NEW r \in Requests, End(r)
  PROVE  /\ OnlyRequest(r) /\ RequestOK(r)'
         /\ pc' \in [Requests -> Labels] /\ wrote' \in [Requests -> BOOLEAN]
         /\ arg' \in [Requests -> Inputs] /\ unread' \in [Requests -> Nat]
<1>1. TypeOK /\ \A q \in Requests : RequestOK(q)
  BY DEF IInv
<1>2. /\ pc' \in [Requests -> Labels] /\ wrote' \in [Requests -> BOOLEAN]
      /\ arg' \in [Requests -> Inputs] /\ unread' \in [Requests -> Nat]
  BY <1>1 DEF End, Goto, NoInput, TypeOK
<1>3. arg'[r] = NoInput /\ pc'[r] = "idle" /\ ~wrote'[r]
  BY <1>1 DEF End, Goto, TypeOK
<1>4. \A q \in Requests \ {r} :
        /\ pc'[q] = pc[q] /\ arg'[q] = arg[q]
        /\ unread'[q] = unread[q] /\ wrote'[q] = wrote[q]
  BY <1>1 DEF End, Goto, TypeOK
<1>5. \A q \in Requests : arg[q].op = "upload" => arg[q].file # NoFile
  BY <1>1, FileAssumption DEF RequestOK, UploadOK
<1>6. OnlyRequest(r)
  BY <1>3, <1>4, <1>5 DEF OnlyRequest, NoInput
<1>7. RequestOK(r)'
  BY <1>3 DEF RequestOK, UploadOK, DeleteOK, DownloadOK, IdleOK, NoInput
<1>8. QED BY <1>2, <1>6, <1>7

\* What the invariant says of one file, and that it stays when nothing of the
\* file changes.
LEMMA FileFacts ==
  ASSUME IInv, NEW f \in Files
  PROVE  FileOK(f)
  BY DEF IInv, RecordsWhole, BytesOK, AsSent, DeletedBytesAreGone, DiskMatchesRecords, FileOK

LEMMA SameFile ==
  ASSUME IInv, NEW f \in Files, UNCHANGED <<disk, db, sent>>,
         f \in failed' \/ (f \notin failed /\ (InFlight(f) => InFlight(f)'))
  PROVE  FileOK(f)'
<1>1. FileOK(f)
  BY FileFacts
<1>2. QED BY <1>1 DEF FileOK, AsSent, disk, db

\* A request that has touched no bytes and leaves.
LEMMA LeaveStep ==
  ASSUME IInv, NEW r \in Requests, Leave(r), pc[r] \notin Touched
  PROVE  IInv'
<1>1. TypeOK /\ OnlyRequest(r) /\ RequestOK(r)'
  BY EndOK DEF IInv, Leave
<1>2. OnlyFile(r)
  BY DEF OnlyFile, Leave, disk, db
<1>3. TypeOK'
  BY <1>1, EndOK DEF Leave, TypeOK, disk, db
<1>4. ASSUME NEW f \in Files PROVE FileOK(f)'
  <2>1. InFlight(f) => InFlight(f)'
    BY <1>1 DEF InFlight, OnlyRequest
  <2>2. QED BY <2>1, SameFile DEF Leave
<1>5. QED BY <1>1, <1>2, <1>3, <1>4, StepOK

LEMMA UploadStep ==
  ASSUME IInv, NEW r \in Requests, Upload(r)
  PROVE  IInv'
<1>1. TypeOK /\ RequestOK(r) /\ \A q \in Requests : RequestOK(q)
  BY DEF IInv
<1>2. OnlyRequest(r) /\ OnlyFile(r)
  BY <1>1 DEF Upload, Begin, Fresh, Goto, disk, db, OnlyRequest, OnlyFile, TypeOK, RequestOK, UploadOK, DeleteOK, DownloadOK, IdleOK
<1>3. TypeOK'
  BY <1>1, FileAssumption DEF Upload, Begin, Fresh, Goto, disk, db, TypeOK, RequestOK, UploadOK, DeleteOK, DownloadOK
<1>4. RequestOK(r)'
  BY <1>1, FileAssumption DEF Upload, Begin, Fresh, Goto, disk, db, TypeOK, RequestOK, UploadOK, DeleteOK, DownloadOK, IdleOK
<1>5. ASSUME NEW f \in Files, f = arg[r].file PROVE FileOK(f)'
  BY <1>1, <1>5 DEF Upload, Begin, Fresh, Goto, disk, db, IInv, TypeOK, RequestOK, UploadOK, DeleteOK, DownloadOK, IdleOK,
                    RecordsWhole, BytesOK, AsSent, DeletedBytesAreGone, DiskMatchesRecords, FileOK, InFlight
<1>6. QED BY <1>2, <1>3, <1>4, <1>5, StepOK

LEMMA ValidateStep ==
  ASSUME IInv, NEW r \in Requests, Validate(r)
  PROVE  IInv'
<1>1. TypeOK /\ RequestOK(r) /\ \A q \in Requests : RequestOK(q)
  BY DEF IInv
<1>2. CASE Leave(r)
  BY <1>2, LeaveStep DEF Validate
<1>3. CASE ~Leave(r)
  <2>1. OnlyRequest(r) /\ OnlyFile(r)
    BY <1>1, <1>3 DEF Validate, Goto, disk, db, OnlyRequest, OnlyFile, TypeOK, RequestOK, UploadOK, DeleteOK, DownloadOK, IdleOK
  <2>2. TypeOK'
    BY <1>1, <1>3 DEF Validate, Rewound, Goto, disk, db, TypeOK
  <2>3. RequestOK(r)'
    BY <1>1, <1>3, FileAssumption DEF Validate, Rewound, TooLarge, Goto, disk, db, TypeOK, RequestOK, UploadOK, DeleteOK, DownloadOK, IdleOK
  <2>4. ASSUME NEW f \in Files PROVE FileOK(f)'
    <3>1. InFlight(f) => InFlight(f)'
      BY <1>1, <1>3, <2>1 DEF Validate, InFlight, OnlyRequest
    <3>2. QED BY <1>3, <3>1, SameFile DEF Validate
  <2>5. QED BY <2>1, <2>2, <2>3, <2>4, StepOK
<1>4. QED BY <1>2, <1>3

LEMMA SniffStep ==
  ASSUME IInv, NEW r \in Requests, Sniff(r)
  PROVE  IInv'
<1>1. TypeOK /\ RequestOK(r) /\ \A q \in Requests : RequestOK(q)
  BY DEF IInv
<1>2. CASE Leave(r)
  BY <1>2, LeaveStep DEF Sniff
<1>3. CASE ~Leave(r)
  <2>1. OnlyRequest(r) /\ OnlyFile(r)
    BY <1>1, <1>3 DEF Sniff, Goto, disk, db, OnlyRequest, OnlyFile, TypeOK, RequestOK, UploadOK, DeleteOK, DownloadOK, IdleOK
  <2>2. TypeOK'
    BY <1>1, <1>3 DEF Sniff, Rewound, Goto, disk, db, TypeOK
  <2>3. RequestOK(r)'
    BY <1>1, <1>3 DEF Sniff, Rewound, Goto, disk, db, TypeOK, RequestOK, UploadOK, DeleteOK, DownloadOK, IdleOK
  <2>4. ASSUME NEW f \in Files PROVE FileOK(f)'
    <3>1. InFlight(f) => InFlight(f)'
      BY <1>1, <1>3, <2>1 DEF Sniff, InFlight, OnlyRequest
    <3>2. QED BY <1>3, <3>1, SameFile DEF Sniff
  <2>5. QED BY <2>1, <2>2, <2>3, <2>4, StepOK
<1>4. QED BY <1>2, <1>3

LEMMA OpenFileStep ==
  ASSUME IInv, NEW r \in Requests, OpenFile(r)
  PROVE  IInv'
<1>1. TypeOK /\ RequestOK(r) /\ \A q \in Requests : RequestOK(q)
  BY DEF IInv
<1>2. OnlyRequest(r) /\ OnlyFile(r)
  BY <1>1 DEF OpenFile, Goto, db, OnlyRequest, OnlyFile, TypeOK, RequestOK, UploadOK, DeleteOK, DownloadOK, IdleOK
<1>3. TypeOK'
  BY <1>1, FileAssumption DEF OpenFile, Goto, db, TypeOK, RequestOK, UploadOK, DeleteOK, DownloadOK, IdleOK
<1>4. RequestOK(r)'
  BY <1>1, FileAssumption DEF OpenFile, Goto, db, TypeOK, RequestOK, UploadOK, DeleteOK, DownloadOK, IdleOK
<1>5. ASSUME NEW f \in Files, f = arg[r].file PROVE FileOK(f)'
  BY <1>1, <1>5 DEF OpenFile, Goto, db, IInv, TypeOK, RequestOK, UploadOK, DeleteOK, DownloadOK, IdleOK,
                    RecordsWhole, BytesOK, AsSent, DeletedBytesAreGone, DiskMatchesRecords, FileOK, InFlight
<1>6. QED BY <1>2, <1>3, <1>4, <1>5, StepOK

LEMMA WriteChunksStep ==
  ASSUME IInv, NEW r \in Requests, WriteChunks(r)
  PROVE  IInv'
<1>1. TypeOK /\ RequestOK(r) /\ \A q \in Requests : RequestOK(q)
  BY DEF IInv
<1>2. OnlyRequest(r) /\ OnlyFile(r)
  BY <1>1 DEF WriteChunks, Goto, db, OnlyRequest, OnlyFile, TypeOK, RequestOK, UploadOK, DeleteOK, DownloadOK, IdleOK
<1>3. TypeOK'
  BY <1>1, FileAssumption DEF WriteChunks, Goto, db, TypeOK, RequestOK, UploadOK, DeleteOK, DownloadOK, IdleOK
<1>4. RequestOK(r)'
  BY <1>1, FileAssumption DEF WriteChunks, Goto, db, TypeOK, RequestOK, UploadOK, DeleteOK, DownloadOK, IdleOK
<1>5. ASSUME NEW f \in Files, f = arg[r].file PROVE FileOK(f)'
  BY <1>1, <1>5 DEF WriteChunks, Goto, db, IInv, TypeOK, RequestOK, UploadOK, DeleteOK, DownloadOK, IdleOK,
                    RecordsWhole, BytesOK, AsSent, DeletedBytesAreGone, DiskMatchesRecords, FileOK, InFlight
<1>6. QED BY <1>2, <1>3, <1>4, <1>5, StepOK

LEMMA InsertRecordStep ==
  ASSUME IInv, NEW r \in Requests, InsertRecord(r)
  PROVE  IInv'
<1>1. TypeOK /\ RequestOK(r) /\ \A q \in Requests : RequestOK(q)
  BY DEF IInv
<1>2. OnlyRequest(r) /\ OnlyFile(r)
  BY <1>1 DEF InsertRecord, Goto, disk, db, OnlyRequest, OnlyFile, TypeOK, RequestOK, UploadOK, DeleteOK, DownloadOK, IdleOK
<1>3. TypeOK'
  BY <1>1, FileAssumption DEF InsertRecord, Goto, disk, db, TypeOK, RequestOK, UploadOK, DeleteOK, DownloadOK
<1>4. RequestOK(r)'
  BY <1>1, FileAssumption DEF InsertRecord, Goto, disk, db, TypeOK, RequestOK, UploadOK, DeleteOK, DownloadOK, IdleOK
<1>5. ASSUME NEW f \in Files, f = arg[r].file PROVE FileOK(f)'
  BY <1>1, <1>5 DEF InsertRecord, Goto, disk, db, IInv, TypeOK, RequestOK, UploadOK, DeleteOK, DownloadOK, IdleOK,
                    RecordsWhole, BytesOK, AsSent, DeletedBytesAreGone, DiskMatchesRecords, FileOK, InFlight
<1>6. QED BY <1>2, <1>3, <1>4, <1>5, StepOK

LEMMA DeleteStep ==
  ASSUME IInv, NEW r \in Requests, Delete(r)
  PROVE  IInv'
<1>1. TypeOK /\ RequestOK(r) /\ \A q \in Requests : RequestOK(q)
  BY DEF IInv
<1>2. OnlyRequest(r) /\ OnlyFile(r)
  BY <1>1 DEF Delete, Begin, Goto, disk, db, OnlyRequest, OnlyFile, TypeOK, RequestOK, UploadOK, DeleteOK, DownloadOK, IdleOK
<1>3. TypeOK'
  BY <1>1, FileAssumption DEF Delete, Begin, Goto, disk, db, TypeOK, RequestOK, UploadOK, DeleteOK, DownloadOK
<1>4. RequestOK(r)'
  BY <1>1, FileAssumption DEF Delete, Begin, Goto, disk, db, TypeOK, RequestOK, UploadOK, DeleteOK, DownloadOK, IdleOK
<1>5. ASSUME NEW f \in Files, f = arg[r].file PROVE FileOK(f)'
  BY <1>1, <1>5 DEF Delete, Begin, Goto, disk, db, IInv, TypeOK, RequestOK, UploadOK, DeleteOK, DownloadOK, IdleOK,
                    RecordsWhole, BytesOK, AsSent, DeletedBytesAreGone, DiskMatchesRecords, FileOK, InFlight
<1>6. QED BY <1>2, <1>3, <1>4, <1>5, StepOK

LEMMA FindAndRemoveStep ==
  ASSUME IInv, NEW r \in Requests, FindAndRemove(r)
  PROVE  IInv'
<1>1. TypeOK /\ RequestOK(r) /\ \A q \in Requests : RequestOK(q)
  BY DEF IInv
<1>2. CASE arg[r].file \in live
  <2>1. OnlyRequest(r) /\ OnlyFile(r)
    BY <1>1, <1>2 DEF FindAndRemove, RemoveBytes, Goto, disk, db, OnlyRequest, OnlyFile,
                      TypeOK, RequestOK, UploadOK
  <2>2. TypeOK'
    BY <1>1, <1>2 DEF FindAndRemove, RemoveBytes, Goto, disk, db, TypeOK
  <2>3. RequestOK(r)'
    BY <1>1, <1>2 DEF FindAndRemove, RemoveBytes, Goto, disk, db, TypeOK,
                      RequestOK, UploadOK, DeleteOK, DownloadOK, IdleOK
  <2>4. ASSUME NEW f \in Files, f = arg[r].file PROVE FileOK(f)'
    <3>1. FileOK(f) /\ InFlight(f)'
      BY <1>1, <1>2, <2>4, FileFacts DEF FindAndRemove, Goto, TypeOK, InFlight
    <3>2. QED
      BY <1>1, <1>2, <2>4, <3>1 DEF FindAndRemove, RemoveBytes, disk, db, TypeOK, FileOK
  <2>5. QED BY <2>1, <2>2, <2>3, <2>4, StepOK
<1>3. CASE arg[r].file \notin live
  BY <1>3, LeaveStep DEF FindAndRemove
<1>4. QED BY <1>2, <1>3

LEMMA FindRecordStep ==
  ASSUME IInv, NEW r \in Requests, FindRecord(r)
  PROVE  IInv'
<1>1. TypeOK /\ RequestOK(r) /\ \A q \in Requests : RequestOK(q)
  BY DEF IInv
<1>2. OnlyRequest(r) /\ OnlyFile(r)
  BY <1>1 DEF FindRecord, Goto, disk, db, OnlyRequest, OnlyFile, TypeOK, RequestOK, UploadOK, DeleteOK, DownloadOK, IdleOK
<1>3. TypeOK'
  BY <1>1, FileAssumption DEF FindRecord, Goto, disk, db, TypeOK, RequestOK, UploadOK, DeleteOK, DownloadOK
<1>4. RequestOK(r)'
  BY <1>1, FileAssumption DEF FindRecord, Goto, disk, db, TypeOK, RequestOK, UploadOK, DeleteOK, DownloadOK, IdleOK
<1>5. ASSUME NEW f \in Files, f = arg[r].file PROVE FileOK(f)'
  BY <1>1, <1>5 DEF FindRecord, Goto, disk, db, IInv, TypeOK, RequestOK, UploadOK, DeleteOK, DownloadOK, IdleOK,
                    RecordsWhole, BytesOK, AsSent, DeletedBytesAreGone, DiskMatchesRecords, FileOK, InFlight
<1>6. QED BY <1>2, <1>3, <1>4, <1>5, StepOK

LEMMA WriteRecordStep ==
  ASSUME IInv, NEW r \in Requests, WriteRecord(r)
  PROVE  IInv'
<1>1. TypeOK /\ RequestOK(r) /\ \A q \in Requests : RequestOK(q)
  BY DEF IInv
<1>2. OnlyRequest(r) /\ OnlyFile(r)
  BY <1>1 DEF WriteRecord, Goto, disk, db, OnlyRequest, OnlyFile, TypeOK, RequestOK, UploadOK, DeleteOK, DownloadOK, IdleOK
<1>3. TypeOK'
  BY <1>1, FileAssumption DEF WriteRecord, Goto, disk, db, TypeOK, RequestOK, UploadOK, DeleteOK, DownloadOK
<1>4. RequestOK(r)'
  BY <1>1, FileAssumption DEF WriteRecord, Goto, disk, db, TypeOK, RequestOK, UploadOK, DeleteOK, DownloadOK, IdleOK
<1>5. ASSUME NEW f \in Files, f = arg[r].file PROVE FileOK(f)'
  BY <1>1, <1>5 DEF WriteRecord, Goto, disk, db, IInv, TypeOK, RequestOK, UploadOK, DeleteOK, DownloadOK, IdleOK,
                    RecordsWhole, BytesOK, AsSent, DeletedBytesAreGone, DiskMatchesRecords, FileOK, InFlight
<1>6. QED BY <1>2, <1>3, <1>4, <1>5, StepOK

LEMMA DownloadStep ==
  ASSUME IInv, NEW r \in Requests, Download(r)
  PROVE  IInv'
<1>1. TypeOK /\ RequestOK(r) /\ \A q \in Requests : RequestOK(q)
  BY DEF IInv
<1>2. OnlyRequest(r) /\ OnlyFile(r)
  BY <1>1 DEF Download, Begin, Goto, disk, db, OnlyRequest, OnlyFile, TypeOK, RequestOK, UploadOK, DeleteOK, DownloadOK, IdleOK
<1>3. TypeOK'
  BY <1>1, FileAssumption DEF Download, Begin, Goto, disk, db, TypeOK, RequestOK, UploadOK, DeleteOK, DownloadOK
<1>4. RequestOK(r)'
  BY <1>1, FileAssumption DEF Download, Begin, Goto, disk, db, TypeOK, RequestOK, UploadOK, DeleteOK, DownloadOK, IdleOK
<1>5. ASSUME NEW f \in Files, f = arg[r].file PROVE FileOK(f)'
  BY <1>1, <1>5 DEF Download, Begin, Goto, disk, db, IInv, TypeOK, RequestOK, UploadOK, DeleteOK, DownloadOK, IdleOK,
                    RecordsWhole, BytesOK, AsSent, DeletedBytesAreGone, DiskMatchesRecords, FileOK, InFlight
<1>6. QED BY <1>2, <1>3, <1>4, <1>5, StepOK

LEMMA FindForDownloadStep ==
  ASSUME IInv, NEW r \in Requests, FindForDownload(r)
  PROVE  IInv'
<1>1. TypeOK /\ RequestOK(r) /\ \A q \in Requests : RequestOK(q)
  BY DEF IInv
<1>2. OnlyRequest(r) /\ OnlyFile(r)
  BY <1>1 DEF FindForDownload, Goto, disk, db, OnlyRequest, OnlyFile, TypeOK, RequestOK, UploadOK, DeleteOK, DownloadOK, IdleOK
<1>3. TypeOK'
  BY <1>1, FileAssumption DEF FindForDownload, Goto, disk, db, TypeOK, RequestOK, UploadOK, DeleteOK, DownloadOK
<1>4. RequestOK(r)'
  BY <1>1, FileAssumption DEF FindForDownload, Goto, disk, db, TypeOK, RequestOK, UploadOK, DeleteOK, DownloadOK, IdleOK
<1>5. ASSUME NEW f \in Files, f = arg[r].file PROVE FileOK(f)'
  BY <1>1, <1>5 DEF FindForDownload, Goto, disk, db, IInv, TypeOK, RequestOK, UploadOK, DeleteOK, DownloadOK, IdleOK,
                    RecordsWhole, BytesOK, AsSent, DeletedBytesAreGone, DiskMatchesRecords, FileOK, InFlight
<1>6. QED BY <1>2, <1>3, <1>4, <1>5, StepOK

LEMMA SendStep ==
  ASSUME IInv, NEW r \in Requests, Send(r)
  PROVE  IInv'
<1>1. TypeOK /\ RequestOK(r) /\ \A q \in Requests : RequestOK(q)
  BY DEF IInv
<1>2. OnlyRequest(r) /\ OnlyFile(r)
  BY <1>1 DEF Send, Goto, disk, db, OnlyRequest, OnlyFile, TypeOK, RequestOK, UploadOK, DeleteOK, DownloadOK, IdleOK
<1>3. TypeOK'
  BY <1>1, FileAssumption DEF Send, Goto, disk, db, TypeOK, RequestOK, UploadOK, DeleteOK, DownloadOK
<1>4. RequestOK(r)'
  BY <1>1, FileAssumption DEF Send, Goto, disk, db, TypeOK, RequestOK, UploadOK, DeleteOK, DownloadOK, IdleOK
<1>5. ASSUME NEW f \in Files, f = arg[r].file PROVE FileOK(f)'
  BY <1>1, <1>5 DEF Send, Goto, disk, db, IInv, TypeOK, RequestOK, UploadOK, DeleteOK, DownloadOK, IdleOK,
                    RecordsWhole, BytesOK, AsSent, DeletedBytesAreGone, DiskMatchesRecords, FileOK, InFlight
<1>6. QED BY <1>2, <1>3, <1>4, <1>5, StepOK

LEMMA AnsweredStep ==
  ASSUME IInv, NEW r \in Requests, Answered(r)
  PROVE  IInv'
  BY LeaveStep DEF Answered

LEMMA CommitStep ==
  ASSUME IInv, NEW r \in Requests, Commit(r)
  PROVE  IInv'
<1>1. TypeOK /\ RequestOK(r) /\ OnlyRequest(r) /\ RequestOK(r)'
  BY EndOK DEF IInv, Commit
<1>2. arg[r].file \in Files
  BY <1>1 DEF Commit, TypeOK, RequestOK, UploadOK, DeleteOK, DownloadOK, IdleOK
<1>3. OnlyFile(r)
  BY <1>1 DEF OnlyFile, Commit, Inserted, Marked, disk, TypeOK
<1>4. TypeOK'
  <2>1. /\ live' \subseteq Files /\ trashed' \subseteq Files /\ failed' \subseteq Files
        /\ live' \cap trashed' = {}
    BY <1>1, <1>2 DEF Commit, Inserted, Marked, TypeOK, RequestOK, UploadOK, DeleteOK
  <2>2. size_bytes' \in [Files -> Nat]
    BY <1>1 DEF Commit, Measured, TypeOK
  <2>3. QED BY <1>1, <2>1, <2>2, EndOK DEF Commit, TypeOK, disk
<1>5. ASSUME NEW f \in Files, f = arg[r].file PROVE FileOK(f)'
  <2>1. FileOK(f)
    BY FileFacts
  <2>2. CASE arg[r].op = "upload"
    BY <1>1, <1>5, <2>1, <2>2 DEF Commit, Inserted, Marked, Measured, disk, FileOK, AsSent,
      TypeOK, RequestOK, UploadOK
  <2>3. CASE arg[r].op = "delete"
    BY <1>1, <1>5, <2>1, <2>3 DEF Commit, Inserted, Marked, disk, FileOK, AsSent,
      TypeOK, RequestOK, DeleteOK
  <2>4. QED BY <1>1, <2>2, <2>3 DEF Commit, TypeOK, RequestOK, DownloadOK, IdleOK
<1>6. QED BY <1>1, <1>3, <1>4, <1>5, StepOK

LEMMA FailStep ==
  ASSUME IInv, NEW r \in Requests, Fail(r)
  PROVE  IInv'
<1>1. TypeOK /\ RequestOK(r) /\ OnlyRequest(r) /\ RequestOK(r)'
  BY EndOK DEF IInv, Fail
<1>2. CASE pc[r] \notin Touched
  BY <1>2, LeaveStep DEF Fail, Leave
<1>3. CASE pc[r] \in Touched
  <2>1. OnlyFile(r)
    BY DEF OnlyFile, Fail, disk, db
  <2>2. arg[r].file \in Files
    BY <1>1, <1>3 DEF TypeOK, RequestOK, UploadOK, DeleteOK, DownloadOK, IdleOK
  <2>3. TypeOK'
    BY <1>1, <2>2, EndOK DEF Fail, TypeOK, disk, db
  <2>4. ASSUME NEW f \in Files, f = arg[r].file PROVE FileOK(f)'
    BY <1>3, <2>4, SameFile DEF Fail
  <2>5. QED BY <1>1, <2>1, <2>3, <2>4, StepOK
<1>4. QED BY <1>2, <1>3

LEMMA NextIInv == IInv /\ [Next]_vars => IInv'
<1> SUFFICES ASSUME IInv, [Next]_vars PROVE IInv'
  OBVIOUS
<1>1. CASE Next
  BY <1>1, UploadStep, ValidateStep, SniffStep, OpenFileStep, WriteChunksStep, InsertRecordStep, DeleteStep,
     FindAndRemoveStep, FindRecordStep, WriteRecordStep, DownloadStep,
     FindForDownloadStep, SendStep, AnsweredStep, CommitStep, FailStep DEF Next
<1>2. CASE UNCHANGED vars
  BY <1>2 DEF vars, IInv, TypeOK, RecordsWhole, BytesOK, AsSent, DeletedBytesAreGone,
              DiskMatchesRecords, InFlight, RequestOK, UploadOK, DeleteOK, DownloadOK, IdleOK
<1>3. QED BY <1>1, <1>2

LEMMA Invariance == Spec => []IInv
  BY InitIInv, NextIInv, PTL DEF Spec

--------------------------------------------------------------------------------
\* The variables keep their types: no file is whole and partial, no record live
\* and deleted at once.
THEOREM TypeCorrect == Spec => []TypeOK
<1>1. IInv => TypeOK
  BY DEF IInv
<1>2. QED BY <1>1, Invariance, PTL

\* FileService.upload and delete keep the two stores in agreement: outside an
\* upload or deletion that is under way or failed half-way, a file is on disk
\* exactly when its record is live.
THEOREM StoresAgree == Spec => []DiskMatchesRecords
<1>1. IInv => DiskMatchesRecords
  BY DEF IInv
<1>2. QED BY <1>1, Invariance, PTL

\* FileService.delete: a committed deletion has taken the bytes with it.
THEOREM DeletionComplete == Spec => []DeletedBytesAreGone
<1>1. IInv => DeletedBytesAreGone
  BY DEF IInv
<1>2. QED BY <1>1, Invariance, PTL

\* get_download_path goes by the record alone: a record appears only when the
\* file is whole, so a download delivers what was sent, within the limit.
THEOREM WholeFiles == Spec => WholeFilesServed
<1>1. ASSUME IInv, Next PROVE \A r \in Requests :
        pc[r] = "send" /\ pc'[r] = "sent" => AsSent(arg[r].file)
  <2> SUFFICES ASSUME NEW r \in Requests, pc[r] = "send", pc'[r] = "sent"
               PROVE  AsSent(arg[r].file)
    OBVIOUS
  <2>1. TypeOK /\ RequestOK(r) /\ RecordsWhole /\ BytesOK
    BY <1>1 DEF IInv
  <2>2. PICK s \in Requests :
          \/ Upload(s) \/ Validate(s) \/ Sniff(s) \/ OpenFile(s) \/ WriteChunks(s)
          \/ InsertRecord(s) \/ Delete(s) \/ FindAndRemove(s) \/ FindRecord(s)
          \/ WriteRecord(s) \/ Download(s) \/ FindForDownload(s) \/ Send(s)
          \/ Answered(s) \/ Commit(s) \/ Fail(s)
    BY <1>1 DEF Next
  <2>3. Send(s) /\ s = r
    BY <2>1, <2>2 DEF TypeOK, Upload, Delete, Download, Begin, Validate, Sniff, OpenFile,
      WriteChunks, InsertRecord, FindAndRemove, FindRecord, WriteRecord, FindForDownload,
      Send, Answered, Commit, Fail, Leave, End, Goto
  <2>4. arg[r].file \in live \cup trashed
    BY <2>1 DEF TypeOK, RequestOK, UploadOK, DeleteOK, DownloadOK, IdleOK
  <2>5. arg[r].file \in complete
    BY <2>1, <2>3, <2>4 DEF Send, Goto, RecordsWhole, TypeOK
  <2>6. QED BY <2>1, <2>5 DEF BytesOK
<1>2. IInv /\ [Next]_vars => [\A r \in Requests :
        pc[r] = "send" /\ pc'[r] = "sent" => AsSent(arg[r].file)]_vars
  BY <1>1
<1>3. QED BY <1>2, Invariance, PTL DEF Spec, WholeFilesServed
================================================================================
