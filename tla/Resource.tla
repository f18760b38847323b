------------------------------ MODULE Resource ------------------------------
(***************************************************************************)
(* resource.Upload (src/unnamed/part_002, 19-78): concurrent uploads of   *)
(* multipart files into conf.ResourceRoot/<id>/<filename>.                 *)
(*                                                                         *)
(* Upload creates the directory when IsDirExists says it is missing,       *)
(* opens the part and seeks to its end for its size, rejects a file over   *)
(* conf.UploadLimit and a disk with less than size+reserve free, seeks    *)
(* back, opens the target with O_RDWR|O_CREATE (no O_TRUNC) and copies    *)
(* the part into it from offset 0.  A request is a step for the checks   *)
(* up to OpenFile, then one step per write of io.Copy (a byte here: the   *)
(* part reader hands over what it has, so a write may be that small), and *)
(* a step for io.Copy's return, which may be an error after any prefix.   *)
(* Two requests for one path, each with its own descriptor and offset,    *)
(* interleave their writes as two HTTP handlers do.                        *)
(*                                                                         *)
(* UnTar (80-132) extracts a tar archive into a resource directory while *)
(* uploads go on: it creates dst when missing, then reads one header per  *)
(* step.  A directory entry is made with MkdirAll unless IsDirExists says *)
(* it is there; a regular entry is opened O_CREATE|O_RDWR (no O_TRUNC) and *)
(* the entry copied from the stream write by write, as in Upload.         *)
(* Entry names are single components under dst.                           *)
(*                                                                         *)
(* The contents of a file are a sequence of bytes from a small alphabet;  *)
(* the free space of the disk is abstracted to the outcome of the check.  *)
(***************************************************************************)
EXTENDS Naturals, Sequences, SequencesExt, FiniteSets

CONSTANTS
    Reqs,           \* concurrent Upload calls
    Ids,            \* resource ids (the directory under ResourceRoot)
    Names,          \* multipart file names
    Bytes,          \* byte values
    MaxLen,         \* bound on the length of a file
    UploadLimit,    \* conf.UploadLimit, in bytes
    NoReq,          \* no request has written the path
    Extractor,      \* the UnTar call, as a writer of paths
    ArchiveData,    \* the contents of regular archive entries
    MaxEntries      \* bound on the entries of the archive

Data == UNION {[1..n -> Bytes] : n \in 0..MaxLen}
Paths == Ids \X Names
Entries == [name : Names, type : {"reg"}, data : ArchiveData]
           \cup [name : Names, type : {"dir", "other"}, data : {<<>>}]
Archives == UNION {[1..n -> Entries] : n \in 0..MaxEntries}

VARIABLES
    dirs,       \* the resource directories that exist
    files,      \* path -> contents, for the files that exist
    subdirs,    \* the paths under a resource directory that are directories
    req,        \* per request: pc, path, data, off, err, admitted
    untar,      \* the UnTar call: pc, dst, archive, pos, off, err, written
    lastWriter, \* history: path -> the writer of its last write
    mixed       \* history: paths an upload wrote after UnTar opened them

vars == <<dirs, files, subdirs, req, untar, lastWriter, mixed>>

Request == [pc : {"idle", "copy", "done"}, path : Paths, data : Data,
            off : 0..MaxLen, err : {"nil", "err"}, admitted : BOOLEAN]

TypeOK ==
    /\ dirs \subseteq Ids
    /\ DOMAIN files \subseteq dirs \X Names /\ \A p \in DOMAIN files : files[p] \in Data
    /\ subdirs \subseteq dirs \X Names /\ subdirs \cap DOMAIN files = {}
    /\ req \in [Reqs -> Request]
    /\ untar \in [pc : {"idle", "next", "copy", "done"}, dst : Ids, archive : Archives,
                  pos : 1..MaxEntries + 1, off : 0..MaxLen, err : {"nil", "err"},
                  written : SUBSET Paths]
    /\ lastWriter \in [Paths -> Reqs \cup {NoReq, Extractor}]
    /\ mixed \subseteq Paths

(* Files left by earlier uploads, in directories that exist, and an       *)
(* archive to extract into one of them.                                    *)
Init ==
    /\ dirs \in SUBSET Ids
    /\ files \in UNION {[P -> Data] : P \in SUBSET (dirs \X Names)}
    /\ subdirs = {}
    /\ req \in [Reqs -> [pc : {"idle"}, path : Paths, data : Data, off : {0},
                         err : {"nil"}, admitted : {FALSE}]]
    /\ untar \in [pc : {"idle"}, dst : Ids, archive : Archives, pos : {1}, off : {0},
                  err : {"nil"}, written : {{}}]
    /\ lastWriter = [p \in Paths |-> NoReq]
    /\ mixed = {}

(* Upload returns with err.                                                 *)
Return(r, err, admitted) ==
    req' = [req EXCEPT ![r].pc = "done", ![r].err = err, ![r].admitted = admitted]

(* Upload up to OpenFile.  A missing directory is created (MkdirAll may  *)
(* fail); f.Open and the two Seeks may fail, and so may disk.Usage, which *)
(* then returns a nil stat.  The size and free-space checks return        *)
(* errors.Wrap(err, ...) with the err of the step before, which is nil.    *)
UploadCheck(r) ==
    LET p == req[r].path
        size == Len(req[r].data)
    IN
    /\ req[r].pc = "idle"
    /\ \/ /\ p[1] \notin dirs                     \* MkdirAll fails
          /\ Return(r, "err", FALSE) /\ UNCHANGED <<dirs, files>>
       \/ /\ dirs' = dirs \cup {p[1]}
          /\ \/ /\ Return(r, "err", FALSE)        \* Open, Seek or disk.Usage fails
                /\ UNCHANGED files
             \/ /\ size > UploadLimit             \* filesize over limit
                /\ Return(r, "nil", FALSE) /\ UNCHANGED files
             \/ /\ size <= UploadLimit            \* disk limited
                /\ Return(r, "nil", FALSE) /\ UNCHANGED files
             \/ /\ size <= UploadLimit            \* OpenFile fails
                /\ Return(r, "err", TRUE) /\ UNCHANGED files
             \/ /\ size <= UploadLimit /\ p \notin subdirs  \* OpenFile creates or opens
                /\ files' = IF p \in DOMAIN files THEN files ELSE files @@ (p :> <<>>)
                /\ req' = [req EXCEPT ![r].pc = "copy", ![r].admitted = TRUE]
    /\ UNCHANGED <<subdirs, untar, lastWriter, mixed>>

(* Mutant of WriteAt: the byte appended, as an O_APPEND open would.      *)
WriteAtAppend(old, i, b) == Append(old, b)

(* One write through a descriptor opened without O_TRUNC, at its offset  *)
(* i: the byte at i is replaced, or appended at the end; the bytes past   *)
(* it stay.                                                                *)
WriteAt(old, i, b) == IF i <= Len(old) THEN [old EXCEPT ![i] = b] ELSE Append(old, b)

(* What Upload returns after io.Copy wrote k of the part's bytes.         *)
CopyErr(k, data) == IF k = Len(data) THEN "nil" ELSE "err"

(* One write of io.Copy(fw, fr): the next byte of the part at the        *)
(* descriptor's offset.                                                    *)
UploadWrite(r) ==
    LET p == req[r].path
        i == req[r].off + 1
    IN
    /\ req[r].pc = "copy" /\ i <= Len(req[r].data)
    /\ files' = [files EXCEPT ![p] = WriteAt(@, i, req[r].data[i])]
    /\ req' = [req EXCEPT ![r].off = i]
    /\ lastWriter' = [lastWriter EXCEPT ![p] = r]
    /\ mixed' = IF p \in untar.written THEN mixed \cup {p} ELSE mixed
    /\ UNCHANGED <<dirs, subdirs, untar>>

(* io.Copy returns: nil once the part is written, or an error after the   *)
(* writes so far; Upload returns it.                                       *)
UploadCopyEnd(r) ==
    /\ req[r].pc = "copy"
    /\ \/ req[r].off = Len(req[r].data)
       \/ req[r].off < Len(req[r].data)                \* a read or write fails
    /\ req' = [req EXCEPT ![r].pc = "done", ![r].err = CopyErr(req[r].off, req[r].data)]
    /\ UNCHANGED <<dirs, files, subdirs, untar, lastWriter, mixed>>

(* UnTar returns err.                                                       *)
UnTarReturn(err) == untar' = [untar EXCEPT !.pc = "done", !.err = err]

(* UnTar up to the loop: MkdirAll(dst) when it is missing, then os.Open of *)
(* the archive; either may fail.                                           *)
UnTarOpen ==
    /\ untar.pc = "idle"
    /\ \/ /\ untar.dst \notin dirs /\ UnTarReturn("err") /\ UNCHANGED dirs
       \/ /\ dirs' = dirs \cup {untar.dst}
          /\ \/ UnTarReturn("err")
             \/ untar' = [untar EXCEPT !.pc = "next"]
    /\ UNCHANGED <<files, subdirs, req, lastWriter, mixed>>

(* Mutant of NextErr: every error of tr.Next taken for io.EOF.             *)
NextErrAsEOF(err) == "nil"

(* What UnTar returns when tr.Next fails: nil at io.EOF, err otherwise.   *)
NextErr(err) == IF err = "eof" THEN "nil" ELSE "err"

(* One iteration of UnTar's loop.  tr.Next reports io.EOF after the last  *)
(* entry and may fail on a corrupt stream; a directory entry that is not  *)
(* a directory yet is made with MkdirAll, which fails on a file of that    *)
(* name; a regular entry is opened (created when missing), which fails   *)
(* on a directory, and its copy begins; other entries are skipped.        *)
UnTarStep ==
    LET a == untar.archive
        e == a[untar.pos]
        p == <<untar.dst, e.name>>
        advance == untar' = [untar EXCEPT !.pos = @ + 1]
    IN
    /\ untar.pc = "next"
    /\ \/ /\ untar.pos > Len(a) /\ UnTarReturn(NextErr("eof"))
          /\ UNCHANGED <<files, subdirs, lastWriter>>
       \/ /\ untar.pos <= Len(a) /\ UnTarReturn(NextErr("corrupt"))
          /\ UNCHANGED <<files, subdirs, lastWriter>>
       \/ /\ untar.pos <= Len(a) /\ e.type = "other" /\ advance
          /\ UNCHANGED <<files, subdirs, lastWriter>>
       \/ /\ untar.pos <= Len(a) /\ e.type = "dir"
          /\ \/ /\ p \in subdirs /\ advance /\ UNCHANGED subdirs
             \/ /\ p \notin subdirs /\ UnTarReturn("err") /\ UNCHANGED subdirs
             \/ /\ p \notin subdirs \cup DOMAIN files
                /\ subdirs' = subdirs \cup {p} /\ advance
          /\ UNCHANGED <<files, lastWriter>>
       \/ /\ untar.pos <= Len(a) /\ e.type = "reg"
          /\ \/ /\ UnTarReturn("err") /\ UNCHANGED files
             \/ /\ p \notin subdirs
                /\ files' = IF p \in DOMAIN files THEN files ELSE files @@ (p :> <<>>)
                /\ untar' = [untar EXCEPT !.pc = "copy", !.off = 0, !.written = @ \cup {p}]
          /\ UNCHANGED <<subdirs, lastWriter>>
    /\ UNCHANGED <<dirs, req, mixed>>

(* One write of io.Copy(f, tr) for the current regular entry.             *)
UnTarWrite ==
    LET e == untar.archive[untar.pos]
        p == <<untar.dst, e.name>>
        i == untar.off + 1
    IN
    /\ untar.pc = "copy" /\ i <= Len(e.data)
    /\ files' = [files EXCEPT ![p] = WriteAt(@, i, e.data[i])]
    /\ untar' = [untar EXCEPT !.off = i]
    /\ lastWriter' = [lastWriter EXCEPT ![p] = Extractor]
    /\ UNCHANGED <<dirs, subdirs, req, mixed>>

(* io.Copy of the entry returns: nil, and the loop goes on, or an error,  *)
(* which UnTar returns.                                                    *)
UnTarCopyEnd ==
    LET e == untar.archive[untar.pos] IN
    /\ untar.pc = "copy"
    /\ \/ /\ untar.off = Len(e.data)
          /\ untar' = [untar EXCEPT !.pc = "next", !.pos = @ + 1]
       \/ /\ untar.off < Len(e.data)
          /\ UnTarReturn(CopyErr(untar.off, e.data))
    /\ UNCHANGED <<dirs, files, subdirs, req, lastWriter, mixed>>

Next ==
    \/ \E r \in Reqs : UploadCheck(r) \/ UploadWrite(r) \/ UploadCopyEnd(r)
    \/ UnTarOpen \/ UnTarStep \/ UnTarWrite \/ UnTarCopyEnd

Spec == Init /\ [][Next]_vars

-----------------------------------------------------------------------------
(* Request r's Upload returned nil after its io.Copy, and no request has  *)
(* written its path since.                                                  *)
LastSuccessfulWrite(r) ==
    /\ req[r].pc = "done" /\ req[r].err = "nil" /\ req[r].admitted
    /\ lastWriter[req[r].path] = r

(* Whatever uploads of the same file interleave with it, the last Upload  *)
(* to write a path and return nil has its whole part at the start of the  *)
(* file.  Two copies into one file interleave write by write, so an       *)
(* earlier byte of the last writer's part may have been overwritten by    *)
(* the other request.                                                      *)
UploadedDataIsPrefix ==
    \A r \in Reqs :
        LastSuccessfulWrite(r) => IsPrefix(req[r].data, files[req[r].path])

(* When UnTar returns nil it has extracted the whole archive: every       *)
(* directory entry is a directory under dst, every regular entry's path  *)
(* was opened, and a path no upload wrote after UnTar opened it holds the *)
(* last entry of that name at its start, whatever the uploads wrote       *)
(* before.  Only tr.Next's io.EOF may end the loop with nil.              *)
UnTarExtractsArchive ==
    LET a == untar.archive
        At(i) == <<untar.dst, a[i].name>>
    IN
    untar.pc = "done" /\ untar.err = "nil" =>
        \A i \in 1..Len(a) :
            /\ a[i].type = "dir" => At(i) \in subdirs
            /\ a[i].type = "reg" =>
                  /\ At(i) \in untar.written
                  /\ (/\ At(i) \notin mixed
                      /\ \A j \in i + 1..Len(a) : a[j].type = "reg" => a[j].name # a[i].name)
                     => IsPrefix(a[i].data, files[At(i)])

(* The file the last successful Upload wrote holds exactly the uploaded  *)
(* part.  OpenFile is called without O_TRUNC, so the tail of a longer     *)
(* file that was there before survives.                                    *)
UploadedFileExact ==
    \A r \in Reqs :
        LastSuccessfulWrite(r) => files[req[r].path] = req[r].data

(* Upload returns nil only for a part it stored: one over UploadLimit or  *)
(* one the disk has no room for is reported as an error.  Both checks     *)
(* return errors.Wrap(err, ...) where err is nil, and Wrap(nil) is nil.   *)
RejectedUploadFails ==
    \A r \in Reqs :
        req[r].pc = "done" /\ req[r].err = "nil" => req[r].admitted
=============================================================================
