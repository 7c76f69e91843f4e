----------------------------- MODULE SystemFiles -----------------------------
(***************************************************************************)
(* The files of the system: profiles, certificates and settings, and the   *)
(* archives that carry them in and out.  Every request that imports or     *)
(* exports goes through one of a few files of fixed name under /tmp, and    *)
(* awaits parts of a form, programs it has started and opened files while   *)
(* other requests use the same names.                                      *)
(*                                                                         *)
(* A file is what may be told of it: not there, torn, a plain file with     *)
(* some content, or an archive of entries, each encrypted on its own.       *)
(***************************************************************************)
EXTENDS Integers, FiniteSets, Sequences, SequencesExt

CONSTANTS
    Profiles, ReservedProfiles, Certs,
    Installed,         \* those of them that are there at first
    Uploads,           \* the files that clients send as archives
    Passwords,         \* those they give, "" for none
    NeedQuotes,        \* those that a shell does not take as they stand
    MaxFileJobs,       \* bound: requests at a time
    MaxFileRequests,   \* bound: requests
    MaxFileFaults      \* bound: programs that fail, refusals of NetworkManager

Items == Profiles \union Certs \union {"settings"}
Exported == [config |-> Items, archive |-> Profiles \union Certs, log |-> {"journal"}, debug |-> Items \union {"journal"}]
Archives == DOMAIN Exported
Paths == Items \union Archives \union {"upload", "journal"}

ASSUME FilesAssumption ==
    /\ {MaxFileJobs, MaxFileRequests, MaxFileFaults} \subseteq Nat
    /\ NeedQuotes \subseteq Passwords /\ ReservedProfiles \subseteq Profiles /\ Installed \subseteq Items
    /\ Items \intersect (Archives \union {"upload", "journal"}) = {}
    /\ \A file \in Uploads : \A e \in file.holds : e.path \in Items

NoFile == [is |-> "none", holds |-> {}]
NotZip == [is |-> "torn", holds |-> {}]
Plain(content) == [is |-> content, holds |-> {}]
Packed(entries) == [is |-> "zip", holds |-> entries]
Entry(path, file, pw) == [path |-> path, file |-> file, pw |-> pw]

VARIABLES
    disk,              \* path -> file
    unpacked,          \* what TMP_ARCHIVE_DIRECTORY holds
    loaded,            \* the profiles that NetworkManager knows
    fileJobs,          \* the requests that are not answered
    littered,          \* the archives that a request has left behind
    fileRequests, fileFaults,
    fileDone           \* the last request, if it was alone and is all that happened since

files == <<disk, unpacked, loaded, fileJobs, littered, fileRequests, fileFaults, fileDone>>

FilesInit ==
    /\ disk = [p \in Paths |-> IF p \in Installed \union {"journal"} THEN Plain("own") ELSE NoFile]
    /\ unpacked = [p \in Items |-> NoFile] /\ loaded = Installed \intersect Profiles
    /\ fileJobs = <<>> /\ littered = {} /\ fileRequests = 0 /\ fileFaults = 0 /\ fileDone = <<>>

There(d, paths) == {p \in paths : d[p] # NoFile}
Without(d, paths) == [p \in DOMAIN d |-> IF p \in paths THEN NoFile ELSE d[p]]
Kept(d) == [p \in Items |-> d[p]]

-----------------------------------------------------------------------------
FileJob(kind, path, stage, pw) ==
    [kind |-> kind, path |-> path, stage |-> stage, pw |-> pw, sent |-> NoFile, over |-> FALSE,
     todo |-> {}, item |-> "", got |-> NoFile, ok |-> FALSE, before |-> Kept(disk), alone |-> fileJobs = <<>>,
     lost |-> FALSE, mixed |-> FALSE]

(* A file that is open for writing and loses its name is written on, and found no more. *)
Detached(jobs, gone) ==
    [j \in DOMAIN jobs |-> [jobs[j] EXCEPT !.lost = @ \/ (jobs[j].stage = "upload" /\ jobs[j].path \in gone)]]

FileRequest(job, d) ==
    /\ fileRequests < MaxFileRequests /\ fileRequests' = fileRequests + 1
    /\ Len(fileJobs) < MaxFileJobs
    /\ LET shares(u) == job.stage = "upload" /\ fileJobs[u].stage = "upload" /\ fileJobs[u].path = job.path
       IN fileJobs' = Append([u \in DOMAIN fileJobs |->
                                [fileJobs[u] EXCEPT !.alone = FALSE, !.mixed = @ \/ shares(u)]],
                             [job EXCEPT !.mixed = \E u \in DOMAIN fileJobs : shares(u)])
    /\ disk' = d /\ fileDone' = <<>>
    /\ UNCHANGED <<unpacked, loaded, littered, fileFaults>>

GoesOn(t, job, d, gone) ==
    /\ fileJobs' = [Detached(fileJobs, gone) EXCEPT ![t] = job]
    /\ disk' = d /\ UNCHANGED <<fileRequests, fileDone>>

Answers(t, job, d, gone) ==
    /\ fileJobs' = RemoveAt(Detached(fileJobs, gone), t)
    /\ disk' = d /\ fileDone' = IF job.alone THEN <<job>> ELSE <<>>
    /\ UNCHANGED fileRequests

-----------------------------------------------------------------------------
(* Uploads. *)

(* handle_file_upload_multipart_form_part: open empties the file, the parts come one by one. *)
UploadBegins(kind, path, sent, pw, over) ==
    FileRequest([FileJob(kind, path, "upload", pw) EXCEPT !.sent = sent, !.over = over],
                [disk EXCEPT ![path] = NotZip])

(* Two that write one file mix what they write, unless the other was done with it before. *)
UploadEnds(t) ==
    LET job == fileJobs[t]
    IN /\ job.stage = "upload"
       /\ \E file \in {job.sent} \union (IF job.mixed THEN {NotZip} ELSE {}) :
            LET d == IF job.lost THEN disk ELSE [disk EXCEPT ![job.path] = file]
            IN IF job.kind = "newCert" THEN Answers(t, job, d, {}) ELSE GoesOn(t, [job EXCEPT !.stage = "start"], d, {})
       /\ UNCHANGED <<unpacked, loaded, littered, fileFaults>>

(* at+filesup has the whole body when it writes; in the mode to append it writes behind what is there. *)
Appended(path, sent, append) == [disk EXCEPT ![path] = IF append /\ @ # NoFile THEN NotZip ELSE sent]
HandleImportFileUploadBytes(kind, path, sent, pw, append) ==
    FileRequest([FileJob(kind, path, "start", pw) EXCEPT !.sent = sent], Appended(path, sent, append))

(* Without a password the request ends here; only FileManage removes what was uploaded. *)
NoPassword(t) ==
    LET job == fileJobs[t]
        gone == IF job.kind = "postConfig" THEN {"upload"} ELSE {}
    IN /\ job.stage = "start" /\ job.pw = "" /\ job.kind # "postCert"
       /\ Answers(t, job, Without(disk, gone), gone)
       /\ littered' = littered \union (There(disk, {job.path}) \ gone)
       /\ UNCHANGED <<unpacked, loaded, fileFaults>>

(* FileManage.on_post moves the upload to the certificate, or to the archive that it imports. *)
PostCert(t, c) ==
    /\ fileJobs[t].kind = "postCert" /\ fileJobs[t].stage = "start"
    /\ Answers(t, fileJobs[t], IF disk["upload"] = NoFile THEN disk
                               ELSE Without([disk EXCEPT ![c] = disk["upload"]], {"upload"}), {c, "upload"})
    /\ UNCHANGED <<unpacked, loaded, littered, fileFaults>>

AtOnce(d, gone) ==
    /\ fileRequests < MaxFileRequests /\ fileRequests' = fileRequests + 1
    /\ disk' = d /\ fileDone' = <<>>
    /\ fileJobs' = [u \in DOMAIN fileJobs |-> [Detached(fileJobs, gone)[u] EXCEPT !.alone = FALSE]]
    /\ UNCHANGED <<unpacked, loaded, littered, fileFaults>>

HandleCertFileUploadBytes(c, append) == AtOnce(Appended(c, Plain("new"), append), {})
DeleteCertFile(c) == disk[c] # NoFile /\ AtOnce(Without(disk, {c}), {c})

-----------------------------------------------------------------------------
(* import_system_config. *)

(* unzip reports success when it could read every entry. *)
Readable(file, pw) == {e \in file.holds : e.pw \in {"", pw}}
Opens(file, pw) == file.is = "zip" /\ Readable(file, pw) = file.holds

(* The configuration is packed and unpacked by lines of a shell that hold the password as it *)
(* is: one that needs quotes reaches the program as another word, or makes it another line,  *)
(* which may report anything.  It is taken to do nothing else.                               *)
Word(pw) == IF pw \in NeedQuotes THEN "word" ELSE pw
Unzips(file, pw) ==
    {[out |-> Readable(file, Word(pw)), ok |-> Opens(file, Word(pw))]} \union
    (IF pw \in NeedQuotes THEN [out : {{}}, ok : BOOLEAN] ELSE {})

(* Its finally, and that of FileManage; an upload of another request may be what it removes. *)
TmpFilesOf(job) == IF job.kind = "postConfig" THEN {"config", "upload"} ELSE {"config"}
ImportEnds(t, ok, d) ==
    LET gone == TmpFilesOf(fileJobs[t]) IN
    Answers(t, [fileJobs[t] EXCEPT !.ok = ok], Without(d, gone), gone \union {p \in Items : d[p] # disk[p]})

ImportConfigStarts(t) ==
    LET job == fileJobs[t]
        here == IF job.kind = "postConfig" THEN "upload" ELSE "config"
    IN /\ job.kind \in {"putConfig", "postConfig"} /\ job.stage = "start" /\ job.pw # ""
       /\ IF disk[here] = NoFile THEN Answers(t, job, disk, {})
          ELSE GoesOn(t, [job EXCEPT !.stage = "encrypted"],
                      Without([disk EXCEPT !["config"] = disk[here]], {here} \ {"config"}),
                      IF here = "upload" THEN {"upload", "config"} ELSE {})
       /\ UNCHANGED <<unpacked, loaded, littered, fileFaults>>

(* "Test that the file is encrypted", with a password that it is not likely to have. *)
TestEncrypted(t) ==
    /\ fileJobs[t].stage = "encrypted"
    /\ IF Opens(disk["config"], "1234") THEN ImportEnds(t, FALSE, disk)
       ELSE GoesOn(t, [fileJobs[t] EXCEPT !.stage = "password"], disk, {})
    /\ UNCHANGED <<unpacked, loaded, littered, fileFaults>>

(* Mutant of TestPassword: the password is only tried when the files have been removed. *)
TestNoPassword(t) ==
    /\ fileJobs[t].stage = "password"
    /\ GoesOn(t, [fileJobs[t] EXCEPT !.stage = "clear"], disk, {})
    /\ UNCHANGED <<unpacked, loaded, littered, fileFaults>>

TestPassword(t) ==
    /\ fileJobs[t].stage = "password"
    /\ \E tried \in Unzips(disk["config"], fileJobs[t].pw) :
         IF tried.ok THEN GoesOn(t, [fileJobs[t] EXCEPT !.stage = "clear"], disk, {})
         ELSE ImportEnds(t, FALSE, disk)
    /\ UNCHANGED <<unpacked, loaded, littered, fileFaults>>

RemoveConfig(t) ==
    /\ fileJobs[t].stage = "clear"
    /\ GoesOn(t, [fileJobs[t] EXCEPT !.stage = "unpack"], Without(disk, Items), Items)
    /\ UNCHANGED <<unpacked, loaded, littered, fileFaults>>

(* rm reports a failure, and the import ends with what it has removed by then. *)
RemoveFails(t) ==
    /\ fileJobs[t].stage = "clear"
    /\ fileFaults < MaxFileFaults /\ fileFaults' = fileFaults + 1
    /\ \E some \in SUBSET Items : ImportEnds(t, FALSE, Without(disk, some))
    /\ UNCHANGED <<unpacked, loaded, littered>>

Extracted(d, entries) ==
    [p \in DOMAIN d |-> IF \E e \in entries : e.path = p THEN (CHOOSE e \in entries : e.path = p).file ELSE d[p]]

ExtractConfig(t) ==
    LET job == fileJobs[t]
    IN /\ job.stage = "unpack"
       /\ \E got \in Unzips(disk["config"], job.pw) :
            LET d == Extracted(disk, got.out)
            IN IF got.ok THEN GoesOn(t, [job EXCEPT !.stage = "reload"], d, Items) ELSE ImportEnds(t, FALSE, d)
       /\ UNCHANGED <<unpacked, loaded, littered, fileFaults>>

(* The disk is full, or unzip is stopped; what is out already stays. *)
ExtractFails(t) ==
    /\ fileJobs[t].stage = "unpack"
    /\ fileFaults < MaxFileFaults /\ fileFaults' = fileFaults + 1
    /\ \E some \in SUBSET Readable(disk["config"], Word(fileJobs[t].pw)) : ImportEnds(t, FALSE, Extracted(disk, some))
    /\ UNCHANGED <<unpacked, loaded, littered>>

-----------------------------------------------------------------------------
(* import_connections. *)

ConnectionsEnd(t, ok) ==
    /\ Answers(t, [fileJobs[t] EXCEPT !.ok = ok], Without(disk, {"archive"}), {"archive"})
    /\ unpacked' = [p \in Items |-> NoFile]

(* unzip -n: what another import has put there is kept. *)
Unzipped(entries) == [p \in Items |-> IF unpacked[p] # NoFile THEN unpacked[p] ELSE Extracted(unpacked, entries)[p]]

(* A certificate is no file that configparser reads: the check for reserved profiles raises, *)
(* and the loop goes on with the next file.                                                  *)
MayCopy(p, over) == p \in Profiles \ ReservedProfiles /\ (over \/ p \notin loaded)

(* What is a link at its place stays, and a link is made only where there is nothing. *)
Replaces(file, there) == file # NoFile /\ there.is # "link" /\ (file.is = "link" => there = NoFile)
Copied(d, paths) == [p \in DOMAIN d |-> IF p \in paths /\ Replaces(unpacked'[p], d[p]) THEN unpacked'[p] ELSE d[p]]

(* The directories that it looks for; an archive may hold one without files. *)
Expected(u) == There(u, Profiles) # {} /\ There(u, Certs) # {}

ImportConnectionsStarts(t) ==
    LET job == fileJobs[t]
        file == disk["archive"]
    IN /\ job.kind = "import" /\ job.stage = "start" /\ job.pw # ""
       /\ IF file = NoFile THEN Answers(t, job, disk, {}) /\ UNCHANGED unpacked
          ELSE \/ /\ ~Opens(file, job.pw) \/ ~Expected(Unzipped(file.holds))
                  /\ ConnectionsEnd(t, FALSE)
               \/ /\ Opens(file, job.pw) /\ unpacked' = Unzipped(file.holds)
                  /\ IF job.over
                     THEN GoesOn(t, [job EXCEPT !.stage = "reload"],
                                 Copied(disk, {p \in There(unpacked', Profiles \union Certs) : MayCopy(p, TRUE)}), {})
                     ELSE GoesOn(t, [job EXCEPT !.stage = "look", !.todo = There(unpacked', Profiles \union Certs)],
                                 disk, {})
       /\ UNCHANGED <<loaded, littered, fileFaults>>

(* imported_connection_exists asks NetworkManager; the copy is made when the answer is there. *)
LookConnection(t) ==
    /\ fileJobs[t].stage = "look"
    /\ \E p \in fileJobs[t].todo :
         GoesOn(t, [fileJobs[t] EXCEPT !.todo = @ \ {p}, !.item = p,
                                       !.stage = IF MayCopy(p, FALSE) THEN "copy" ELSE "look"], disk, {})
    /\ UNCHANGED <<unpacked, loaded, littered, fileFaults>>

CopyConnection(t) ==
    /\ fileJobs[t].stage = "copy"
    /\ UNCHANGED unpacked
    /\ GoesOn(t, [fileJobs[t] EXCEPT !.stage = "look"], Copied(disk, {fileJobs[t].item}), {})
    /\ UNCHANGED <<loaded, littered, fileFaults>>

AllLooked(t) ==
    /\ fileJobs[t].stage = "look" /\ fileJobs[t].todo = {}
    /\ GoesOn(t, [fileJobs[t] EXCEPT !.stage = "reload"], disk, {})
    /\ UNCHANGED <<unpacked, loaded, littered, fileFaults>>

(* reload_connections, which ends either import. *)
ReloadConnections(t, ok) ==
    /\ fileJobs[t].stage = "reload"
    /\ loaded' = IF ok THEN There(disk, Profiles) ELSE loaded
    /\ IF ok THEN UNCHANGED fileFaults ELSE fileFaults < MaxFileFaults /\ fileFaults' = fileFaults + 1
    /\ IF fileJobs[t].kind = "import" THEN ConnectionsEnd(t, ok)
       ELSE ImportEnds(t, ok, disk) /\ UNCHANGED unpacked
    /\ UNCHANGED littered

-----------------------------------------------------------------------------
(* Exports. *)

(* zip replaces in an archive that is there the entries that it has anew, and keeps the others. *)
Zipped(s, pw) ==
    LET now == There(disk, Exported[s])
    IN Packed({Entry(p, disk[p], pw) : p \in now} \union {e \in disk[s].holds : e.path \notin now})
Zippable(s) == disk[s].is \in {"none", "zip"}

(* export_debug encrypts what it has zipped to another name, over what was there. *)
ExportFile(s, pw) == IF s = "debug" THEN Packed({Entry(p, disk[p], "device") : p \in There(disk, Exported[s])})
                     ELSE Zipped(s, pw)

(* zip is awaited for the configuration; for the others the program stands still meanwhile. *)
Export(kind, s, pw) ==
    IF s = "config" THEN FileRequest(FileJob(kind, s, "zip", pw), disk)
    ELSE IF Zippable(s) \/ s = "debug"
    THEN FileRequest(FileJob(kind, s, "open", pw), [disk EXCEPT ![s] = ExportFile(s, pw)])
    ELSE FileRequest(FileJob(kind, s, "fails", pw), disk)

ZipEnds(t) ==
    LET job == fileJobs[t]
    IN /\ job.stage = "zip"
       /\ GoesOn(t, [job EXCEPT !.stage = IF Zippable(job.path) THEN "open" ELSE "fails"],
                 IF Zippable(job.path) THEN [disk EXCEPT ![job.path] = ExportFile(job.path, Word(job.pw))] ELSE disk,
                 {job.path})
       /\ UNCHANGED <<unpacked, loaded, littered, fileFaults>>

(* Another line than one of zip, with any result; an archive that is there is then sent. *)
OtherLineEnds(t) ==
    LET job == fileJobs[t]
    IN /\ job.stage = "zip" /\ job.pw \in NeedQuotes
       /\ \E stage \in {"fails"} \union (IF disk[job.path] = NoFile THEN {} ELSE {"open"}) :
            GoesOn(t, [job EXCEPT !.stage = stage], disk, {})
       /\ UNCHANGED <<unpacked, loaded, littered, fileFaults>>

(* The path is then None, which neither os.path.isfile nor os.unlink take: the file stays. *)
ExportFails(t) ==
    /\ fileJobs[t].stage = "fails"
    /\ Answers(t, fileJobs[t], disk, {})
    /\ UNCHANGED <<unpacked, loaded, littered, fileFaults>>

(* at+filesexp answers the size; the host reads the file later, which nobody removes. *)
ATExported(t) ==
    LET job == fileJobs[t]
    IN /\ job.kind = "atExport" /\ job.stage = "open"
       /\ Answers(t, job, disk, {})
       /\ littered' = littered \union There(disk, {job.path})
       /\ UNCHANGED <<unpacked, loaded, fileFaults>>

(* handle_file_download awaits the opening; what the path leads to by then is sent. *)
OpenArchive(t) ==
    LET job == fileJobs[t]
    IN /\ job.kind = "export" /\ job.stage = "open"
       /\ IF disk[job.path] = NoFile THEN Answers(t, job, disk, {})
          ELSE GoesOn(t, [job EXCEPT !.stage = "unlink", !.got = disk[job.path], !.ok = TRUE], disk, {})
       /\ UNCHANGED <<unpacked, loaded, littered, fileFaults>>

(* Mutant of UnlinkArchive: the archive that was sent stays. *)
LeaveArchive(t) ==
    /\ fileJobs[t].stage = "unlink"
    /\ Answers(t, fileJobs[t], disk, {})
    /\ UNCHANGED <<unpacked, loaded, littered, fileFaults>>

UnlinkArchive(t) ==
    /\ fileJobs[t].stage = "unlink"
    /\ Answers(t, fileJobs[t], Without(disk, {fileJobs[t].path}), {fileJobs[t].path})
    /\ UNCHANGED <<unpacked, loaded, littered, fileFaults>>

-----------------------------------------------------------------------------
(* The requests, by the front end that takes them; a certificate of v2 is saved where it belongs, *)
(* legacy saves any upload under one name first.                                                   *)
SystemConfigImport(sent, pw) == UploadBegins("putConfig", "config", sent, pw, FALSE)
ConnectionsImport(sent, pw, over) == UploadBegins("import", "archive", sent, pw, over)
CertificatePost(c) == UploadBegins("newCert", c, Plain("new"), "", FALSE)
CertificateDelete(c) == DeleteCertFile(c)
SystemConfigExport(pw) == Export("export", "config", pw)
ConnectionsExport(pw) == Export("export", "archive", pw)
LogsExport(pw) == Export("export", "log", pw)
DebugExport == Export("export", "debug", "device")

FileManagePost(sent, pw) ==
    \/ UploadBegins("postConfig", "upload", sent, pw, FALSE)
    \/ UploadBegins("postCert", "upload", Plain("new"), "", FALSE)
FileManageGet(s, pw) == s # "archive" /\ Export("export", s, pw)
FileManageDelete(c) == DeleteCertFile(c)
FilesManagePut(sent, pw) == UploadBegins("import", "archive", sent, pw, FALSE)

(* at+filesup, at+filesdel and at+filesexp; the first two imports need a password to be taken. *)
FilesUpload(sent, pw, append) ==
    \/ pw # "" /\ HandleImportFileUploadBytes("putConfig", "config", sent, pw, append)
    \/ pw # "" /\ HandleImportFileUploadBytes("import", "archive", sent, pw, append)
    \/ \E c \in Certs : HandleCertFileUploadBytes(c, append)
FilesDelete(c) == DeleteCertFile(c)
FilesExport(s, pw) == Export("atExport", s, pw)

FileRequests ==
    \/ \E sent \in Uploads, pw \in Passwords :
         \/ SystemConfigImport(sent, pw) \/ FileManagePost(sent, pw) \/ FilesManagePut(sent, pw)
         \/ \E over \in BOOLEAN : ConnectionsImport(sent, pw, over)
         \/ \E append \in BOOLEAN : FilesUpload(sent, pw, append)
    \/ \E c \in Certs : CertificatePost(c) \/ CertificateDelete(c) \/ FileManageDelete(c) \/ FilesDelete(c)
    \/ \E pw \in Passwords \ {""} :
         \/ SystemConfigExport(pw) \/ ConnectionsExport(pw) \/ LogsExport(pw)
         \/ \E s \in Archives : FileManageGet(s, pw) \/ FilesExport(s, pw)
    \/ DebugExport

FileSteps(t) ==
    \/ UploadEnds(t) \/ NoPassword(t) \/ \E c \in Certs : PostCert(t, c)
    \/ ImportConfigStarts(t) \/ TestEncrypted(t) \/ TestPassword(t) \/ RemoveConfig(t)
    \/ RemoveFails(t) \/ ExtractConfig(t) \/ ExtractFails(t)
    \/ ImportConnectionsStarts(t) \/ LookConnection(t) \/ CopyConnection(t) \/ AllLooked(t)
    \/ \E ok \in BOOLEAN : ReloadConnections(t, ok)
    \/ ZipEnds(t) \/ OtherLineEnds(t) \/ ExportFails(t) \/ ATExported(t) \/ OpenArchive(t) \/ UnlinkArchive(t)

FilesNext == FileRequests \/ \E t \in DOMAIN fileJobs : FileSteps(t)

-----------------------------------------------------------------------------
Done(kinds) == fileDone # <<>> /\ fileDone[1].kind \in kinds

(* The import of a configuration, when nothing else goes on and the shell takes the password *)
(* as it stands: one that is told to have worked leaves just what the archive holds, and one  *)
(* that was refused leaves the system as it was, if rm, unzip and NetworkManager never failed. *)
(* The import of connections leaves the profiles that the system ships.                       *)
ImportIsWhole ==
    /\ Done({"putConfig", "postConfig"}) /\ fileDone[1].pw \notin NeedQuotes =>
         IF fileDone[1].ok THEN Kept(disk) = Extracted([p \in Items |-> NoFile], fileDone[1].sent.holds)
         ELSE fileFaults > 0 \/ Kept(disk) = fileDone[1].before
    /\ Done({"import"}) => \A p \in ReservedProfiles : disk[p] = fileDone[1].before[p]

(* "Retrieve an export of the current system configuration", and its likes: what a client is *)
(* sent is what the system held, under the client's own password, if it was alone, no        *)
(* request before it left an archive behind, and no shell changed the password.              *)
ExportIsCurrent ==
    /\ Done({"export"}) /\ fileDone[1].ok /\ fileDone[1].path \notin littered \union {"debug"}
    /\ fileDone[1].path = "config" => fileDone[1].pw \notin NeedQuotes
    => fileDone[1].got = Packed({Entry(p, disk[p], fileDone[1].pw) : p \in There(disk, Exported[fileDone[1].path])})

(* "Handle importing NetworkManager connections and certificates": after an import that worked *)
(* the certificates of the archive are there.                                                  *)
CertsImported ==
    Done({"import"}) /\ fileDone[1].ok =>
        \A e \in fileDone[1].sent.holds : e.path \in Certs => disk[e.path] # NoFile
=============================================================================
