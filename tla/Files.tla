-------------------------------- MODULE Files --------------------------------
(***************************************************************************)
(* UserFilesService, FileUploaderService and the attachments of messages:  *)
(* files on disk and the message records that name them.  A file uploaded  *)
(* directly is a message record too, in a room of its own; the other ones  *)
(* are in a room all users are in.                                         *)
(***************************************************************************)
EXTENDS SocialState, FiniteSetsExt

CONSTANTS
  MaxRecords, MaxFiles,  \* bounds
  Sizes,                 \* of files
  MaxStorage             \* maxStorageBytes: what a user may keep

ASSUME FilesAssumption ==
  MaxRecords \in Nat /\ MaxFiles \in Nat /\ Sizes \subseteq Nat /\ MaxStorage \in Nat

VARIABLES
  record,   \* messages with an attachment, by id
  records,  \* number of them so far
  disk,     \* the files there are, by their keys
  keys,     \* number of keys given so far: a key is never given twice
  refused   \* history: files of messages that were not stored

filesVars == <<record, records, disk, keys, refused>>

RecordIds == 1..MaxRecords

\* url: the key of the file; thumb: a video comes with a second one, whose key
\* is the next.  attached: msgAtt is not null.  A record keeps its fields when it
\* is not here any more.
NoRecord == [here |-> FALSE, sId |-> NoUser, direct |-> FALSE, url |-> 0, thumb |-> FALSE,
             fileSize |-> 0, attached |-> FALSE, dltAt |-> FALSE]

FilesInit ==
  /\ record = [m \in RecordIds |-> NoRecord] /\ records = 0
  /\ disk = {} /\ keys = 0 /\ refused = {}

HereWithFile(m) == record[m].here /\ record[m].attached
FilesOf(m) == {record[m].url} \cup (IF record[m].thumb THEN {record[m].url + 1} ELSE {})

-----------------------------------------------------------------------------
(* uploadFiles, and a message with a file *)

\* getCurrentStorageUsage: attachments of chats count like direct uploads.
Counts(m, u) == HereWithFile(m) /\ record[m].sId = u /\ ~record[m].dltAt
Usage(u) == LET Size(m) == record[m].fileSize
            IN MapThenSumSet(Size, {m \in RecordIds : Counts(m, u)})

\* What is to be stored has a key of its own.
ToStore(s, request, h) ==
  LET needed == IF h.flag THEN 2 ELSE 1
  IN /\ Free(s, request) /\ keys + needed <= MaxFiles
     /\ keys' = keys + needed
     /\ Begin(s, [h EXCEPT !.pc = "putFile", !.id = keys + 1])
     /\ UNCHANGED <<record, records, disk, refused>>

\* Mutant: only what is stored already is compared with the limit.
UploadOverLimit(s, u, size) ==
  /\ Usage(u) <= MaxStorage
  /\ ToStore(s, "upload", [Call("putFile", u) EXCEPT !.word = "direct", !.number = size])

UploadFiles(s, u, size) ==
  /\ Usage(u) + size <= MaxStorage
  /\ ToStore(s, "upload", [Call("putFile", u) EXCEPT !.word = "direct", !.number = size])

\* getMessageAttachment: an image, a file or a voice message is one file, a video
\* may have a second one; texts, locations and custom attachments have none.
\* Nobody compares with a limit.
Attach(s, u, size, thumb) ==
  ToStore(s, "attach", [Call("putFile", u) EXCEPT !.word = "chat", !.number = size, !.flag = thumb])

\* getForwardMessageNewDto: whatever message it is, the same file is named.
Forward(s, u, m) ==
  /\ Free(s, "forward") /\ HereWithFile(m)
  /\ Begin(s, [Call("insertRecord", u) EXCEPT !.word = "chat", !.id = record[m].url,
                 !.number = record[m].fileSize, !.flag = record[m].thumb])
  /\ UNCHANGED filesVars

PutFile(s) ==
  /\ At(s, "putFile")
  /\ disk' = disk \cup {req[s].id}
  /\ Goto(s, IF req[s].flag THEN "putThumb" ELSE "insertRecord")
  /\ UNCHANGED <<record, records, keys, refused>>

PutThumb(s) ==
  /\ At(s, "putThumb")
  /\ disk' = disk \cup {req[s].id + 1}
  /\ Goto(s, "insertRecord")
  /\ UNCHANGED <<record, records, keys, refused>>

\* A message may be refused after its file is stored (see SendCheck of Chat).
InsertRecord(s) ==
  LET h == req[s]
      made == [NoRecord EXCEPT !.here = TRUE, !.sId = h.user, !.direct = (h.word = "direct"),
                 !.url = h.id, !.thumb = h.flag, !.fileSize = h.number, !.attached = TRUE]
  IN /\ At(s, "insertRecord") /\ records < MaxRecords
     /\ \/ /\ records' = records + 1
           /\ record' = [record EXCEPT ![records + 1] = made]
           /\ UNCHANGED refused
        \/ /\ h.word = "chat"
           /\ refused' = refused \cup {h.id} \cup (IF h.flag THEN {h.id + 1} ELSE {})
           /\ UNCHANGED <<record, records>>
     /\ Return(s)
     /\ UNCHANGED <<disk, keys>>

-----------------------------------------------------------------------------
(* Deletion *)

\* deleteRoomMessage for all, also of a direct upload: the file stays.
DeleteMessage(u, m) ==
  /\ AtOnce("deleteMessage") /\ record[m].here /\ record[m].sId = u
  /\ record' = [record EXCEPT ![m].dltAt = TRUE]
  /\ UNCHANGED <<records, disk, keys, refused>>

\* Only direct uploads, and only one's own.
DeleteFile(s, u, m) ==
  /\ Free(s, "deleteFile") /\ record[m].here /\ record[m].direct /\ record[m].sId = u
  /\ Begin(s, [Call("unlinkFile", u) EXCEPT !.id = m,
                 !.number = IF record[m].attached THEN record[m].url ELSE 0])
  /\ UNCHANGED filesVars

\* Mutant: the record goes, the file is kept.
DeleteNoFile(s) ==
  /\ At(s, "unlinkFile")
  /\ Goto(s, "removeRecord")
  /\ UNCHANGED filesVars

\* Not found is as good.
DeletePhysicalFile(s) ==
  /\ At(s, "unlinkFile")
  /\ disk' = disk \ {req[s].number}
  /\ Goto(s, "removeRecord")
  /\ UNCHANGED <<record, records, keys, refused>>

RemoveRecord(s) ==
  /\ At(s, "removeRecord")
  /\ record' = [record EXCEPT ![req[s].id].here = FALSE]
  /\ Return(s)
  /\ UNCHANGED <<records, disk, keys, refused>>

-----------------------------------------------------------------------------
(* cleanupOrphanedFiles *)

\* What the user has sent and, unless the room is deleted from the user's list,
\* what is in the room.
CleanupOrphanedFiles(s, u, listed) ==
  /\ Free(s, "cleanup")
  /\ Begin(s, [Call("cleanNext", u) EXCEPT !.seen =
       {m \in RecordIds : /\ HereWithFile(m) /\ ~record[m].dltAt
                          /\ record[m].sId = u \/ (listed /\ ~record[m].direct)}])
  /\ UNCHANGED filesVars

CleanEach(s, missing(_)) ==
  /\ At(s, "cleanNext")
  /\ LET m == CHOOSE n \in req[s].seen : TRUE
     IN IF req[s].seen = {} THEN Return(s) /\ UNCHANGED record
        ELSE /\ record' = IF record[m].here /\ missing(m)
                          THEN [record EXCEPT ![m].attached = FALSE] ELSE record
             /\ Resume(s, [req[s] EXCEPT !.seen = @ \ {m}])
  /\ UNCHANGED <<records, disk, keys, refused>>

\* Mutant: nobody looks whether the file is there.
CleanAll(s) == LET any(m) == TRUE IN CleanEach(s, any)

CleanNext(s) == LET missing(m) == record[m].url \notin disk IN CleanEach(s, missing)

\* getUserFiles: the direct uploads of a user whose file is there.
UserFiles(u) ==
  {m \in RecordIds : /\ record[m].direct /\ Counts(m, u) /\ record[m].url \in disk}

FilesContinue(s) ==
  \/ PutFile(s) \/ PutThumb(s) \/ InsertRecord(s)
  \/ DeletePhysicalFile(s) \/ RemoveRecord(s) \/ CleanNext(s)

\* The routes of UserFilesController, and messages with a file.
FilesStart(s) ==
  \E u \in Users :
    \/ \E size \in Sizes : UploadFiles(s, u, size) \/ \E thumb \in BOOLEAN : Attach(s, u, size, thumb)
    \/ \E m \in RecordIds : Forward(s, u, m) \/ DeleteFile(s, u, m)
    \/ \E listed \in BOOLEAN : CleanupOrphanedFiles(s, u, listed)

FilesAtOnce == \E u \in Users, m \in RecordIds : DeleteMessage(u, m)
=============================================================================
