------------------------------ MODULE CardStorage ------------------------------
(***************************************************************************)
(* The recordings on the card and who takes them away: closeAvi()          *)
(* (mjpeg2sd.cpp) names a recording, asks for its upload and then has       *)
(* checkFreeStorage() (utilsFS.cpp) delete the oldest day folders; the      *)
(* file server task (ftp.cpp) uploads a file or a folder and may delete it; *)
(* the web page uploads and deletes what it likes.                          *)
(*                                                                         *)
(* Space is counted in units of which a recording takes one to MaxSize.  A  *)
(* day is a number, its folder is there or not.                             *)
(***************************************************************************)
EXTENDS Integers, FiniteSetsExt

CONSTANTS
    Days, MaxClips,      \* bounds: days that pass, recordings
    MaxSize, Capacity,   \* units of a recording, and of the card without its other files
    sdMinCardFreeSpace,
    Modes,               \* what sdFreeSpaceMode may be
    DeleteAfter,         \* what deleteAfter may be
    AutoUpload,          \* what autoUpload may be
    FsUse,               \* what fsUse may be: an FTP server, or an HTTPS one
    Races                \* what the code does not provide for, see Provided

ASSUME CardAssumption ==
    /\ Days \in Nat \ {0} /\ MaxClips \in Nat
    /\ MaxSize \in Nat \ {0} /\ sdMinCardFreeSpace \in Nat
    /\ Capacity \in Nat /\ Capacity >= sdMinCardFreeSpace
    /\ Modes \subseteq {0, 1, 2} /\ DeleteAfter \subseteq BOOLEAN /\ AutoUpload \subseteq BOOLEAN
    /\ FsUse \subseteq BOOLEAN

VARIABLES
    sdFreeSpaceMode, deleteAfter, autoUpload, fsUse,        \* settings; autoUpload without dashCamOn
    day, files, folders,                                    \* the card
    rec, temp, doRecording, made,                           \* the capture task
    uploadInProgress, fsHandle, storedPathName,             \* ftp.cpp
    task, todo, res, sent          \* the task; sent: what the server has of the files still there

settings == <<sdFreeSpaceMode, deleteAfter, autoUpload, fsUse>>
onCard   == <<files, folders>>
capture  == <<rec, temp, doRecording, made>>
request  == <<uploadInProgress, fsHandle, storedPathName>>
transfer == <<todo, res, sent>>
vars     == <<settings, day, onCard, capture, request, task, transfer>>

Clip == [day : 1..Days, id : 1..MaxClips, size : 1..MaxSize]

\* A path is a folder, id = 0, or a file in one.
Folder(d) == [day |-> d, id |-> 0]
Name(c) == [day |-> c.day, id |-> c.id]
Under(p) == {c \in files : c.day = p.day /\ p.id \in {0, c.id}}
Opens(p) == IF p.id = 0 THEN p.day \in folders ELSE Under(p) # {}
None == Folder(0)

\* An order of events the code does not provide for, unless ok, happens only in
\* a run that asks for it.
Provided(race, ok) == ok \/ race \in Races

Init ==
    /\ sdFreeSpaceMode \in Modes /\ deleteAfter \in DeleteAfter
    /\ autoUpload \in AutoUpload /\ fsUse \in FsUse
    /\ day = 1 /\ files = {} /\ folders = {}
    /\ rec = "idle" /\ temp = [there |-> FALSE, day |-> 1, id |-> 1, size |-> 0]
    /\ doRecording = TRUE /\ made = 0
    /\ uploadInProgress = FALSE /\ fsHandle = FALSE /\ storedPathName = None
    /\ task = "none" /\ todo = {} /\ res = FALSE /\ sent = {}
----------------------------------------------------------------------------
(* A request for an upload.                                                *)

\* The path is set, whoever uses it; the task is created unless its handle is
\* still there.
FsStartTransfer(p) ==
    /\ storedPathName' = p
    /\ IF uploadInProgress
          THEN UNCHANGED <<uploadInProgress, fsHandle, task>>
          ELSE /\ uploadInProgress' = TRUE
               /\ fsHandle' = TRUE
               /\ task' = IF fsHandle THEN task ELSE "open"

\* A request while the task is to delete what it sends changes the path under it;
\* one while the task ends finds its handle; and a folder goes with a recording
\* that is to land in it, or has landed too late to be sent.
MayRequest(p) ==
    /\ Provided("pathTaken", uploadInProgress /\ deleteAfter => p = storedPathName)
    /\ Provided("folderGoes", rec = "rec" /\ deleteAfter => p # Folder(temp.day))
    /\ Provided("requestAtEnd", task # "ended")

WebUpload ==
    /\ \E p \in {Folder(d) : d \in 1..Days} \cup {Name(c) : c \in files} :
         MayRequest(p) /\ FsStartTransfer(p)
    /\ UNCHANGED <<settings, day, onCard, capture, transfer>>
----------------------------------------------------------------------------
(* The capture task.                                                       *)
NewDay ==
    /\ day < Days
    /\ day' = day + 1
    /\ UNCHANGED <<settings, onCard, capture, request, task, transfer>>

SetRecord ==
    /\ doRecording' = TRUE
    /\ UNCHANGED <<settings, day, onCard, rec, temp, made, request, task, transfer>>

\* What an interrupted naming left in AVITEMP is lost.
OpenAvi ==
    /\ rec = "idle" /\ doRecording /\ made < MaxClips
    /\ Provided("folderGoes", uploadInProgress /\ deleteAfter => storedPathName # Folder(day))
    /\ rec' = "rec" /\ made' = made + 1
    /\ temp' = [there |-> TRUE, day |-> day, id |-> made + 1, size |-> 0]
    /\ folders' = folders \cup {day}
    /\ UNCHANGED <<settings, day, files, doRecording, request, task, transfer>>

Used == MapThenSumSet(LAMBDA c : c.size, files) + (IF temp.there THEN temp.size ELSE 0)
Free == Capacity - Used

SaveFrames ==
    /\ rec = "rec" /\ temp.size < MaxSize /\ Free > 0
    /\ temp' = [temp EXCEPT !.size = @ + 1]
    /\ UNCHANGED <<settings, day, onCard, rec, doRecording, made, request, task, transfer>>

CloseEmpty ==
    /\ rec = "rec" /\ temp.size = 0
    /\ rec' = "idle" /\ temp' = [temp EXCEPT !.there = FALSE]
    /\ UNCHANGED <<settings, day, onCard, doRecording, made, request, task, transfer>>

\* The rename of closeAvi() needs the folder openAvi() made.
Landed == [day |-> temp.day, id |-> temp.id, size |-> temp.size]

CloseAvi ==
    /\ rec = "rec" /\ temp.size > 0
    /\ rec' = "named"
    /\ IF temp.day \in folders
          THEN /\ files' = files \cup {Landed}
               /\ temp' = [temp EXCEPT !.there = FALSE]
          ELSE UNCHANGED <<files, temp>>
    /\ UNCHANGED <<settings, day, folders, doRecording, made, request, task, transfer>>

\* The folder is today's, not the recording's.
RequestUpload ==
    /\ rec = "named"
    /\ rec' = "free"
    /\ IF autoUpload
          THEN LET p == IF deleteAfter THEN Folder(day) ELSE Name(temp)
               IN  MayRequest(p) /\ FsStartTransfer(p)
          ELSE UNCHANGED <<request, task>>
    /\ UNCHANGED <<settings, day, onCard, temp, doRecording, made, transfer>>

Low == Free < sdMinCardFreeSpace

NoCheck ==
    /\ rec = "free" /\ Low /\ sdFreeSpaceMode = 0
    /\ rec' = "idle" /\ doRecording' = FALSE
    /\ UNCHANGED <<settings, day, onCard, temp, made, request, task, transfer>>

OldestDir == Min(folders)

\* deleteFolderOrFile()
Delete(p) ==
    /\ files' = files \ Under(p)
    /\ folders' = IF p.id = 0 THEN folders \ {p.day} ELSE folders
    /\ sent' = sent \ {c.id : c \in Under(p)}

\* A folder emptied for an upload is gone before the task looks at it.
DeleteOldest ==
    /\ rec = "free" /\ Low /\ sdFreeSpaceMode # 0 /\ folders # {}
    /\ IF sdFreeSpaceMode = 2
          THEN MayRequest(Folder(OldestDir)) /\ FsStartTransfer(Folder(OldestDir))
          ELSE UNCHANGED <<request, task>>
    /\ Delete(Folder(OldestDir))
    /\ UNCHANGED <<settings, day, capture, todo, res>>

Enough == rec = "free" /\ ~Low

FreeChecked ==
    /\ Enough
    /\ rec' = "idle"
    /\ UNCHANGED <<settings, day, onCard, temp, doRecording, made, request, task, transfer>>
----------------------------------------------------------------------------
(* Deletion from the web page.                                             *)
WebDelete ==
    /\ \E p \in {Folder(d) : d \in folders} \cup {Name(c) : c \in files} :
         /\ Provided("folderGoes", ~(rec = "rec" /\ p = Folder(temp.day)))
         /\ Delete(p)
    /\ UNCHANGED <<settings, day, capture, request, task, todo, res>>
----------------------------------------------------------------------------
(* fileServerTask().                                                       *)
GivenUp == uploadInProgress' = FALSE /\ task' = "ended"

OpenStoredOrStay ==
    /\ task = "open"
    /\ IF Opens(storedPathName)
          THEN task' = "connect" /\ UNCHANGED uploadInProgress
          ELSE task' = "ended" /\ UNCHANGED uploadInProgress   \* MUTANT of OpenStored: a path that is gone leaves the transfer in progress
    /\ UNCHANGED <<settings, day, onCard, capture, fsHandle, storedPathName, transfer>>

OpenStored ==
    /\ task = "open"
    /\ IF Opens(storedPathName)
          THEN task' = "connect" /\ UNCHANGED uploadInProgress
          ELSE GivenUp
    /\ UNCHANGED <<settings, day, onCard, capture, fsHandle, storedPathName, transfer>>

Connect ==
    /\ task = "connect"
    /\ task' = "send"
    /\ todo' = Under(storedPathName) /\ res' = TRUE
    /\ UNCHANGED <<settings, day, onCard, capture, request, sent>>

\* No answer in time, too little memory, or a server abandoned until the rollover.
ConnectFails ==
    /\ task = "connect"
    /\ GivenUp
    /\ UNCHANGED <<settings, day, onCard, capture, fsHandle, storedPathName, transfer>>

\* FTP asks the server for its 226, and finds by it, or by the first write, that there is no data
\* connection; a write that sent less than it was given goes on.  HTTPS looks at no write and
\* at no answer.
LostUnnoticed == Provided("shortWrite", fsUse)

\* A failure that is noticed gives up the rest of a folder, and so does a file of another type.
SendFile ==
    /\ task = "send"
    /\ \E c \in todo \cap files :
         /\ todo' = (todo \cap files) \ {c}
         /\ \/ sent' = sent \cup {c.id} /\ UNCHANGED <<res, task>>
            \/ res' = FALSE /\ task' = "close" /\ UNCHANGED sent
            \/ LostUnnoticed /\ UNCHANGED <<res, task, sent>>
    /\ UNCHANGED <<settings, day, onCard, capture, request>>

SentAll ==
    /\ task = "send" /\ todo \cap files = {}
    /\ task' = "close"
    /\ UNCHANGED <<settings, day, onCard, capture, request, transfer>>

DisconnectAnyway ==
    /\ task = "close"
    /\ IF deleteAfter   \* MUTANT of Disconnect: whether all was sent or not
          THEN task' = "delete" /\ UNCHANGED uploadInProgress
          ELSE GivenUp
    /\ UNCHANGED <<settings, day, onCard, capture, fsHandle, storedPathName, transfer>>

Disconnect ==
    /\ task = "close"
    /\ IF res /\ deleteAfter
          THEN task' = "delete" /\ UNCHANGED uploadInProgress
          ELSE GivenUp
    /\ UNCHANGED <<settings, day, onCard, capture, fsHandle, storedPathName, transfer>>

DeleteSent ==
    /\ task = "delete"
    /\ Delete(storedPathName)
    /\ GivenUp
    /\ UNCHANGED <<settings, day, capture, fsHandle, storedPathName, todo, res>>

TaskEnds ==
    /\ task = "ended"
    /\ task' = "none" /\ fsHandle' = FALSE
    /\ UNCHANGED <<settings, day, onCard, capture, uploadInProgress, storedPathName, transfer>>
----------------------------------------------------------------------------
Next ==
    \/ NewDay \/ SetRecord \/ OpenAvi \/ SaveFrames \/ CloseEmpty \/ CloseAvi \/ RequestUpload
    \/ NoCheck \/ DeleteOldest \/ FreeChecked
    \/ WebUpload \/ WebDelete
    \/ OpenStored \/ Connect \/ ConnectFails \/ SendFile \/ SentAll \/ Disconnect
    \/ DeleteSent \/ TaskEnds

FileServerTask ==
    \/ OpenStored \/ Connect \/ ConnectFails \/ SendFile \/ SentAll \/ Disconnect
    \/ DeleteSent \/ TaskEnds

\* Tasks are scheduled; a recording ends.
Fairness ==
    /\ WF_vars(FileServerTask)
    /\ WF_vars(CloseAvi) /\ WF_vars(RequestUpload) /\ WF_vars(NoCheck)
    /\ WF_vars(DeleteOldest) /\ WF_vars(FreeChecked)

Spec == Init /\ [][Next]_vars /\ Fairness
----------------------------------------------------------------------------
(* Properties.                                                             *)

\* A recording begun after checkFreeStorage() has room for all its frames, as long as
\* the least free space is that of a recording.
ClipFits ==
    rec = "rec" /\ sdFreeSpaceMode # 0 /\ sdMinCardFreeSpace >= MaxSize
      => Free >= MaxSize - temp.size

\* What the file server task deletes an FTP server has ("auto delete after upload").  Of an HTTPS
\* server nothing can be said: what was lost on the way is deleted all the same.
SentBeforeDeleted ==
    [][task = "delete" /\ task' = "ended" /\ ~fsUse => \A c \in files \ files' : c.id \in sent]_vars

\* A recording that is closed is found under its name.
ClosedClipLands == [][rec = "rec" /\ rec' = "named" => Landed \in files']_vars

\* The next upload can be asked for: no transfer stays in progress for ever.
TransferEnds == uploadInProgress ~> ~uploadInProgress

\* utilsFS.cpp:27, "Upload oldest dir to FTP/HFS and then delete on SD"
UploadedThenDeleted ==
    [][rec = "free" /\ sdFreeSpaceMode = 2 => \A c \in files \ files' : c.id \in sent]_vars
===============================================================================
