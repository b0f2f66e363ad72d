---------------------------- MODULE MediaStore ----------------------------
(***************************************************************************)
(* The media library (internal/media/service.go): a file on disk and a row *)
(* in media for each item, written by an upload and removed by deletes.    *)
(* The rows change when the request's transaction commits; the files, at   *)
(* once.  Each item has one upload, under a name of its own.               *)
(***************************************************************************)
EXTENDS Naturals, FiniteSets

CONSTANTS Media,     \* items
          Remover,   \* requests that delete or describe one
          NoMedia,   \* no item
          MaxCrashes \* bound: restarts of the server

ASSUME MediaAssumption == NoMedia \notin Media \cup Remover /\ MaxCrashes \in Nat

VARIABLES file,     \* file[m]: what is on disk
          row,      \* row[m]: whether a row is committed, and what describes it
          upload,   \* upload[m]: how far its upload has come
          remover,  \* remover[r]: the request, its item and how far it has come
          rowHeld,  \* rowHeld[m]: the request that has written the row and not ended
          spoiled,  \* history: items whose file a delete removed and then failed
          truncated, \* history: items whose file was not written again to its end
          crashes

mediaVars == <<file, row, upload, remover, rowHeld, spoiled, truncated, crashes>>

NoRemover == [phase |-> "idle", of |-> NoMedia]

MediaInit ==
    /\ file = [m \in Media |-> "none"]
    /\ row = [m \in Media |-> "none"]
    /\ upload = [m \in Media |-> "none"]
    /\ remover = [r \in Remover |-> NoRemover]
    /\ rowHeld = [m \in Media |-> NoMedia]
    /\ spoiled = {} /\ truncated = {} /\ crashes = 0

Uploading(m, phase) == upload' = [upload EXCEPT ![m] = phase]
OnDisk(m, what) == file' = [file EXCEPT ![m] = what]

(***************************************************************************)
(* Uploading                                                               *)
(***************************************************************************)

\* A file that is too large or of another type is refused before anything is
\* written.
AcceptUpload(m) ==
    /\ upload[m] = "none"
    /\ \/ Uploading(m, "refused") /\ UNCHANGED file
       \/ Uploading(m, "created") /\ OnDisk(m, "partial")
    /\ UNCHANGED <<row, remover, rowHeld, spoiled, truncated, crashes>>

\* The copy; one that fails takes the file away.
CopyFile(m) ==
    /\ upload[m] = "created"
    /\ \/ Uploading(m, "copied") /\ OnDisk(m, "whole")
       \/ Uploading(m, "failed") /\ OnDisk(m, "none")
    /\ UNCHANGED <<row, remover, rowHeld, spoiled, truncated, crashes>>

\* JPEG and PNG files are written again, smaller; anything else, and one that
\* does not decode, stays as it is.
BeginOptimizing(m) ==
    /\ upload[m] = "copied"
    /\ \/ Uploading(m, "optimizing") /\ OnDisk(m, "partial")
       \/ Uploading(m, "stored") /\ UNCHANGED file
    /\ UNCHANGED <<row, remover, rowHeld, spoiled, truncated, crashes>>
\* The file is cut to nothing before it is written, and a write that fails is
\* told to nobody: the upload goes on with what is there.
OptimizeImage(m) ==
    /\ upload[m] = "optimizing"
    /\ Uploading(m, "stored")
    /\ \/ OnDisk(m, "whole") /\ UNCHANGED truncated
       \/ truncated' = truncated \cup {m} /\ UNCHANGED file
    /\ UNCHANGED <<row, remover, rowHeld, spoiled, crashes>>

InsertMedia(m) ==
    /\ upload[m] = "stored"
    /\ \/ Uploading(m, "inserted") /\ UNCHANGED file
       \/ Uploading(m, "failed") /\ OnDisk(m, "none")
    /\ UNCHANGED <<row, remover, rowHeld, spoiled, truncated, crashes>>

\* When the commit fails the file stays, without a row.
CommitUpload(m) ==
    /\ upload[m] = "inserted"
    /\ \/ Uploading(m, "done") /\ row' = [row EXCEPT ![m] = "plain"]
       \/ Uploading(m, "failed") /\ UNCHANGED row
    /\ UNCHANGED <<file, remover, rowHeld, spoiled, truncated, crashes>>

(***************************************************************************)
(* Deleting and describing                                                 *)
(***************************************************************************)
AtWork(r, phase) == remover' = [remover EXCEPT ![r].phase = phase]

\* The delete's SELECT, which locks nothing.
FindMedia(r) ==
    /\ remover[r].phase = "idle"
    /\ \E m \in Media :
         /\ row[m] # "none"
         /\ remover' = [remover EXCEPT ![r] = [phase |-> "found", of |-> m]]
    /\ UNCHANGED <<file, row, upload, rowHeld, spoiled, truncated, crashes>>

\* MUTANT of DeleteRow: the file goes before the row is written.
DeleteFileFirst(r) ==
    /\ remover[r].phase = "found"
    /\ AtWork(r, "unlinked")
    /\ file' = [file EXCEPT ![remover[r].of] = "none"]
    /\ UNCHANGED <<row, upload, rowHeld, spoiled, truncated, crashes>>

\* It waits for a request that has written the row; when that one deleted it,
\* none is left to delete, which is no error.
DeleteRow(r) ==
    /\ remover[r].phase = "found"
    /\ rowHeld[remover[r].of] = NoMedia
    /\ AtWork(r, "deleted")
    /\ rowHeld' = [rowHeld EXCEPT ![remover[r].of] = IF row[remover[r].of] = "none" THEN @ ELSE r]
    /\ UNCHANGED <<file, row, upload, spoiled, truncated, crashes>>

\* A file that is not there, or does not go, is no error either.
DeleteFile(r) ==
    /\ remover[r].phase = "deleted"
    /\ AtWork(r, "unlinked")
    /\ \/ file' = [file EXCEPT ![remover[r].of] = "none"]
       \/ UNCHANGED file
    /\ UNCHANGED <<row, upload, rowHeld, spoiled, truncated, crashes>>

Release(r) == [m \in Media |-> IF rowHeld[m] = r THEN NoMedia ELSE rowHeld[m]]

CommitDelete(r) ==
    /\ remover[r].phase = "unlinked"
    /\ AtWork(r, "done")
    /\ row' = [m \in Media |-> IF rowHeld[m] = r THEN "none" ELSE row[m]]
    /\ rowHeld' = Release(r)
    /\ UNCHANGED <<file, upload, spoiled, truncated, crashes>>

\* A statement or the commit fails; a file that is gone stays gone.
FailRemover(r) ==
    /\ remover[r].phase \in {"found", "deleted", "unlinked", "described"}
    /\ AtWork(r, "failed")
    /\ rowHeld' = Release(r)
    /\ spoiled' = IF remover[r].phase = "unlinked" /\ rowHeld[remover[r].of] = r
                  THEN spoiled \cup {remover[r].of} ELSE spoiled
    /\ UNCHANGED <<file, row, upload, truncated, crashes>>

\* An item that is not there is not described, which is no error.
UpdateMediaMetadata(r) ==
    /\ remover[r].phase = "idle"
    /\ \E m \in Media :
         /\ upload[m] # "none" /\ rowHeld[m] = NoMedia
         /\ remover' = [remover EXCEPT ![r] = [phase |-> "described", of |-> m]]
         /\ rowHeld' = IF row[m] = "none" THEN rowHeld ELSE [rowHeld EXCEPT ![m] = r]
    /\ UNCHANGED <<file, row, upload, spoiled, truncated, crashes>>
CommitMetadata(r) ==
    /\ remover[r].phase = "described"
    /\ AtWork(r, "done")
    /\ row' = [m \in Media |-> IF rowHeld[m] = r THEN "described" ELSE row[m]]
    /\ rowHeld' = Release(r)
    /\ UNCHANGED <<file, upload, spoiled, truncated, crashes>>

(***************************************************************************)
(* The server stops: transactions under way roll back, files stay as they  *)
(* are.                                                                    *)
(***************************************************************************)
Ended == {"none", "refused", "failed", "done"}
CrashMedia ==
    /\ crashes < MaxCrashes /\ crashes' = crashes + 1
    /\ upload' = [m \in Media |-> IF upload[m] \in Ended THEN upload[m] ELSE "failed"]
    /\ spoiled' = spoiled \cup {m \in Media : \E r \in Remover :
                                  rowHeld[m] = r /\ remover[r].phase = "unlinked"}
    /\ remover' = [r \in Remover |->
         IF remover[r].phase \in {"idle", "done", "failed"} THEN remover[r]
         ELSE [remover[r] EXCEPT !.phase = "failed"]]
    /\ rowHeld' = [m \in Media |-> NoMedia]
    /\ UNCHANGED <<file, row, truncated>>

\* ListMedia: the rows, whatever the disk holds.
ListMedia == {m \in Media : row[m] # "none"}

UploadStep(m) ==
    \/ AcceptUpload(m) \/ CopyFile(m) \/ BeginOptimizing(m) \/ OptimizeImage(m)
    \/ InsertMedia(m) \/ CommitUpload(m)
RemoverStep(r) ==
    \/ FindMedia(r) \/ DeleteRow(r) \/ DeleteFile(r) \/ CommitDelete(r) \/ FailRemover(r)
    \/ UpdateMediaMetadata(r) \/ CommitMetadata(r)
MediaNext ==
    \/ \E m \in Media : UploadStep(m)
    \/ \E r \in Remover : RemoverStep(r)
    \/ CrashMedia
MediaSpec == MediaInit /\ [][MediaNext]_mediaVars

(***************************************************************************)
(* Properties                                                              *)
(***************************************************************************)

\* The file of an item as its upload left it.
AsUploaded(m) == file[m] = "whole" \/ (file[m] = "partial" /\ m \in truncated)

\* What the library lists has the file that its upload left, whatever crashes or
\* fails, and that is the whole file unless writing the smaller one failed half-way;
\* but for an item whose delete has written its row and removed the file, and has
\* not committed or has failed to.  And no two requests hold the same row.
ListedHasFile ==
    /\ \A m \in ListMedia :
         \/ AsUploaded(m)
         \/ m \in spoiled
         \/ \E r \in Remover : rowHeld[m] = r /\ remover[r] = [phase |-> "unlinked", of |-> m]
    /\ \A r \in Remover : Cardinality({m \in Media : rowHeld[m] = r}) <= 1
=============================================================================
