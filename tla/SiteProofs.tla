----------------------------- MODULE SiteProofs ------------------------------
(* Theorems about the site's schema, its media, its desk for comments and        *)
(* broadcasts and its search, for any values of the constants; and that the site *)
(* with all its parts implements each of them, so that what is proved of a part   *)
(* holds in every behaviour of the site.                                       *)
EXTENDS MCSite, AccessProofs, ReaderProofs

-----------------------------------------------------------------------------
(* SchemaMigrations *)

(* The values of the variables.                                              *)
RunnerAt == {"stopped", "started", "next", "unlisted", "executed"}
MigrationTypes ==
  /\ recorded \subseteq MigrationFile /\ schema \subseteq MigrationFile
  /\ runner \in [Runner -> [at : RunnerAt, file : 1 .. LastFile + 1]]
  /\ \A r \in Runner : runner[r].at \in {"unlisted", "executed"} => runner[r].file <= LastFile
  /\ kept \subseteq Kind

(* What the runner relies on while it is alone: the schema has what is        *)
(* recorded, in order, and up to the file it has come to.                    *)
AloneInOrder ==
  /\ \A q, r \in Runner : Migrating(q) /\ Migrating(r) => q = r
  /\ recorded \subseteq schema
  /\ \A f \in schema : 1 .. f \subseteq schema
  /\ \A r \in Runner : runner[r].at \in {"next", "unlisted", "executed"} =>
       1 .. runner[r].file - 1 \subseteq schema
  /\ \A r \in Runner : runner[r].at = "executed" => runner[r].file \in schema
  /\ \A r \in Runner : runner[r].at = "unlisted" => runner[r].file \notin recorded
  /\ \A r \in Runner : runner[r].at \in {"next", "unlisted"} /\ runner[r].file = 1 =>
       (1 \in schema => 1 \in recorded)

(* And without a mishap every file but the first that has taken effect is     *)
(* recorded, or is about to be.                                              *)
Listed ==
  mishap = {} => \A f \in schema \ {1} :
    f \in recorded \/ \E r \in Runner : runner[r].at = "executed" /\ runner[r].file = f

MigrationInv ==
  MigrationTypes /\ (~Disturbed => AloneInOrder) /\ Listed /\ MigrationsKeep

(* The invariant holds of an empty database and of one set up by hand.        *)
LEMMA MigrationStart == MigrationInit => MigrationInv
<1> SUFFICES ASSUME MigrationInit PROVE MigrationInv
  OBVIOUS
<1> USE MigrationAssumption
<1>1. \A f \in schema : 1 .. f \subseteq schema
  BY DEF MigrationInit, MigrationFile
<1>2. \A r \in Runner : runner[r].at = "stopped" /\ runner[r].file = 1
  BY DEF MigrationInit, Stopped
<1>3. MigrationTypes
  BY DEF MigrationInit, MigrationTypes, MigrationFile, Stopped, RunnerAt
<1>4. AloneInOrder
  BY <1>1, <1>2 DEF AloneInOrder, Migrating, MigrationInit
<1>5. Listed /\ MigrationsKeep
  BY <1>1 DEF Listed, MigrationsKeep, MigrationInit
<1> QED
  BY <1>3, <1>4, <1>5 DEF MigrationInv

(* What a runner that goes on to another step leaves alone.                   *)
LEMMA GoesOn ==
  ASSUME MigrationTypes, NEW r \in Runner, NEW at \in RunnerAt,
         NEW f \in 1 .. LastFile + 1, Goes(r, at, f)
  PROVE  /\ runner' \in [Runner -> [at : RunnerAt, file : 1 .. LastFile + 1]]
         /\ runner'[r].at = at /\ runner'[r].file = f
         /\ \A q \in Runner \ {r} : runner'[q] = runner[q]
BY DEF MigrationTypes, Goes

(* A run begins: alone, or the overlap is noted.                              *)
LEMMA RunBegins ==
  ASSUME MigrationInv, NEW r \in Runner, StartRunner(r)
  PROVE  MigrationInv'
<1> USE MigrationAssumption DEF MigrationInv
<1>1. /\ runner' \in [Runner -> [at : RunnerAt, file : 1 .. LastFile + 1]]
      /\ runner'[r].at = "started" /\ runner'[r].file = 1
      /\ \A q \in Runner \ {r} : runner'[q] = runner[q]
  BY GoesOn DEF StartRunner, RunnerAt
<1>2. /\ UNCHANGED <<schema, kept, lost>>
      /\ recorded \ {1} \subseteq recorded' /\ recorded' \subseteq recorded
  BY DEF StartRunner
<1>3. /\ mishap \subseteq mishap'
      /\ ~Disturbed' => ~Disturbed /\ \A q \in Runner : ~Migrating(q)
  BY DEF StartRunner, Noted, Disturbed
<1>4. runner[r].at = "stopped"
  BY DEF StartRunner, Migrating
<1>5. MigrationTypes'
  BY <1>1, <1>2 DEF MigrationTypes
<1>6. ~Disturbed' => AloneInOrder'
  BY <1>1, <1>2, <1>3 DEF AloneInOrder, Migrating
<1>7. Listed'
  BY <1>1, <1>2, <1>3, <1>4 DEF Listed
<1>8. MigrationsKeep'
  BY <1>2, <1>3 DEF MigrationsKeep
<1> QED
  BY <1>5, <1>6, <1>7, <1>8

(* A run looks around: whether the tables are there, whether a file is listed. *)
LEMMA RunLooks ==
  ASSUME MigrationInv, NEW r \in Runner, RecordExisting(r) \/ LookUp(r)
  PROVE  MigrationInv'
<1> USE MigrationAssumption DEF MigrationInv
<1>1. CASE RecordExisting(r)
  <2>1. /\ runner' \in [Runner -> [at : RunnerAt, file : 1 .. LastFile + 1]]
        /\ runner'[r].at = "next" /\ runner'[r].file = 1
        /\ \A q \in Runner \ {r} : runner'[q] = runner[q]
    BY <1>1, GoesOn DEF RecordExisting, RunnerAt
  <2>2. /\ UNCHANGED <<schema, kept, lost>> /\ runner[r].at = "started"
        /\ mishap \subseteq mishap' /\ recorded \subseteq recorded' /\ recorded' \subseteq recorded \cup {1}
        /\ ~Disturbed' => recorded' = IF 1 \in schema THEN recorded \cup {1} ELSE recorded
    BY <1>1 DEF RecordExisting, Noted, Disturbed
  <2>3. MigrationTypes'
    BY <2>1, <2>2 DEF MigrationTypes, MigrationFile
  <2>4. ~Disturbed' => AloneInOrder'
    BY <2>1, <2>2 DEF AloneInOrder, Migrating, Disturbed
  <2>5. Listed' /\ MigrationsKeep'
    BY <2>1, <2>2, <2>4 DEF Listed, MigrationsKeep, Disturbed, AloneInOrder
  <2> QED
    BY <2>2, <2>3, <2>4, <2>5
<1>2. CASE LookUp(r)
  <2> DEFINE f == runner[r].file
  <2>1. /\ f \in 1 .. LastFile /\ f + 1 \in 1 .. LastFile + 1 /\ runner[r].at = "next"
        /\ UNCHANGED <<recorded, schema, kept, lost>>
        /\ mishap' = mishap \/ mishap' = mishap \cup {"misread"}
    BY <1>2 DEF LookUp, MigrationTypes, Noted
  <2>2. /\ runner' \in [Runner -> [at : RunnerAt, file : 1 .. LastFile + 1]]
        /\ \/ f \in recorded /\ runner'[r].at = "next" /\ runner'[r].file = f + 1
           \/ /\ runner'[r].at = "unlisted" /\ runner'[r].file = f
              /\ f \notin recorded \/ "misread" \in mishap'
        /\ \A q \in Runner \ {r} : runner'[q] = runner[q]
    BY <1>2, <2>1, GoesOn DEF LookUp, Noted, RunnerAt
  <2>3. MigrationTypes'
    BY <2>1, <2>2 DEF MigrationTypes
  <2>4. ASSUME AloneInOrder, ~Disturbed' PROVE AloneInOrder'
    <3>1. f \in recorded => 1 .. f \subseteq schema
      BY <2>4 DEF AloneInOrder
    <3>2. f + 1 - 1 = f
      BY <2>1
    <3> HIDE DEF f
    <3> QED
      BY <2>1, <2>2, <2>4, <3>1, <3>2 DEF AloneInOrder, Migrating, Disturbed, f
  <2>5. Listed' /\ MigrationsKeep'
    BY <2>1, <2>2 DEF Listed, MigrationsKeep, Disturbed
  <2> QED
    BY <2>1, <2>3, <2>4, <2>5 DEF Disturbed
<1> QED
  BY <1>1, <1>2

(* A file is executed.  A run that is alone executes the first one only where  *)
(* there are no tables, and another one again only when its record was lost.   *)
LEMMA FileExecuted ==
  ASSUME MigrationInv, NEW r \in Runner, Execute(r)
  PROVE  MigrationInv'
<1> USE MigrationAssumption DEF MigrationInv
<1> DEFINE f == runner[r].file
<1>1. f \in 1 .. LastFile /\ runner[r].at = "unlisted" /\ UNCHANGED <<recorded, mishap>>
  BY DEF Execute, MigrationTypes
<1>2. /\ runner' \in [Runner -> [at : RunnerAt, file : 1 .. LastFile + 1]]
      /\ runner'[r].at = "executed" /\ runner'[r].file = f
      /\ \A q \in Runner \ {r} : runner'[q] = runner[q]
  BY <1>1, GoesOn DEF Execute, RunnerAt
<1>3. /\ schema' = IF f = 1 THEN {1} ELSE schema \cup {f}
      /\ lost' = lost \cup (IF f \in schema THEN kept \cap DroppedBy(f) ELSE {})
      /\ kept' = kept \ DroppedBy(f)
  BY DEF Execute
<1> HIDE DEF f
<1>4. MigrationTypes'
  <2>1. kept' \subseteq Kind
    BY <1>3 DEF MigrationTypes
  <2>2. schema' \subseteq MigrationFile
    BY <1>1, <1>3 DEF MigrationTypes, MigrationFile
  <2>3. \A q \in Runner : runner'[q].at \in {"unlisted", "executed"} => runner'[q].file <= LastFile
    BY <1>1, <1>2 DEF MigrationTypes
  <2> QED
    BY <1>1, <1>2, <2>1, <2>2, <2>3 DEF MigrationTypes
<1>5. AloneInOrder /\ f = 1 => schema = {}
  <2> SUFFICES ASSUME AloneInOrder, f = 1 PROVE schema = {}
    OBVIOUS
  <2>1. 1 \notin schema
    BY <1>1 DEF AloneInOrder, f
  <2>2. \A x \in schema : 1 \in 1 .. x
    BY DEF MigrationTypes, MigrationFile
  <2> QED
    BY <2>1, <2>2 DEF AloneInOrder
<1>6. ASSUME AloneInOrder PROVE AloneInOrder'
  <2>1. 1 .. f - 1 \subseteq schema
    BY <1>1, <1>6 DEF AloneInOrder, f
  <2>2. 1 .. f \subseteq schema' /\ f \in schema' /\ schema \subseteq schema'
    BY <1>1, <1>3, <1>5, <1>6, <2>1
  <2>3. \A x \in schema' : 1 .. x \subseteq schema'
    BY <1>3, <1>6, <2>2 DEF AloneInOrder
  <2>4. \A q, p \in Runner : Migrating(q)' /\ Migrating(p)' => q = p
    BY <1>1, <1>2, <1>6 DEF AloneInOrder, Migrating
  <2>5. \A q \in Runner \ {r} : runner'[q].at = "stopped"
    BY <1>2, <2>4 DEF Migrating
  <2>6. recorded' \subseteq schema'
    BY <1>1, <1>6, <2>2 DEF AloneInOrder
  <2>7. 1 .. runner'[r].file - 1 \subseteq schema'
    BY <1>2, <2>1, <2>2
  <2> QED
    BY <1>2, <2>2, <2>3, <2>4, <2>5, <2>6, <2>7 DEF AloneInOrder
<1>7. Listed'
  <2> SUFFICES ASSUME mishap = {}, NEW x \in schema' \ {1}
               PROVE  x \in recorded \/ \E q \in Runner : runner'[q].at = "executed" /\ runner'[q].file = x
    BY <1>1 DEF Listed
  <2>1. CASE x = f
    BY <1>2, <2>1
  <2>2. CASE x # f
    <3>1. x \in schema \ {1}
      BY <1>3, <2>2
    <3>2. CASE x \in recorded
      BY <3>2
    <3>3. ASSUME NEW q \in Runner, runner[q].at = "executed", runner[q].file = x
          PROVE  runner'[q].at = "executed" /\ runner'[q].file = x
      <4>1. q # r
        BY <1>1, <3>3
      <4> QED
        BY <1>2, <3>3, <4>1
    <3> QED
      BY <3>1, <3>2, <3>3 DEF Listed
  <2> QED
    BY <2>1, <2>2
<1>8. "site" \in lost' => Disturbed'
  <2>1. "site" \in kept \cap DroppedBy(f) => f = 1
    BY DEF DroppedBy
  <2> QED
    BY <1>1, <1>3, <1>5, <2>1 DEF MigrationsKeep, Disturbed
<1>9. lost' # {} => mishap' # {}
  <2> SUFFICES ASSUME mishap = {}, f \in schema PROVE FALSE
    BY <1>1, <1>3 DEF MigrationsKeep
  <2>1. AloneInOrder
    BY DEF Disturbed
  <2>2. f \in schema \ {1}
    BY <1>5, <2>1
  <2>3. f \notin recorded
    BY <1>1, <2>1 DEF AloneInOrder, f
  <2>4. PICK q \in Runner : runner[q].at = "executed" /\ runner[q].file = f
    BY <2>2, <2>3 DEF Listed
  <2>5. q # r /\ Migrating(q) /\ Migrating(r)
    BY <1>1, <2>4 DEF Migrating
  <2> QED
    BY <2>1, <2>5 DEF AloneInOrder
<1>10. Disturbed' \/ (recorded' \subseteq schema' /\ \A x \in schema' : 1 .. x \subseteq schema')
  BY <1>1, <1>6 DEF AloneInOrder, Disturbed
<1> QED
  BY <1>1, <1>4, <1>6, <1>7, <1>8, <1>9, <1>10 DEF MigrationsKeep, Disturbed

(* A file is recorded.                                                        *)
LEMMA FileRecorded ==
  ASSUME MigrationInv, NEW r \in Runner, Record(r)
  PROVE  MigrationInv'
<1> USE MigrationAssumption DEF MigrationInv
<1> DEFINE f == runner[r].file
<1>1. /\ f \in 1 .. LastFile /\ f + 1 \in 1 .. LastFile + 1 /\ f + 1 - 1 = f
      /\ runner[r].at = "executed" /\ UNCHANGED <<schema, kept, lost>>
  BY DEF Record, MigrationTypes
<1>2. /\ runner' \in [Runner -> [at : RunnerAt, file : 1 .. LastFile + 1]]
      /\ runner'[r].at = "next" /\ runner'[r].file = f + 1
      /\ \A q \in Runner \ {r} : runner'[q] = runner[q]
  BY <1>1, GoesOn DEF Record, RunnerAt
<1>3. \/ recorded' = recorded \cup {f} /\ mishap' = mishap
      \/ recorded' = recorded /\ mishap' = mishap \cup {"unrecorded"}
  BY DEF Record, Noted
<1>4. MigrationTypes'
  BY <1>1, <1>2, <1>3 DEF MigrationTypes, MigrationFile
<1>5. ASSUME AloneInOrder PROVE AloneInOrder'
  <2>1. f \in schema /\ 1 .. f \subseteq schema
    BY <1>1, <1>5 DEF AloneInOrder
  <2>2. \A q, p \in Runner : Migrating(q)' /\ Migrating(p)' => q = p
    BY <1>1, <1>2, <1>5 DEF AloneInOrder, Migrating
  <2>3. \A q \in Runner \ {r} : runner'[q].at = "stopped"
    BY <1>2, <2>2 DEF Migrating
  <2> HIDE DEF f
  <2>4. recorded' \subseteq schema' /\ \A x \in schema' : 1 .. x \subseteq schema'
    BY <1>1, <1>3, <1>5, <2>1 DEF AloneInOrder
  <2>5. 1 .. runner'[r].file - 1 \subseteq schema' /\ runner'[r].file # 1
    BY <1>1, <1>2, <2>1
  <2> QED
    BY <1>2, <2>2, <2>3, <2>4, <2>5 DEF AloneInOrder
<1>6. Listed'
  <2> SUFFICES ASSUME mishap' = {}, NEW x \in schema \ {1}, x \notin recorded'
               PROVE  \E q \in Runner : runner'[q].at = "executed" /\ runner'[q].file = x
    BY <1>1 DEF Listed
  <2>1. PICK q \in Runner : runner[q].at = "executed" /\ runner[q].file = x
    BY <1>3 DEF Listed
  <2>2. q # r
    BY <1>3, <2>1
  <2> QED
    BY <1>2, <2>1, <2>2
<1>7. Disturbed' = Disturbed
  BY <1>3 DEF Disturbed
<1>8. MigrationsKeep'
  BY <1>1, <1>3, <1>5, <1>7 DEF MigrationsKeep, AloneInOrder
<1> QED
  BY <1>1, <1>4, <1>5, <1>6, <1>7, <1>8

(* A run ends; that it leaves a file unrecorded is noted.                     *)
LEMMA RunEnds ==
  ASSUME MigrationInv, NEW r \in Runner, Finish(r) \/ StopRunner(r)
  PROVE  MigrationInv'
<1> USE MigrationAssumption DEF MigrationInv
<1>1. UNCHANGED <<recorded, schema, kept, lost>>
  BY DEF Finish, StopRunner
<1>2. /\ runner' \in [Runner -> [at : RunnerAt, file : 1 .. LastFile + 1]]
      /\ runner'[r].at = "stopped" /\ runner'[r].file = 1
      /\ \A q \in Runner \ {r} : runner'[q] = runner[q]
  BY GoesOn DEF Finish, StopRunner, RunnerAt
<1>3. /\ mishap' \in {mishap, mishap \cup {"unrecorded"}}
      /\ runner[r].at = "executed" => mishap' # {}
  BY DEF Finish, StopRunner, Noted
<1>4. MigrationTypes'
  BY <1>1, <1>2 DEF MigrationTypes
<1>5. AloneInOrder => AloneInOrder'
  BY <1>1, <1>2 DEF AloneInOrder, Migrating
<1>6. Listed'
  BY <1>1, <1>2, <1>3 DEF Listed
<1>7. MigrationsKeep'
  BY <1>1, <1>3 DEF MigrationsKeep, Disturbed
<1> QED
  BY <1>3, <1>4, <1>5, <1>6, <1>7 DEF Disturbed

(* The site is used.                                                          *)
LEMMA SiteUsed ==
  ASSUME MigrationInv, Use
  PROVE  MigrationInv'
BY DEF MigrationInv, MigrationTypes, AloneInOrder, Listed, MigrationsKeep, Migrating, Disturbed, Use

(* No run of the migrations costs the site its articles, if none is overlapped  *)
(* by another or misinformed by the database; and none deletes policies and     *)
(* grants a second time, if also every file was recorded: for any number of     *)
(* files, runners and runs.                                                  *)
THEOREM MigrationsKeepHolds == MigrationSpec => []MigrationsKeep
<1>1. MigrationInv => MigrationsKeep
  BY DEF MigrationInv
<1>2. MigrationInv /\ [MigrationNext]_migrationVars => MigrationInv'
  <2> SUFFICES ASSUME MigrationInv, [MigrationNext]_migrationVars PROVE MigrationInv'
    OBVIOUS
  <2>1. CASE UNCHANGED migrationVars
    BY <2>1 DEF migrationVars, MigrationInv, MigrationTypes, AloneInOrder, Listed, MigrationsKeep, Migrating, Disturbed
  <2> QED
    BY <2>1, RunBegins, RunLooks, FileExecuted, FileRecorded, RunEnds, SiteUsed DEF MigrationNext
<1> QED
  BY <1>1, <1>2, MigrationStart, PTL DEF MigrationSpec

-----------------------------------------------------------------------------
(* MediaStore *)

(* The values of the variables, as far as the argument needs them.            *)
Work == [phase : {"idle", "found", "deleted", "unlinked", "described", "done", "failed"},
         of : Media \cup {NoMedia}]
MediaTypes ==
  /\ file \in [Media -> {"none", "partial", "whole"}]
  /\ row \in [Media -> {"none", "plain", "described"}]
  /\ upload \in [Media -> {"none", "refused", "created", "copied", "optimizing", "stored",
                           "inserted", "done", "failed"}]
  /\ remover \in [Remover -> Work]
  /\ rowHeld \in [Media -> Remover \cup {NoMedia}]

(* A row comes from an upload that is over, which left its file.              *)
RowsFromUploads ==
  /\ \A m \in Media : row[m] # "none" => upload[m] = "done"
  /\ \A m \in Media : upload[m] \in {"copied", "stored", "inserted"} => AsUploaded(m)
  /\ \A m \in Media : upload[m] = "optimizing" => file[m] = "partial"

(* A row is held by a request at work on it, and a delete that has written    *)
(* the row holds it as long as it is there.                                  *)
HeldAtWork ==
  /\ \A m \in Media, r \in Remover : rowHeld[m] = r =>
       /\ remover[r].of = m /\ remover[r].phase \in {"deleted", "unlinked", "described"}
       /\ row[m] # "none"
  /\ \A r \in Remover : remover[r].phase \in {"found", "deleted", "unlinked"} =>
       /\ remover[r].of \in Media /\ upload[remover[r].of] = "done"
  /\ \A r \in Remover : remover[r].phase \in {"deleted", "unlinked"} =>
       (row[remover[r].of] # "none" => rowHeld[remover[r].of] = r)

(* The first part of ListedHasFile.                                           *)
HasFile ==
  \A m \in Media : row[m] # "none" =>
    \/ AsUploaded(m)
    \/ m \in spoiled
    \/ \E r \in Remover : rowHeld[m] = r /\ remover[r].phase = "unlinked"

MediaInv == MediaTypes /\ RowsFromUploads /\ HeldAtWork /\ HasFile

(* The empty library.                                                         *)
LEMMA MediaStart == MediaInit => MediaInv
BY MediaAssumption
   DEF MediaInit, MediaInv, MediaTypes, RowsFromUploads, AsUploaded, HeldAtWork, HasFile, NoRemover, Work

(* A request at work that enters another phase.                               *)
LEMMA WorkGoesOn ==
  ASSUME MediaTypes, NEW r \in Remover,
         NEW phase \in {"deleted", "unlinked", "done", "failed"}, AtWork(r, phase)
  PROVE  /\ remover' \in [Remover -> Work]
         /\ remover'[r].phase = phase /\ remover'[r].of = remover[r].of
         /\ \A q \in Remover \ {r} : remover'[q] = remover[q]
BY DEF MediaTypes, AtWork, Work

(* Uploading touches no row but its own, and none before its file is stored.  *)
LEMMA Uploads ==
  ASSUME MediaInv, NEW m \in Media, UploadStep(m)
  PROVE  MediaInv'
<1> USE DEF MediaInv
<1>1. /\ UNCHANGED <<remover, rowHeld, spoiled>>
      /\ truncated \subseteq truncated' /\ truncated' \subseteq truncated \cup {m}
  BY DEF UploadStep, AcceptUpload, CopyFile, BeginOptimizing, OptimizeImage, InsertMedia, CommitUpload
<1>2. MediaTypes'
  BY <1>1 DEF MediaTypes, UploadStep, AcceptUpload, CopyFile, BeginOptimizing, OptimizeImage,
     InsertMedia, CommitUpload, Uploading, OnDisk
<1>3. /\ upload[m] # "done" /\ \A x \in Media \ {m} :
           upload'[x] = upload[x] /\ file'[x] = file[x] /\ row'[x] = row[x]
      /\ row'[m] = row[m] \/ (upload[m] = "inserted" /\ upload'[m] = "done" /\ file'[m] = file[m]
                              /\ AsUploaded(m))
  BY DEF MediaTypes, RowsFromUploads, UploadStep, AcceptUpload, CopyFile, BeginOptimizing,
     OptimizeImage, InsertMedia, CommitUpload, Uploading, OnDisk
<1>4. upload'[m] \in {"copied", "stored", "inserted"} => AsUploaded(m)'
  <2>1. CASE OptimizeImage(m)
    <3>1. file[m] = "partial"
      BY <2>1 DEF OptimizeImage, RowsFromUploads
    <3> QED
      BY <2>1, <3>1 DEF OptimizeImage, MediaTypes, OnDisk, AsUploaded
  <2>2. CASE AcceptUpload(m) \/ CopyFile(m) \/ BeginOptimizing(m) \/ InsertMedia(m) \/ CommitUpload(m)
    BY <1>1, <2>2 DEF AcceptUpload, CopyFile, BeginOptimizing, InsertMedia, CommitUpload, Uploading,
       OnDisk, MediaTypes, RowsFromUploads, AsUploaded
  <2> QED
    BY <2>1, <2>2 DEF UploadStep
<1>5. upload'[m] = "optimizing" => file'[m] = "partial"
  BY DEF UploadStep, AcceptUpload, CopyFile, BeginOptimizing, OptimizeImage, InsertMedia,
     CommitUpload, Uploading, OnDisk, MediaTypes
<1>6. row[m] = "none"
  BY <1>3 DEF RowsFromUploads
<1>7. /\ \A x \in Media \ {m} : AsUploaded(x) => AsUploaded(x)'
      /\ row'[m] # "none" => AsUploaded(m)'
  BY <1>1, <1>3, <1>6 DEF AsUploaded
<1>8. RowsFromUploads'
  BY <1>3, <1>4, <1>5, <1>6, <1>7 DEF RowsFromUploads
<1>9. HeldAtWork'
  BY <1>1, <1>3, <1>6 DEF HeldAtWork
<1>10. HasFile'
  BY <1>1, <1>3, <1>7 DEF HasFile
<1> QED
  BY <1>2, <1>8, <1>9, <1>10

(* A request finds an item, or writes its row.                                *)
LEMMA TakesRow ==
  ASSUME MediaInv, NEW r \in Remover, FindMedia(r) \/ DeleteRow(r) \/ UpdateMediaMetadata(r)
  PROVE  MediaInv'
<1> USE MediaAssumption DEF MediaInv
<1>1. UNCHANGED <<file, row, upload, spoiled, truncated>>
  BY DEF FindMedia, DeleteRow, UpdateMediaMetadata
<1>2. \A m \in Media : rowHeld[m] # r
  BY DEF HeldAtWork, FindMedia, DeleteRow, UpdateMediaMetadata
<1>3. CASE FindMedia(r)
  <2>1. PICK m \in Media : row[m] # "none" /\ remover' = [remover EXCEPT ![r] = [phase |-> "found", of |-> m]]
    BY <1>3 DEF FindMedia
  <2>2. /\ remover' \in [Remover -> Work] /\ remover'[r] = [phase |-> "found", of |-> m]
        /\ \A q \in Remover \ {r} : remover'[q] = remover[q]
    BY <2>1 DEF MediaTypes, Work
  <2>3. rowHeld' = rowHeld
    BY <1>3 DEF FindMedia
  <2> QED
    BY <1>1, <1>2, <2>1, <2>2, <2>3 DEF MediaTypes, RowsFromUploads, AsUploaded, HeldAtWork, HasFile
<1>4. CASE DeleteRow(r)
  <2> DEFINE m == remover[r].of
  <2>1. m \in Media /\ upload[m] = "done" /\ rowHeld[m] = NoMedia /\ remover[r].phase = "found"
    BY <1>4 DEF DeleteRow, HeldAtWork
  <2>2. /\ remover' \in [Remover -> Work] /\ remover'[r].phase = "deleted" /\ remover'[r].of = m
        /\ \A q \in Remover \ {r} : remover'[q] = remover[q]
    BY <1>4, WorkGoesOn DEF DeleteRow
  <2>3. /\ rowHeld' \in [Media -> Remover \cup {NoMedia}]
        /\ rowHeld'[m] = IF row[m] = "none" THEN NoMedia ELSE r
        /\ \A x \in Media \ {m} : rowHeld'[x] = rowHeld[x]
    BY <1>4, <2>1 DEF DeleteRow, MediaTypes
  <2> HIDE DEF m
  <2>4. HeldAtWork'
    BY <1>1, <1>2, <2>1, <2>2, <2>3 DEF HeldAtWork
  <2>5. HasFile'
    BY <1>1, <1>2, <2>1, <2>2, <2>3 DEF HasFile, AsUploaded
  <2> QED
    BY <1>1, <2>2, <2>3, <2>4, <2>5 DEF MediaTypes, RowsFromUploads, AsUploaded
<1>5. CASE UpdateMediaMetadata(r)
  <2>1. PICK m \in Media :
          /\ rowHeld[m] = NoMedia
          /\ remover' = [remover EXCEPT ![r] = [phase |-> "described", of |-> m]]
          /\ rowHeld' = IF row[m] = "none" THEN rowHeld ELSE [rowHeld EXCEPT ![m] = r]
    BY <1>5 DEF UpdateMediaMetadata
  <2>2. /\ remover' \in [Remover -> Work] /\ remover'[r] = [phase |-> "described", of |-> m]
        /\ \A q \in Remover \ {r} : remover'[q] = remover[q]
    BY <2>1 DEF MediaTypes, Work
  <2>3. /\ rowHeld' \in [Media -> Remover \cup {NoMedia}]
        /\ rowHeld'[m] = IF row[m] = "none" THEN NoMedia ELSE r
        /\ \A x \in Media \ {m} : rowHeld'[x] = rowHeld[x]
    BY <2>1 DEF MediaTypes
  <2>4. HeldAtWork'
    BY <1>1, <1>2, <2>1, <2>2, <2>3 DEF HeldAtWork
  <2>5. HasFile'
    BY <1>1, <1>2, <2>1, <2>2, <2>3 DEF HasFile, AsUploaded
  <2> QED
    BY <1>1, <2>2, <2>3, <2>4, <2>5 DEF MediaTypes, RowsFromUploads, AsUploaded
<1> QED
  BY <1>3, <1>4, <1>5

(* A delete removes the file: it holds the row, if there is one.              *)
LEMMA FileDeleted ==
  ASSUME MediaInv, NEW r \in Remover, DeleteFile(r)
  PROVE  MediaInv'
<1> USE MediaAssumption DEF MediaInv
<1> DEFINE m == remover[r].of
<1>1. m = remover[r].of /\ m \in Media /\ upload[m] = "done" /\ remover[r].phase = "deleted"
  BY DEF DeleteFile, HeldAtWork
<1>2. /\ remover' \in [Remover -> Work] /\ remover'[r].phase = "unlinked" /\ remover'[r].of = m
      /\ \A q \in Remover \ {r} : remover'[q] = remover[q]
  BY WorkGoesOn DEF DeleteFile
<1>3. UNCHANGED <<row, upload, rowHeld, spoiled, truncated>>
  BY DEF DeleteFile
<1>4. file' \in [Media -> {"none", "partial", "whole"}] /\ \A x \in Media \ {m} : file'[x] = file[x]
  BY <1>1 DEF DeleteFile, MediaTypes
<1>5. row[m] # "none" => rowHeld[m] = r
  BY <1>1 DEF HeldAtWork
<1> HIDE DEF m
<1>6. HasFile'
  BY <1>2, <1>3, <1>4, <1>5 DEF HasFile, AsUploaded
<1>7. HeldAtWork'
  BY <1>1, <1>2, <1>3, <1>5 DEF HeldAtWork
<1>8. RowsFromUploads'
  BY <1>1, <1>3, <1>4 DEF RowsFromUploads, AsUploaded
<1> QED
  BY <1>2, <1>3, <1>4, <1>6, <1>7, <1>8 DEF MediaTypes

(* A request ends and lets go of its row.                                     *)
LEMMA WorkEnds ==
  ASSUME MediaInv, NEW r \in Remover, CommitDelete(r) \/ FailRemover(r) \/ CommitMetadata(r)
  PROVE  MediaInv'
<1> USE MediaAssumption DEF MediaInv
<1>1. PICK phase \in {"done", "failed"} : AtWork(r, phase)
  BY DEF CommitDelete, FailRemover, CommitMetadata
<1>2. /\ remover' \in [Remover -> Work] /\ remover'[r].phase = phase
      /\ \A q \in Remover \ {r} : remover'[q] = remover[q]
  BY <1>1, WorkGoesOn
<1>3. UNCHANGED <<file, upload, truncated>> /\ spoiled \subseteq spoiled'
  BY DEF CommitDelete, FailRemover, CommitMetadata
<1>4. rowHeld' = Release(r)
  BY DEF CommitDelete, FailRemover, CommitMetadata
<1>5. /\ rowHeld' \in [Media -> Remover \cup {NoMedia}]
      /\ \A m \in Media : rowHeld'[m] = IF rowHeld[m] = r THEN NoMedia ELSE rowHeld[m]
  BY <1>4 DEF Release, MediaTypes
<1>6. /\ row' \in [Media -> {"none", "plain", "described"}]
      /\ \A m \in Media : rowHeld[m] # r => row'[m] = row[m]
      /\ \A m \in Media : row'[m] # "none" => row[m] # "none"
  BY DEF CommitDelete, FailRemover, CommitMetadata, MediaTypes, HeldAtWork
<1>7. HeldAtWork'
  BY <1>2, <1>3, <1>5, <1>6 DEF HeldAtWork
<1>8. \A m \in Media : rowHeld[m] = r /\ row'[m] # "none" => AsUploaded(m) \/ m \in spoiled'
  <2> SUFFICES ASSUME NEW m \in Media, rowHeld[m] = r, row'[m] # "none", ~AsUploaded(m),
                      m \notin spoiled
               PROVE  m \in spoiled'
    BY <1>3
  <2>1. remover[r].phase = "unlinked" /\ remover[r].of = m
    BY <1>6 DEF HasFile, AsUploaded, HeldAtWork
  <2>2. CASE FailRemover(r)
    BY <2>1, <2>2 DEF FailRemover
  <2>3. CASE CommitDelete(r)
    BY <2>3 DEF CommitDelete
  <2>4. CASE CommitMetadata(r)
    BY <2>1, <2>4 DEF CommitMetadata
  <2> QED
    BY <2>2, <2>3, <2>4
<1>9. HasFile'
  BY <1>2, <1>3, <1>5, <1>6, <1>8 DEF HasFile, AsUploaded
<1>10. RowsFromUploads'
  BY <1>3, <1>6 DEF RowsFromUploads, AsUploaded
<1> QED
  BY <1>2, <1>3, <1>5, <1>6, <1>7, <1>9, <1>10 DEF MediaTypes

(* The server stops.                                                          *)
LEMMA MediaCrash ==
  ASSUME MediaInv, CrashMedia
  PROVE  MediaInv'
<1> USE MediaAssumption DEF MediaInv
<1>1. UNCHANGED <<file, row, truncated>> /\ spoiled \subseteq spoiled'
  BY DEF CrashMedia
<1>2. /\ rowHeld' \in [Media -> Remover \cup {NoMedia}]
      /\ \A m \in Media : rowHeld'[m] = NoMedia
  BY DEF CrashMedia
<1>3. \A r \in Remover :
        /\ remover'[r] \in Work
        /\ remover'[r].phase \in {"idle", "done", "failed"}
  BY DEF CrashMedia, MediaTypes, Work
<1>4. remover' \in [Remover -> Work]
  BY <1>3 DEF CrashMedia
<1>5. \A m \in Media : /\ upload'[m] = IF upload[m] \in Ended THEN upload[m] ELSE "failed"
                       /\ upload[m] = "done" => upload'[m] = "done"
                       /\ upload'[m] \notin {"copied", "stored", "inserted", "optimizing"}
  BY DEF CrashMedia, MediaTypes, Ended
<1>6. MediaTypes'
  BY <1>1, <1>2, <1>4, <1>5 DEF MediaTypes, CrashMedia
<1>7. RowsFromUploads'
  BY <1>1, <1>5 DEF RowsFromUploads, AsUploaded
<1>8. HeldAtWork'
  BY <1>2, <1>3 DEF HeldAtWork
<1>9. HasFile'
  BY <1>1 DEF HasFile, AsUploaded, CrashMedia
<1> QED
  BY <1>6, <1>7, <1>8, <1>9

(* The invariant gives both parts of ListedHasFile: a request holds only the  *)
(* row of the item it is at work on.                                         *)
LEMMA MediaInvListed == MediaInv => ListedHasFile
<1> SUFFICES ASSUME MediaInv PROVE ListedHasFile
  OBVIOUS
<1> USE DEF MediaInv
<1>1. ASSUME NEW m \in ListMedia
      PROVE  \/ AsUploaded(m)
             \/ m \in spoiled
             \/ \E r \in Remover : rowHeld[m] = r /\ remover[r] = [phase |-> "unlinked", of |-> m]
  <2>1. \A r \in Remover : rowHeld[m] = r /\ remover[r].phase = "unlinked"
          => remover[r] = [phase |-> "unlinked", of |-> m]
    BY DEF HeldAtWork, MediaTypes, Work, ListMedia
  <2> QED
    BY <2>1 DEF HasFile, AsUploaded, ListMedia
<1>2. ASSUME NEW r \in Remover
      PROVE  Cardinality({m \in Media : rowHeld[m] = r}) <= 1
  <2>1. {m \in Media : rowHeld[m] = r} \subseteq {remover[r].of}
    BY DEF HeldAtWork
  <2>2. IsFiniteSet({remover[r].of}) /\ Cardinality({remover[r].of}) = 1
    BY FS_Singleton
  <2> QED
    BY <2>1, <2>2, FS_Subset
<1> QED
  BY <1>1, <1>2 DEF ListedHasFile

(* Whatever fails and whenever the server stops, the library lists no item    *)
(* without the file that its upload left, whole or, if writing it smaller     *)
(* failed, cut off; but for one whose delete has failed or is about to commit, *)
(* for any number of items and requests.                                     *)
THEOREM ListedHasFileHolds == MediaSpec => []ListedHasFile
<1>1. MediaInv /\ [MediaNext]_mediaVars => MediaInv'
  <2> SUFFICES ASSUME MediaInv, [MediaNext]_mediaVars PROVE MediaInv'
    OBVIOUS
  <2>1. CASE UNCHANGED mediaVars
    BY <2>1 DEF mediaVars, MediaInv, MediaTypes, RowsFromUploads, AsUploaded, HeldAtWork, HasFile
  <2> QED
    BY <2>1, Uploads, TakesRow, FileDeleted, WorkEnds, MediaCrash DEF MediaNext, RemoverStep
<1> QED
  BY <1>1, MediaStart, MediaInvListed, PTL DEF MediaSpec

-----------------------------------------------------------------------------
(* ReaderDesk *)

DeskOps == {"none", "refused", "nothing", "comment", "moderate", "delete article", "feedback",
            "review", "subscribe", "unsubscribe"}
AskRecord == [op : DeskOps, on : Asker \cup {NoAsker}, at : Article \cup {NoArticle}]
Approved == [status |-> "approved", is_approved |-> TRUE]
DeskTypes ==
  /\ ask \in [Asker -> AskRecord]
  /\ articles \subseteq Article /\ posted \subseteq Asker
  /\ comments \in [Asker -> {NoRow, Approved}]
  /\ articleOf \in [Asker -> Article \cup {NoArticle}]
  /\ parentOf \in [Asker -> Asker \cup {NoAsker}]
  /\ rests \in [Asker -> SUBSET Article]
  /\ broadcasts \in Seq(Caster) /\ pushed \in Seq(Caster)

(* A comment has its row as long as what it rests on is there: its article and  *)
(* what its parent rests on.                                                 *)
RowsRest ==
  \A a \in Asker :
    /\ HasRow(a) <=> a \in posted /\ rests[a] \subseteq articles
    /\ a \in posted => /\ articleOf[a] \in Article
                       /\ rests[a] = RestsOn(articleOf[a], parentOf[a])
                       /\ parentOf[a] \in posted \cup {NoAsker}

(* A comment being added keeps its article and its parent, that nobody deletes;  *)
(* and nobody moderates.                                                     *)
CommentsHeld ==
  \A a \in Asker :
    /\ ask[a].op # "moderate"
    /\ ask[a].op = "comment" =>
         /\ a \notin posted /\ ask[a].at \in articles
         /\ ask[a].on = NoAsker \/ (ask[a].on \in Asker /\ HasRow(ask[a].on))
         /\ \A b \in Asker : ask[b].op = "delete article" =>
              ask[b].at \notin RestsOn(ask[a].at, ask[a].on)

DeskInv == DeskTypes /\ RowsRest /\ CommentsHeld /\ BroadcastsKept

(* The list shows the rows, and so what was posted and rests on what is there.   *)
LEMMA RowsListed == DeskInv => CommentsStay
<1> SUFFICES ASSUME DeskInv PROVE CommentsStay
  OBVIOUS
<1> USE DEF DeskInv
<1>1. ASSUME NEW x, NEW a \in Asker
      PROVE  a \in ListApprovedComments(x) <=> HasRow(a) /\ articleOf[a] = x
  BY DEF ListApprovedComments, HasRow, DeskTypes, NoRow, Approved
<1> SUFFICES ASSUME NEW x \in Article, NEW a \in Asker
             PROVE  a \in ListApprovedComments(x) <=>
                      a \in posted /\ articleOf[a] = x /\ x \in articles /\ ParentListed(a)
  BY DEF CommentsStay
<1>2. CASE a \notin posted
  BY <1>1, <1>2 DEF RowsRest
<1>3. CASE a \in posted
  <2> DEFINE p == parentOf[a]
  <2>1. p \in Asker => (ParentListed(a) <=> HasRow(p))
    BY <1>1, ReaderAssumption DEF ParentListed
  <2>2. p = NoAsker => ParentListed(a)
    BY DEF ParentListed
  <2>3. /\ p = NoAsker \/ (p \in Asker /\ p \in posted)
        /\ rests[a] = {articleOf[a]} \cup (IF p = NoAsker THEN {} ELSE rests[p])
    BY <1>3 DEF RowsRest, RestsOn, DeskTypes
  <2>4. rests[a] \subseteq articles <=> articleOf[a] \in articles /\ ParentListed(a)
    BY <2>1, <2>2, <2>3, ReaderAssumption DEF RowsRest
  <2> QED
    BY <1>1, <1>3, <2>4 DEF RowsRest
<1> QED
  BY <1>2, <1>3

(* Nothing has been sent yet.                                                *)
LEMMA DeskStart == ReaderInit => DeskInv
<1> SUFFICES ASSUME ReaderInit PROVE DeskInv
  OBVIOUS
<1>1. DeskTypes
  BY DEF ReaderInit, DeskTypes, NoAsk, AskRecord, DeskOps
<1>2. CommentsHeld /\ RowsRest
  BY DEF ReaderInit, CommentsHeld, RowsRest, HasRow, NoAsk
<1>3. BroadcastsKept
  BY DEF ReaderInit, BroadcastsKept
<1> QED
  BY <1>1, <1>2, <1>3 DEF DeskInv

(* A statement of a request, which changes no comment yet.                    *)
LEMMA StatementDone ==
  ASSUME DeskInv, NEW a \in Asker, NEW op \in DeskOps \ {"moderate"},
         NEW on \in Asker \cup {NoAsker}, NEW x \in Article \cup {NoArticle},
         WrittenAt(a, op, on, x), UNCHANGED <<commentVars, castVars>>,
         op = "comment" =>
           /\ a \notin posted /\ x \in articles
           /\ on = NoAsker \/ (on \in Asker /\ HasRow(on))
           /\ \A b \in Asker : ask[b].op = "delete article" => ask[b].at \notin RestsOn(x, on),
         op = "delete article" =>
           \A b \in Asker : ask[b].op = "comment" => x \notin RestsOn(ask[b].at, ask[b].on)
  PROVE  DeskInv'
<1> USE DEF DeskInv
<1>1. /\ ask' \in [Asker -> AskRecord]
      /\ ask'[a].op = op /\ ask'[a].on = on /\ ask'[a].at = x
      /\ \A b \in Asker \ {a} : ask'[b] = ask[b]
  BY DEF WrittenAt, DeskTypes, AskRecord
<1>2. UNCHANGED <<articles, comments, articleOf, parentOf, rests, posted, broadcasts, pushed>>
  BY DEF commentVars, castVars
<1>3. DeskTypes'
  BY <1>1, <1>2 DEF DeskTypes
<1>4. CommentsHeld'
  <2> SUFFICES ASSUME NEW c \in Asker
               PROVE  /\ ask'[c].op # "moderate"
                      /\ ask'[c].op = "comment" =>
                           /\ c \notin posted /\ ask'[c].at \in articles
                           /\ ask'[c].on = NoAsker \/ (ask'[c].on \in Asker /\ HasRow(ask'[c].on))
                           /\ \A b \in Asker : ask'[b].op = "delete article" =>
                                ask'[b].at \notin RestsOn(ask'[c].at, ask'[c].on)
    BY <1>2 DEF CommentsHeld, HasRow, RestsOn
  <2>1. CASE c = a
    BY <1>1, <2>1
  <2>2. CASE c # a
    BY <1>1, <2>2 DEF CommentsHeld
  <2> QED
    BY <2>1, <2>2
<1>5. RowsRest' /\ BroadcastsKept'
  BY <1>2 DEF RowsRest, HasRow, RestsOn, BroadcastsKept
<1> QED
  BY <1>3, <1>4, <1>5

(* A comment is added to an article that is there.                            *)
LEMMA CommentAdded ==
  ASSUME DeskInv, NEW a \in Asker, AddComment(a)
  PROVE  DeskInv'
<1>1. PICK x \in Article, parent \in (Asker \ {a}) \cup {NoAsker} :
        /\ \A b \in Asker : ask[b].op = "delete article" => ask[b].at \notin RestsOn(x, parent)
        /\ IF x \in articles /\ (parent = NoAsker \/ HasRow(parent))
           THEN WrittenAt(a, "comment", parent, x) ELSE Refuse(a)
  BY DEF AddComment
<1>2. UNCHANGED <<commentVars, castVars>> /\ a \notin posted
  BY DEF AddComment, Asking
<1>3. CASE x \in articles /\ (parent = NoAsker \/ HasRow(parent))
  BY <1>1, <1>2, <1>3, StatementDone DEF DeskOps
<1>4. CASE Refuse(a)
  BY <1>2, <1>4, StatementDone DEF Refuse, Written, DeskOps
<1> QED
  BY <1>1, <1>3, <1>4

(* Any other statement.  That of a moderator fails.                           *)
LEMMA OtherStatements ==
  ASSUME DeskInv, NEW a \in Asker,
         \/ ModerateComment(a) \/ DeleteCommentedArticle(a) \/ SubmitFeedback(a)
         \/ UpdateFeedbackStatus(a) \/ Subscribe(a) \/ Unsubscribe(a)
         \/ SavePushSubscription(a) \/ Vote(a)
  PROVE  DeskInv'
<1>1. UNCHANGED <<commentVars, castVars>>
  BY DEF ModerateComment, DeleteCommentedArticle, SubmitFeedback, UpdateFeedbackStatus,
         Subscribe, Unsubscribe, SavePushSubscription, Vote, Asking
<1>2. ~DeskRuns({"comments.moderated_by", "comments.updated_at"})
  BY DEF DeskRuns, DeskLacks
<1> DEFINE Does == \E op \in DeskOps \ {"moderate", "comment", "delete article"},
                      on \in Asker \cup {NoAsker} : WrittenAt(a, op, on, NoArticle)
<1>3. ASSUME ~DeleteCommentedArticle(a) PROVE Does
  <2>1. Refuse(a) => Does
    BY DEF Refuse, Written, DeskOps
  <2>2. Written(a, "nothing", NoAsker) \/ Written(a, "subscribe", NoAsker)
          \/ Written(a, "unsubscribe", NoAsker) => Does
    BY DEF Written, DeskOps
  <2>3. (\E b \in Asker : Written(a, "feedback", b) \/ Written(a, "review", b)) => Does
    BY DEF Written, DeskOps
  <2>4. CASE ModerateComment(a)
    BY <1>2, <2>1, <2>4 DEF ModerateComment
  <2>5. CASE SubmitFeedback(a) \/ UpdateFeedbackStatus(a)
    BY <2>2, <2>3, <2>5 DEF SubmitFeedback, UpdateFeedbackStatus
  <2>6. CASE Subscribe(a) \/ Unsubscribe(a)
    BY <2>2, <2>6 DEF Subscribe, Unsubscribe
  <2>7. CASE SavePushSubscription(a) \/ Vote(a)
    BY <2>1, <2>2, <2>7 DEF SavePushSubscription, Vote
  <2> QED
    BY <1>3, <2>4, <2>5, <2>6, <2>7
<1>4. CASE DeleteCommentedArticle(a)
  <2>1. PICK x \in articles :
          /\ WrittenAt(a, "delete article", NoAsker, x)
          /\ \A b \in Asker : ask[b].op = "comment" => x \notin RestsOn(ask[b].at, ask[b].on)
    BY <1>4 DEF DeleteCommentedArticle
  <2>2. x \in Article
    BY DEF DeskInv, DeskTypes
  <2> QED
    BY <1>1, <2>1, <2>2, StatementDone DEF DeskOps
<1> QED
  BY <1>1, <1>3, <1>4, StatementDone

(* A request that is rolled back leaves nothing.                              *)
LEMMA DeskRolledBack ==
  ASSUME DeskInv, NEW a \in Asker, RollbackDesk(a)
  PROVE  DeskInv'
<1>1. UNCHANGED <<commentVars, castVars>> /\ WrittenAt(a, "none", NoAsker, NoArticle)
  BY DEF RollbackDesk, WrittenAt, NoAsk
<1> QED
  BY <1>1, StatementDone DEF DeskOps

(* A commit.  The article of a comment is there, and so is its parent.        *)
LEMMA DeskCommitted ==
  ASSUME DeskInv, NEW a \in Asker, CommitDesk(a)
  PROVE  DeskInv'
<1> USE DEF DeskInv
<1>1. /\ ask' \in [Asker -> AskRecord] /\ ask'[a].op = "none"
      /\ \A b \in Asker \ {a} : ask'[b] = ask[b]
  BY DEF CommitDesk, NoAsk, DeskTypes, AskRecord, DeskOps
<1>2. UNCHANGED <<broadcasts, pushed>>
  BY DEF CommitDesk, castVars
<1>3. BroadcastsKept'
  BY <1>2 DEF BroadcastsKept
<1>4. ask[a].op # "moderate"
  BY DEF CommentsHeld
<1>8. PICK x, on : x = ask[a].at /\ on = ask[a].on
  OBVIOUS
<1>5. CASE ask[a].op = "comment"
  <2>1. /\ articles' = articles /\ posted' = posted \cup {a}
        /\ articleOf' = [articleOf EXCEPT ![a] = x] /\ parentOf' = [parentOf EXCEPT ![a] = on]
        /\ rests' = [rests EXCEPT ![a] = RestsOn(x, on)]
        /\ comments' = [comments EXCEPT ![a] = Approved]
    <3>1. comments' = [comments EXCEPT ![a] = Approved]
      BY <1>5 DEF CommitDesk, Approved
    <3> QED
      BY <1>5, <1>8, <3>1 DEF CommitDesk
  <2>2. /\ a \notin posted /\ x \in articles
        /\ on = NoAsker \/ (on \in Asker /\ HasRow(on))
    BY <1>5, <1>8 DEF CommentsHeld
  <2>3. RestsOn(x, on) \subseteq articles /\ (on # NoAsker => on \in posted)
    BY <2>2 DEF RestsOn, RowsRest
  <2>4. DeskTypes'
    BY <1>1, <1>2, <2>1, <2>2, <2>3 DEF DeskTypes, AskRecord
  <2>5. /\ \A b \in Asker \ {a} : /\ rests'[b] = rests[b] /\ articleOf'[b] = articleOf[b]
                                /\ parentOf'[b] = parentOf[b] /\ comments'[b] = comments[b]
        /\ comments'[a] = Approved /\ articleOf'[a] = x /\ parentOf'[a] = on
        /\ rests'[a] = RestsOn(x, on)
    BY <2>1 DEF DeskTypes
  <2>6. \A y, b : b # a /\ b \in Asker \cup {NoAsker} => RestsOn(y, b)' = RestsOn(y, b)
    BY <2>5 DEF RestsOn
  <2>7. on # a /\ on \in Asker \cup {NoAsker}
    BY <2>2, <2>3, ReaderAssumption
  <2>8. RowsRest'
    <3> SUFFICES ASSUME NEW b \in Asker
                 PROVE  (/\ HasRow(b) <=> b \in posted /\ rests[b] \subseteq articles
                         /\ b \in posted => /\ articleOf[b] \in Article
                                            /\ rests[b] = RestsOn(articleOf[b], parentOf[b])
                                            /\ parentOf[b] \in posted \cup {NoAsker})'
      BY DEF RowsRest
    <3>1. CASE b = a
      <4>1. HasRow(a)'
        BY <2>5 DEF HasRow, NoRow, Approved
      <4>2. RestsOn(x, on)' = RestsOn(x, on)
        BY <2>5, <2>7 DEF RestsOn
      <4> QED
        BY <2>1, <2>2, <2>3, <2>5, <3>1, <4>1, <4>2 DEF DeskTypes
    <3>2. CASE b # a
      <4>1. HasRow(b)' <=> HasRow(b)
        BY <2>5, <3>2 DEF HasRow
      <4>2. CASE b \notin posted
        BY <2>1, <3>2, <4>1, <4>2 DEF RowsRest
      <4>3. CASE b \in posted
        <5>1. /\ parentOf[b] # a /\ parentOf[b] \in Asker \cup {NoAsker}
              /\ rests[b] = RestsOn(articleOf[b], parentOf[b])
          BY <2>2, <4>3, ReaderAssumption DEF RowsRest, DeskTypes
        <5>2. rests'[b] = RestsOn(articleOf[b], parentOf[b])'
          BY <2>5, <2>6, <3>2, <5>1
        <5> QED
          BY <2>1, <2>5, <3>2, <4>1, <4>3, <5>2 DEF RowsRest
      <4> QED
        BY <4>2, <4>3
    <3> QED
      BY <3>1, <3>2
  <2>9. CommentsHeld'
    <3> SUFFICES ASSUME NEW c \in Asker, c # a
                 PROVE  (/\ ask[c].op # "moderate"
                         /\ ask[c].op = "comment" =>
                              /\ c \notin posted /\ ask[c].at \in articles
                              /\ ask[c].on = NoAsker \/ (ask[c].on \in Asker /\ HasRow(ask[c].on))
                              /\ \A b \in Asker : ask[b].op = "delete article" =>
                                   ask[b].at \notin RestsOn(ask[c].at, ask[c].on))'
      BY <1>1 DEF CommentsHeld
    <3>1. ask'[c] = ask[c]
      BY <1>1
    <3>2. CASE ask[c].op # "comment"
      BY <3>1, <3>2 DEF CommentsHeld
    <3>3. CASE ask[c].op = "comment"
      <4>1. PICK y, p : y = ask[c].at /\ p = ask[c].on
        OBVIOUS
      <4>2. c \notin posted /\ y \in articles /\ (p = NoAsker \/ (p \in Asker /\ HasRow(p)))
        BY <3>3, <4>1 DEF CommentsHeld
      <4>3. \A b \in Asker : ask[b].op = "delete article" => ask[b].at \notin RestsOn(y, p)
        BY <3>3, <4>1 DEF CommentsHeld
      <4>4. p # a /\ p \in Asker \cup {NoAsker}
        BY <2>2, <4>2, ReaderAssumption DEF RowsRest
      <4>5. p \in Asker => (HasRow(p)' <=> HasRow(p))
        BY <2>5, <4>4 DEF HasRow
      <4>6. RestsOn(y, p)' = RestsOn(y, p)
        BY <2>6, <4>4
      <4>7. \A b \in Asker : ask'[b].op = "delete article" => ask'[b].at \notin RestsOn(y, p)'
        BY <1>1, <4>3, <4>6
      <4>8. y = ask'[c].at /\ p = ask'[c].on
        BY <3>1, <4>1
      <4>9. p = NoAsker \/ (p \in Asker /\ HasRow(p)')
        BY <4>2, <4>5
      <4>10. (ask[c].on = NoAsker \/ (ask[c].on \in Asker /\ HasRow(ask[c].on)))'
        BY <4>8, <4>9 DEF HasRow
      <4>11. \A b \in Asker : ask'[b].op = "delete article" =>
               ask'[b].at \notin RestsOn(ask[c].at, ask[c].on)'
        BY <4>7, <4>8 DEF RestsOn
      <4> QED
        BY <2>1, <3>1, <3>3, <4>2, <4>8, <4>10, <4>11
    <3> QED
      BY <3>2, <3>3
  <2> QED
    BY <1>3, <2>4, <2>8, <2>9
<1>6. CASE ask[a].op = "delete article"
  <2>1. /\ articles' = articles \ {x}
        /\ UNCHANGED <<posted, articleOf, parentOf, rests>>
        /\ comments' = [b \in Asker |-> IF x \in rests[b] THEN NoRow ELSE comments[b]]
    BY <1>6, <1>8 DEF CommitDesk
  <2>2. \A b \in Asker : HasRow(b)' <=> HasRow(b) /\ x \notin rests[b]
    BY <2>1 DEF HasRow
  <2>3. DeskTypes'
    BY <1>1, <1>2, <2>1 DEF DeskTypes
  <2>4. RowsRest'
    BY <2>1, <2>2 DEF RowsRest, RestsOn
  <2>5. CommentsHeld'
    <3> SUFFICES ASSUME NEW c \in Asker, c # a, ask[c].op = "comment"
                 PROVE  (/\ c \notin posted /\ ask[c].at \in articles
                         /\ ask[c].on = NoAsker \/ (ask[c].on \in Asker /\ HasRow(ask[c].on))
                         /\ \A b \in Asker : ask[b].op = "delete article" =>
                              ask[b].at \notin RestsOn(ask[c].at, ask[c].on))'
      BY <1>1 DEF CommentsHeld
    <3>1. PICK y, p : y = ask[c].at /\ p = ask[c].on
      OBVIOUS
    <3>2. c \notin posted /\ y \in articles /\ (p = NoAsker \/ (p \in Asker /\ HasRow(p)))
      BY <3>1 DEF CommentsHeld
    <3>3. \A b \in Asker : ask[b].op = "delete article" => ask[b].at \notin RestsOn(y, p)
      BY <3>1 DEF CommentsHeld
    <3>4. y # x /\ (p # NoAsker => x \notin rests[p])
      BY <1>6, <1>8, <3>3 DEF RestsOn
    <3>5. p # NoAsker => HasRow(p)'
      BY <2>2, <3>2, <3>4
    <3>6. RestsOn(y, p)' = RestsOn(y, p)
      BY <2>1 DEF RestsOn
    <3>7. \A b \in Asker : ask'[b].op = "delete article" => ask'[b].at \notin RestsOn(y, p)'
      BY <1>1, <3>3, <3>6
    <3>8. y = ask'[c].at /\ p = ask'[c].on
      BY <1>1, <3>1
    <3> QED
      BY <2>1, <3>2, <3>4, <3>5, <3>7, <3>8 DEF HasRow, RestsOn
  <2> QED
    BY <1>3, <2>3, <2>4, <2>5
<1>7. CASE ask[a].op \notin {"comment", "delete article"}
  <2>1. UNCHANGED <<articles, posted, articleOf, parentOf, rests, comments>>
    BY <1>4, <1>7 DEF CommitDesk
  <2>2. DeskTypes' /\ RowsRest'
    BY <1>1, <1>2, <2>1 DEF DeskTypes, RowsRest, HasRow, RestsOn
  <2>3. CommentsHeld'
    BY <1>1, <2>1 DEF CommentsHeld, HasRow, RestsOn
  <2> QED
    BY <1>3, <2>2, <2>3
<1> QED
  BY <1>5, <1>6, <1>7

(* A broadcast is put first, in the list as in the history.                   *)
LEMMA FirstOfBoth ==
  ASSUME NEW S, NEW s \in Seq(S), NEW t \in Seq(S), NEW x \in S,
         Len(s) <= Len(t), s = SubSeq(t, 1, Len(s))
  PROVE  /\ <<x>> \o s \in Seq(S) /\ <<x>> \o t \in Seq(S)
         /\ Len(<<x>> \o s) = Len(s) + 1 /\ Len(<<x>> \o t) = Len(t) + 1
         /\ <<x>> \o s = SubSeq(<<x>> \o t, 1, Len(s) + 1)
OBVIOUS

(* A prefix of a prefix is a prefix.                                         *)
LEMMA PrefixOfPrefix ==
  ASSUME NEW S, NEW s \in Seq(S), NEW t \in Seq(S), NEW n \in Nat,
         Len(s) <= Len(t), s = SubSeq(t, 1, Len(s)), n <= Len(s)
  PROVE  /\ SubSeq(s, 1, n) \in Seq(S) /\ Len(SubSeq(s, 1, n)) = n
         /\ SubSeq(s, 1, n) = SubSeq(t, 1, n)
OBVIOUS

(* The steps of a broadcast.                                                 *)
LEMMA CastMoves ==
  ASSUME DeskInv, NEW k \in Caster,
         \/ PublishBroadcast(k) \/ PushBroadcast(k) \/ TrimBroadcasts(k)
         \/ CountBroadcast(k) \/ BroadcastStepFails(k)
  PROVE  DeskInv'
<1> USE DEF DeskInv
<1>1. UNCHANGED <<articles, comments, articleOf, parentOf, rests, posted, ask>>
  BY DEF PublishBroadcast, PushBroadcast, TrimBroadcasts, CountBroadcast, BroadcastStepFails,
         CastAt, askVars, commentVars
<1>2. CommentsHeld' /\ RowsRest'
  BY <1>1 DEF CommentsHeld, RowsRest, HasRow, RestsOn
<1>3. CASE PushBroadcast(k)
  <2>1. broadcasts' = <<k>> \o broadcasts /\ pushed' = <<k>> \o pushed
    BY <1>3 DEF PushBroadcast
  <2>2. /\ broadcasts' \in Seq(Caster) /\ pushed' \in Seq(Caster)
        /\ Len(broadcasts') = Len(broadcasts) + 1 /\ Len(pushed') = Len(pushed) + 1
        /\ broadcasts' = SubSeq(pushed', 1, Len(broadcasts'))
    BY <2>1, FirstOfBoth DEF DeskTypes, BroadcastsKept
  <2>3. DeskTypes'
    BY <1>1, <2>2 DEF DeskTypes
  <2>4. BroadcastsKept'
    BY <2>1, <2>2, ReaderAssumption DEF BroadcastsKept, DeskTypes
  <2> QED
    BY <1>2, <2>3, <2>4
<1>4. CASE TrimBroadcasts(k)
  <2> DEFINE n == IF Len(broadcasts) < HistoryMax THEN Len(broadcasts) ELSE HistoryMax
  <2>1. broadcasts' = SubSeq(broadcasts, 1, n) /\ pushed' = pushed
    BY <1>4 DEF TrimBroadcasts, Trimmed
  <2>2. n \in Nat /\ n <= Len(broadcasts)
    BY ReaderAssumption DEF DeskTypes
  <2>3. /\ broadcasts' \in Seq(Caster) /\ Len(broadcasts') = n
        /\ broadcasts' = SubSeq(pushed, 1, n)
    BY <2>1, <2>2, PrefixOfPrefix DEF DeskTypes, BroadcastsKept
  <2>4. n < HistoryMax => Len(broadcasts) = n /\ broadcasts' = broadcasts
    <3>1. SubSeq(broadcasts, 1, Len(broadcasts)) = broadcasts
      BY DEF DeskTypes
    <3>2. n < HistoryMax => n = Len(broadcasts)
      BY ReaderAssumption DEF DeskTypes
    <3> QED
      BY <2>1, <3>1, <3>2
  <2>5. DeskTypes'
    BY <1>1, <2>1, <2>3 DEF DeskTypes
  <2>6. BroadcastsKept'
    <3>1. n >= HistoryMax \/ broadcasts' = pushed'
      <4>1. CASE n >= HistoryMax
        BY <4>1
      <4>2. CASE n < HistoryMax
        <5>1. Len(broadcasts) < HistoryMax /\ broadcasts' = broadcasts
          BY <2>4, <4>2
        <5>2. ~(Len(broadcasts) >= HistoryMax)
          BY <5>1, ReaderAssumption DEF DeskTypes
        <5> QED
          BY <2>1, <5>1, <5>2 DEF BroadcastsKept
      <4> QED
        BY <2>2, <4>1, <4>2, ReaderAssumption
    <3> QED
      BY <2>1, <2>2, <2>3, <3>1 DEF BroadcastsKept, DeskTypes
  <2> QED
    BY <1>2, <2>5, <2>6
<1>5. CASE UNCHANGED <<broadcasts, pushed>>
  BY <1>1, <1>2, <1>5 DEF DeskTypes, BroadcastsKept
<1> QED
  BY <1>3, <1>4, <1>5 DEF PublishBroadcast, CountBroadcast, BroadcastStepFails

(* However many requests and broadcasts there are: comments stay until their   *)
(* article goes, and the history of broadcasts is made of the last ones.      *)
THEOREM DeskSoundHolds == ReaderSpec => []DeskSound
<1>1. DeskInv /\ [ReaderNext]_readerDeskVars => DeskInv'
  <2> SUFFICES ASSUME DeskInv, [ReaderNext]_readerDeskVars PROVE DeskInv'
    OBVIOUS
  <2>1. CASE UNCHANGED readerDeskVars
    <3>1. UNCHANGED <<articles, comments, articleOf, parentOf, rests, posted, ask,
                      broadcasts, pushed>>
      BY <2>1 DEF readerDeskVars, askVars, commentVars, castVars
    <3> QED
      BY <3>1 DEF DeskInv, DeskTypes, RowsRest, CommentsHeld, HasRow, RestsOn, BroadcastsKept
  <2>2. CASE AskNext
    BY <2>2, CommentAdded, OtherStatements, DeskRolledBack, DeskCommitted DEF AskNext
  <2>3. CASE CastNext
    BY <2>3, CastMoves DEF CastNext
  <2> QED
    BY <2>1, <2>2, <2>3 DEF ReaderNext
<1>2. DeskInv => DeskSound
  BY RowsListed DEF DeskInv, DeskSound
<1> QED
  BY <1>1, <1>2, DeskStart, PTL DEF ReaderSpec

-----------------------------------------------------------------------------
(* SearchCache *)

Kept == [pieces : SUBSET Piece, until : Nat]
SearchTypes ==
  /\ searchClock \in Nat /\ public \subseteq Piece
  /\ withdrawn \in [Piece -> Nat]
  /\ page \in Kept /\ edge \in Kept
  /\ seeker \in [Seeker -> [at : {"idle", "asked", "read", "answering"}, began : Nat,
                            pieces : SUBSET Piece]]

(* Nothing dates from the future, and no request takes longer than it may.   *)
InTime ==
  /\ \A p \in Piece : withdrawn[p] <= searchClock
  /\ page.until <= searchClock + SearchTTL /\ edge.until <= searchClock + EdgeAge
  /\ \A s \in Seeker : seeker[s].at # "idle" =>
       seeker[s].began <= searchClock /\ searchClock <= seeker[s].began + MaxSearchTime

(* Each piece that was read or is kept was withdrawn at most a fixed time     *)
(* before the read began, or before what keeps it expires.                   *)
PublicSince(pieces, time, age) ==
  \A p \in pieces : p \in public \/ time <= withdrawn[p] + age
PageAge == MaxSearchTime + SearchTTL
NotLongGone ==
  /\ PublicSince(page.pieces, page.until, PageAge)
  /\ PublicSince(edge.pieces, edge.until, MaxSearchTime + PageAge + EdgeAge)
  /\ \A s \in Seeker :
       /\ seeker[s].at = "read" => PublicSince(seeker[s].pieces, seeker[s].began, 0)
       /\ seeker[s].at = "answering" => PublicSince(seeker[s].pieces, seeker[s].began, PageAge)

SearchInv == SearchTypes /\ InTime /\ NotLongGone

(* The caches are empty and no request is under way.                         *)
LEMMA SearchStart == SearchInit => SearchInv
BY SearchAssumption DEF SearchInit, SearchInv, SearchTypes, InTime, NotLongGone, PublicSince,
   Kept, Nothing, AtRest, PageAge

(* A request begins, is answered from Redis, reads the articles or fails.    *)
LEMMA SeekerMoves ==
  ASSUME SearchInv, NEW s \in Seeker,
         Search(s) \/ AnswerFromRedis(s) \/ ReadArticles(s) \/ ReadFails(s)
  PROVE  SearchInv'
<1> USE SearchAssumption DEF SearchInv
<1>1. UNCHANGED <<searchClock, public, withdrawn, page, edge>>
  BY DEF Search, AnswerFromRedis, ReadArticles, ReadFails
<1>2. \/ /\ AnswerFromRedis(s) /\ seeker[s].at # "idle"
         /\ Becomes(s, "answering", seeker[s].began, page.pieces)
      \/ seeker[s].at # "idle" /\ Becomes(s, "read", seeker[s].began, public)
      \/ Becomes(s, "asked", searchClock, {})
      \/ Becomes(s, "idle", 0, {})
  BY DEF Search, AnswerFromRedis, ReadArticles, ReadFails, Rests, AtRest, Becomes
<1>3. SearchTypes' /\ \A q \in Seeker \ {s} : seeker'[q] = seeker[q]
  BY <1>1, <1>2 DEF Becomes, SearchTypes, Kept
<1>4. seeker'[s].at # "idle" =>
        seeker'[s].began <= searchClock /\ searchClock <= seeker'[s].began + MaxSearchTime
  BY <1>2 DEF Becomes, SearchTypes, InTime
<1>5. InTime'
  BY <1>1, <1>3, <1>4 DEF InTime
<1>6. seeker'[s].at = "read" => PublicSince(seeker'[s].pieces, seeker'[s].began, 0)
  BY <1>2 DEF Becomes, SearchTypes, PublicSince
<1>7. seeker'[s].at = "answering" => PublicSince(seeker'[s].pieces, seeker'[s].began, PageAge)
  <2> SUFFICES ASSUME seeker'[s].at = "answering"
               PROVE  PublicSince(seeker'[s].pieces, seeker'[s].began, PageAge)
    OBVIOUS
  <2>1. /\ AnswerFromRedis(s) /\ seeker[s].at # "idle"
        /\ seeker'[s].pieces = page.pieces /\ seeker'[s].began = seeker[s].began
    BY <1>2 DEF Becomes, SearchTypes
  <2>2. seeker[s].began <= page.until
    BY <2>1 DEF AnswerFromRedis, Unexpired, InTime, SearchTypes, Kept
  <2> QED
    BY <2>1, <2>2 DEF PublicSince, NotLongGone, SearchTypes, Kept, PageAge
<1>8. NotLongGone'
  BY <1>1, <1>3, <1>6, <1>7 DEF NotLongGone, PublicSince
<1> QED
  BY <1>3, <1>5, <1>8

(* Redis keeps what a request has read, or does not.                         *)
LEMMA PageStored ==
  ASSUME SearchInv, NEW s \in Seeker, StorePage(s)
  PROVE  SearchInv'
<1> USE SearchAssumption DEF SearchInv
<1>1. /\ UNCHANGED <<searchClock, public, withdrawn, edge>>
      /\ seeker[s].at = "read" /\ seeker'[s].at = "answering"
      /\ seeker'[s].pieces = seeker[s].pieces /\ seeker'[s].began = seeker[s].began
      /\ \A q \in Seeker \ {s} : seeker'[q] = seeker[q]
  BY DEF StorePage, Becomes, SearchTypes
<1>2. page' = page \/ page' = [pieces |-> seeker[s].pieces, until |-> searchClock + SearchTTL]
  BY DEF StorePage
<1>3. SearchTypes'
  BY <1>1, <1>2 DEF SearchTypes, Kept, StorePage, Becomes
<1>4. InTime'
  BY <1>1, <1>2 DEF InTime, SearchTypes
<1>5. PublicSince(seeker[s].pieces, seeker[s].began, 0)
  BY <1>1 DEF NotLongGone
<1>6. PublicSince(seeker[s].pieces, seeker[s].began, PageAge)
  BY <1>5 DEF PublicSince, SearchTypes, PageAge
<1>7. PublicSince(seeker[s].pieces, searchClock + SearchTTL, PageAge)
  BY <1>1, <1>5 DEF PublicSince, SearchTypes, PageAge, InTime
<1>8. PublicSince(page'.pieces, page'.until, PageAge)
  BY <1>2, <1>7 DEF NotLongGone
<1>9. NotLongGone'
  BY <1>1, <1>6, <1>8 DEF NotLongGone, PublicSince
<1> QED
  BY <1>3, <1>4, <1>9

(* The edge keeps an answer that a request has.                              *)
LEMMA EdgeFilled ==
  ASSUME SearchInv, NEW s \in Seeker, Answered(s)
  PROVE  SearchInv'
<1> USE SearchAssumption DEF SearchInv
<1>1. /\ UNCHANGED <<searchClock, public, withdrawn, page>>
      /\ seeker[s].at = "answering" /\ seeker'[s].at = "idle"
      /\ \A q \in Seeker \ {s} : seeker'[q] = seeker[q]
      /\ edge' = [pieces |-> seeker[s].pieces, until |-> searchClock + EdgeAge]
  BY DEF Answered, Rests, AtRest, SearchTypes
<1>2. SearchTypes'
  BY <1>1 DEF SearchTypes, Kept, Answered, Rests, AtRest
<1>3. InTime'
  BY <1>1 DEF InTime, SearchTypes
<1>4. PublicSince(edge'.pieces, edge'.until, MaxSearchTime + PageAge + EdgeAge)
  BY <1>1 DEF NotLongGone, PublicSince, SearchTypes, InTime, PageAge
<1>5. NotLongGone'
  BY <1>1, <1>4 DEF NotLongGone, PublicSince
<1> QED
  BY <1>2, <1>3, <1>5

(* An article that is withdrawn was public until now, and nothing kept        *)
(* expires later than it may.                                                *)
LEMMA ArticleChanges ==
  ASSUME SearchInv, NEW p \in Piece, Publish(p) \/ Withdraw(p)
  PROVE  SearchInv'
<1> USE SearchAssumption DEF SearchInv
<1>1. UNCHANGED <<searchClock, page, edge, seeker>>
  BY DEF Publish, Withdraw
<1>2. public' \subseteq Piece /\ withdrawn' \in [Piece -> Nat]
  BY DEF Publish, Withdraw, SearchTypes
<1>3. /\ \A q \in Piece : withdrawn'[q] <= searchClock /\ withdrawn[q] <= withdrawn'[q]
      /\ \A q \in public : q \in public' \/ withdrawn'[q] = searchClock
  BY DEF Publish, Withdraw, SearchTypes, InTime
<1>4. ASSUME NEW pieces \in SUBSET Piece, NEW time \in Nat, NEW age \in Nat,
             PublicSince(pieces, time, age), time <= searchClock + age
      PROVE  PublicSince(pieces, time, age)'
  <2> SUFFICES ASSUME NEW q \in pieces, q \notin public'
               PROVE  time <= withdrawn'[q] + age
    BY DEF PublicSince
  <2>1. withdrawn[q] \in Nat /\ withdrawn'[q] \in Nat /\ searchClock \in Nat
    BY <1>2 DEF SearchTypes
  <2> QED
    BY <1>3, <1>4, <2>1 DEF PublicSince
<1>5. SearchTypes' /\ InTime'
  BY <1>1, <1>2, <1>3 DEF SearchTypes, InTime
<1>6. PublicSince(page.pieces, page.until, PageAge)'
  BY <1>1, <1>4 DEF NotLongGone, SearchTypes, InTime, Kept, PageAge
<1>7. PublicSince(edge.pieces, edge.until, MaxSearchTime + PageAge + EdgeAge)'
  BY <1>1, <1>4 DEF NotLongGone, SearchTypes, InTime, Kept, PageAge
<1>8. ASSUME NEW s \in Seeker, seeker[s].at = "read"
      PROVE  PublicSince(seeker[s].pieces, seeker[s].began, 0)'
  BY <1>1, <1>4, <1>8 DEF NotLongGone, SearchTypes, InTime
<1>9. ASSUME NEW s \in Seeker, seeker[s].at = "answering"
      PROVE  PublicSince(seeker[s].pieces, seeker[s].began, PageAge)'
  BY <1>1, <1>4, <1>9 DEF NotLongGone, SearchTypes, InTime, PageAge
<1>10. NotLongGone'
  BY <1>1, <1>6, <1>7, <1>8, <1>9 DEF NotLongGone
<1> QED
  BY <1>5, <1>10

(* Readers stop finding an article that was withdrawn within a time that      *)
(* depends only on how long each cache keeps and a search takes, for any      *)
(* number of articles and searches.                                          *)
THEOREM SearchKeepsUpHolds == SearchSpec => []SearchKeepsUp
<1>1. SearchInv => SearchKeepsUp
  BY SearchAssumption DEF SearchInv, SearchTypes, NotLongGone, PublicSince, SearchKeepsUp, KeepsUp,
     Unexpired, Kept, PageAge
<1>2. SearchInv /\ [SearchNext]_searchVars => SearchInv'
  <2> SUFFICES ASSUME SearchInv, [SearchNext]_searchVars PROVE SearchInv'
    OBVIOUS
  <2>1. CASE UNCHANGED searchVars
    BY <2>1 DEF searchVars, SearchInv, SearchTypes, InTime, NotLongGone, PublicSince
  <2>2. CASE TimePasses
    BY <2>2, SearchAssumption DEF TimePasses, SearchInv, SearchTypes, InTime, NotLongGone, PublicSince, Kept
  <2> QED
    BY <2>1, <2>2, SeekerMoves, PageStored, EdgeFilled, ArticleChanges DEF SearchNext
<1> QED
  BY <1>1, <1>2, SearchStart, PTL DEF SearchSpec

-----------------------------------------------------------------------------
(* The site and its parts *)

(* The parts of the site are at rest or one of them takes a step of its own: a   *)
(* step of the site is a step of each part, or leaves what the part keeps.        *)
PartsStep ==
  /\ [ScopedNext]_scopedVars /\ [AccountNext]_accountVars /\ [GovernanceNext]_governanceVars
  /\ [SectionsNext]_sectionVars /\ [LiveNext]_liveVars /\ [MediaNext]_mediaVars
  /\ [LayoutNext]_layoutVars /\ [DeskNext]_deskVars /\ [ReaderNext]_readerDeskVars
  /\ [SearchNext]_searchVars /\ [RateNext]_rateVars /\ [MigrationNext]_migrationVars

PartsSpec ==
  /\ ScopedSpec /\ AccountSpec /\ GovernanceSpec /\ SectionsSpec /\ LiveSpec /\ MediaSpec
  /\ LayoutSpec /\ DeskSpec /\ ReaderSpec /\ SearchSpec /\ RateSpec /\ MigrationSpec

(* The site starts with every part in a state that the part may start in.         *)
LEMMA SiteStart ==
  SiteInit =>
    /\ ScopedInit /\ AccountInit /\ GovernanceInit /\ SectionsInit /\ LiveInit /\ MediaInit
    /\ LayoutInit /\ DeskInit /\ ReaderInit /\ SearchInit /\ RateInit /\ MigrationInit
BY DEF SiteInit

LEMMA SiteSteps == [SiteNext]_vars => PartsStep
<1> SUFFICES ASSUME [SiteNext]_vars PROVE PartsStep
  OBVIOUS
<1> USE DEF PartsStep
<1>1. CASE UNCHANGED vars
  BY <1>1 DEF vars
<1>2. CASE PermissionsRun
  BY <1>2 DEF PermissionsRun, readerDeskVars
<1>3. CASE AccountRun
  BY <1>3 DEF AccountRun, readerDeskVars
<1>4. CASE GovernanceRun
  BY <1>4 DEF GovernanceRun, readerDeskVars
<1>5. CASE SectionsRun
  BY <1>5 DEF SectionsRun, readerDeskVars
<1>6. CASE LiveRun
  BY <1>6 DEF LiveRun, readerDeskVars
<1>7. CASE MediaRun
  BY <1>7 DEF MediaRun, readerDeskVars
<1>8. CASE LayoutRun
  BY <1>8 DEF LayoutRun, readerDeskVars
<1>9. CASE EmployeesRun
  BY <1>9 DEF EmployeesRun, readerDeskVars
<1>10. CASE ReadersRun
  BY <1>10 DEF ReadersRun, ReaderNext
<1>11. CASE BroadcastsRun
  BY <1>11 DEF BroadcastsRun, ReaderNext
<1>12. CASE SearchRun
  BY <1>12 DEF SearchRun
<1>13. CASE LimitsRun
  BY <1>13 DEF LimitsRun, readerDeskVars
<1>14. CASE MigrationsRun
  BY <1>14 DEF MigrationsRun, readerDeskVars
<1> QED
  BY <1>1, <1>2, <1>3, <1>4, <1>5, <1>6, <1>7, <1>8, <1>9, <1>10, <1>11, <1>12, <1>13, <1>14
     DEF SiteNext

(* The site as MCSite runs it implements every one of its parts, for any values   *)
(* of their constants: what is proved of ScopedSpec, AccountSpec and the others   *)
(* holds in every behaviour of SiteSpec, whose parts share no state.              *)
THEOREM SiteImplementsItsParts == SiteSpec => PartsSpec
BY SiteStart, SiteSteps, PTL
   DEF SiteSpec, PartsSpec, PartsStep, ScopedSpec, AccountSpec, GovernanceSpec, SectionsSpec,
       LiveSpec, MediaSpec, LayoutSpec, DeskSpec, ReaderSpec, SearchSpec, RateSpec,
       MigrationSpec

(* So what Site.cfg checks of a small site holds in every behaviour of any:        *)
(* the invariants of all its parts together, and that readers of a live blog miss *)
(* nothing.                                                                     *)
SiteSound ==
  /\ AllowedOnStandingGround /\ ShownIsWhatRowsGive /\ PassedOnlyAsSuperAdmin
  /\ GovernanceSound /\ FeedWhole /\ ListedHasFile /\ LayoutAsAsked /\ OnboardedStay
  /\ DeskSound /\ SearchKeepsUp /\ RateBounded /\ MigrationsKeep

THEOREM SiteSoundHolds == SiteSpec => []SiteSound /\ NothingMissed
BY SiteImplementsItsParts, AllowedOnStandingGroundHolds, ShownIsWhatRowsGiveHolds,
   PassedOnlyAsSuperAdminHolds, GovernanceSoundHolds, FeedWholeHolds, ListedHasFileHolds,
   LayoutAsAskedHolds, OnboardedStayHolds, DeskSoundHolds, SearchKeepsUpHolds,
   RateBoundedHolds, MigrationsKeepHolds, NothingMissedHolds, PTL
   DEF PartsSpec, SiteSound
=============================================================================
