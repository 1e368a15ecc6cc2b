-------------------------------- MODULE Storage --------------------------------
(***************************************************************************)
(* The storage service (storage-service/app): uploaded files, each an      *)
(* object in a store and a StoredObject row that names it.                 *)
(*                                                                         *)
(* There are two stores, a directory and MinIO.  Which of them a call uses *)
(* is decided at every call, and under STORAGE_BACKEND=auto it depends on  *)
(* whether MinIO can be reached just then; the row does not say where its  *)
(* object is.  Object and row change one after the other: a call can be    *)
(* cut off between the two, and other calls see the state in between.      *)
(*                                                                         *)
(* Uploads run on the event loop, without an await once the file is read,  *)
(* so they never overlap one another; all other calls have threads.        *)
(*                                                                         *)
(* Contents, names and image conversion are left out, and with them the    *)
(* uploads refused for what they contain, which leave no trace.            *)
(***************************************************************************)
EXTENDS Integers

CONSTANTS Keys,        \* object keys; each upload draws a new one
          Users,
          Company,     \* the company of each user
          EventLoop,   \* the thread that serves uploads
          Pool,        \* the threads that serve everything else
          NoKey,
          NoUser,
          MaxFaults    \* bound on outages of MinIO, lost answers, failed commits, crashes

Threads == Pool \union {EventLoop}
Stores  == {"local", "minio"}
Reads   == {"get", "download", "link"}

ASSUME StorageAssumption ==
    /\ EventLoop \notin Pool
    /\ NoKey \notin Keys /\ NoUser \notin Users
    /\ MaxFaults \in Nat

VARIABLES
    mode,      \* STORAGE_BACKEND
    reach,     \* MinIO can be reached
    bucket,    \* MINIO_BUCKET exists
    stored,    \* the objects in each store
    rows,      \* StoredObject rows
    call,      \* what each thread is doing
    home,      \* history: the store each object was put into
    cut,       \* history: keys with a call cut off between object and row
    strayed,   \* history: keys marked deleted by a call that looked in the other store
    missed,    \* history: key and store of the reads that found a row and no object
    faults

storageVars == <<mode, reach, bucket, stored, rows, call, home, cut, strayed, missed, faults>>

-----------------------------------------------------------------------------
Row == [status : {"absent", "active", "deleted"}, owner : Users \union {NoUser}, public : BOOLEAN]

(* A call chooses its store ("probe", and "make" if the bucket is missing) *)
(* acts on the object ("act", "unlink") and then on the row ("commit").    *)
Target  == [op : Reads \union {"delete"}, key : Keys, who : Users, public : {FALSE}]
             \union [op : {"upload"}, key : Keys, who : Users, public : BOOLEAN]
NoTarget == [op |-> "none", key |-> NoKey, who |-> NoUser, public |-> FALSE]

Call == [stage : {"idle"}, store : {"none"}, for : {NoTarget}]
          \union [stage : {"probe", "make"}, store : {"none"}, for : Target]
          \union [stage : {"act", "unlink", "commit"}, store : Stores, for : Target]

StorageIdle == [stage |-> "idle", store |-> "none", for |-> NoTarget]

StorageTypeOK ==
    /\ mode \in Stores \union {"auto"}
    /\ reach \in BOOLEAN /\ bucket \in BOOLEAN
    /\ stored \in [Stores -> SUBSET Keys]
    /\ rows \in [Keys -> Row]
    /\ call \in [Threads -> Call]
    /\ home \in [Keys -> Stores \union {"none"}]
    /\ cut \subseteq Keys /\ strayed \subseteq Keys
    /\ missed \subseteq Keys \X Stores
    /\ faults \in 0 .. MaxFaults

StorageInit ==
    /\ mode \in Stores \union {"auto"}
    /\ reach = TRUE /\ bucket \in BOOLEAN
    /\ stored = [s \in Stores |-> {}]
    /\ rows = [k \in Keys |-> [status |-> "absent", owner |-> NoUser, public |-> FALSE]]
    /\ call = [t \in Threads |-> StorageIdle]
    /\ home = [k \in Keys |-> "none"]
    /\ cut = {} /\ strayed = {} /\ missed = {}
    /\ faults = 0

At(t, op, stage) == call[t].stage = stage /\ call[t].for.op = op
Key(t)           == call[t].for.key
Answer(t)        == call' = [call EXCEPT ![t] = StorageIdle]
Go(t, stage)     == call' = [call EXCEPT ![t].stage = stage]
Fault            == faults < MaxFaults /\ faults' = faults + 1

(* What the store does with a request: the directory always serves it.     *)
Works(s) == s = "local" \/ (reach /\ bucket)

-----------------------------------------------------------------------------
(* How calls begin *)

StorageBegin(t, for) ==
    /\ call[t] = StorageIdle
    /\ call' = [call EXCEPT ![t] = [stage |-> "probe", store |-> "none", for |-> for]]

Unused(k) == home[k] = "none" /\ rows[k].status = "absent"

BeginUpload(k, u, public) ==
    /\ Unused(k)
    /\ StorageBegin(EventLoop, [op |-> "upload", key |-> k, who |-> u, public |-> public])
    /\ UNCHANGED <<mode, reach, bucket, stored, rows, home, cut, strayed, missed, faults>>

(* Public files are anyone's to read, the others their company's, and all  *)
(* of them their owner's to delete.                                        *)
Allowed(op, u, k) ==
    \/ op = "get" /\ rows[k].public
    \/ op \in {"download", "link"} /\ Company[u] = Company[rows[k].owner]
    \/ op = "delete" /\ u = rows[k].owner

BeginOther(t, op, u, k) ==
    /\ rows[k].status = "active" /\ Allowed(op, u, k)
    /\ StorageBegin(t, [op |-> op, key |-> k, who |-> u, public |-> FALSE])
    /\ UNCHANGED <<mode, reach, bucket, stored, rows, home, cut, strayed, missed, faults>>

-----------------------------------------------------------------------------
(* _use_local_backend *)

Chosen(t, s) == call' = [call EXCEPT ![t].stage = "act", ![t].store = s]

Probe(t) ==
    /\ call[t].stage = "probe"
    /\ IF mode # "auto" THEN Chosen(t, mode)
       ELSE IF ~reach THEN Chosen(t, "local")
       ELSE IF bucket THEN Chosen(t, "minio") ELSE Go(t, "make")
    /\ UNCHANGED <<mode, reach, bucket, stored, rows, home, cut, strayed, missed, faults>>

(* Another call may have made the bucket meanwhile: MinIO refuses to make  *)
(* it again, and the refusal counts as MinIO being away.                   *)
Make(t) ==
    /\ call[t].stage = "make"
    /\ bucket' = (bucket \/ reach)
    /\ Chosen(t, IF reach /\ ~bucket THEN "minio" ELSE "local")
    /\ UNCHANGED <<mode, reach, stored, rows, home, cut, strayed, missed, faults>>

-----------------------------------------------------------------------------
(* upload *)

Put(t) ==
    /\ stored' = [stored EXCEPT ![call[t].store] = @ \union {Key(t)}]
    /\ home' = [home EXCEPT ![Key(t)] = call[t].store]

PutObject(t) ==
    /\ At(t, "upload", "act")
    /\ IF Works(call[t].store) THEN Put(t) /\ Go(t, "commit")
       ELSE Answer(t) /\ UNCHANGED <<stored, home>>
    /\ UNCHANGED <<mode, reach, bucket, rows, cut, strayed, missed, faults>>

(* The object is there, or a part of it, but the call is told otherwise.   *)
PutLost(t) ==
    /\ At(t, "upload", "act") /\ Works(call[t].store) /\ Fault
    /\ Put(t)
    /\ cut' = cut \union {Key(t)}
    /\ Answer(t)
    /\ UNCHANGED <<mode, reach, bucket, rows, strayed, missed>>

Insert(t) ==
    /\ At(t, "upload", "commit")
    /\ rows' = [rows EXCEPT ![Key(t)] = [status |-> "active", owner |-> call[t].for.who,
                                         public |-> call[t].for.public]]
    /\ Answer(t)
    /\ UNCHANGED <<mode, reach, bucket, stored, home, cut, strayed, missed, faults>>

-----------------------------------------------------------------------------
(* delete *)

Take(t) == stored' = [stored EXCEPT ![call[t].store] = @ \ {Key(t)}]

(* Wrong: the row is marked deleted though the store refused               *)
RemoveAnyway(t) ==
    /\ At(t, "delete", "act")
    /\ Go(t, "commit")
    /\ IF call[t].store = "minio" /\ Works("minio") THEN Take(t) ELSE stored' = stored
    /\ UNCHANGED <<mode, reach, bucket, rows, home, cut, strayed, missed, faults>>

(* A file is looked for before it is unlinked; MinIO removes an object     *)
(* whether it has it or not.                                               *)
Remove(t) ==
    /\ At(t, "delete", "act")
    /\ IF call[t].store = "local"
       THEN Go(t, IF Key(t) \in stored["local"] THEN "unlink" ELSE "commit") /\ stored' = stored
       ELSE IF Works("minio") THEN Go(t, "commit") /\ Take(t)
       ELSE Answer(t) /\ stored' = stored
    /\ UNCHANGED <<mode, reach, bucket, rows, home, cut, strayed, missed, faults>>

(* A file another call has unlinked meanwhile is an error.                 *)
Unlink(t) ==
    /\ At(t, "delete", "unlink")
    /\ IF Key(t) \in stored["local"] THEN Go(t, "commit") /\ Take(t)
       ELSE Answer(t) /\ stored' = stored
    /\ UNCHANGED <<mode, reach, bucket, rows, home, cut, strayed, missed, faults>>

RemoveLost(t) ==
    /\ At(t, "delete", "act") /\ call[t].store = "minio" /\ Works("minio") /\ Fault
    /\ Take(t)
    /\ cut' = cut \union {Key(t)}
    /\ Answer(t)
    /\ UNCHANGED <<mode, reach, bucket, rows, home, strayed, missed>>

MarkDeleted(t) ==
    /\ At(t, "delete", "commit")
    /\ rows' = [rows EXCEPT ![Key(t)].status = "deleted"]
    /\ strayed' = IF call[t].store = home[Key(t)] THEN strayed ELSE strayed \union {Key(t)}
    /\ Answer(t)
    /\ UNCHANGED <<mode, reach, bucket, stored, home, cut, missed, faults>>

-----------------------------------------------------------------------------
(* get, download, presigned_download *)

(* A link is made without looking at the object.                           *)
Fetch(t) ==
    /\ call[t].stage = "act" /\ call[t].for.op \in Reads
    /\ missed' = IF /\ call[t].for.op # "link"
                    /\ call[t].store = "local" \/ reach
                    /\ Key(t) \notin stored[call[t].store]
                 THEN missed \union {<<Key(t), call[t].store>>} ELSE missed
    /\ Answer(t)
    /\ UNCHANGED <<mode, reach, bucket, stored, rows, home, cut, strayed, faults>>

-----------------------------------------------------------------------------
(* Failures *)

InTheMiddle(t) == call[t].stage = "commit"

CommitFails(t) ==
    /\ InTheMiddle(t) /\ Fault
    /\ cut' = cut \union {Key(t)}
    /\ Answer(t)
    /\ UNCHANGED <<mode, reach, bucket, stored, rows, home, strayed, missed>>

(* The service goes down and comes up again.                               *)
Crash ==
    /\ Fault
    /\ cut' = cut \union {Key(t) : t \in {u \in Threads : InTheMiddle(u)}}
    /\ call' = [t \in Threads |-> StorageIdle]
    /\ UNCHANGED <<mode, reach, bucket, stored, rows, home, strayed, missed>>

MinioDown ==
    /\ reach /\ Fault
    /\ reach' = FALSE
    /\ UNCHANGED <<mode, bucket, stored, rows, call, home, cut, strayed, missed>>

MinioUp ==
    /\ ~reach
    /\ reach' = TRUE
    /\ UNCHANGED <<mode, bucket, stored, rows, call, home, cut, strayed, missed, faults>>

-----------------------------------------------------------------------------
StorageNext ==
    \/ \E k \in Keys, u \in Users :
        \/ \E public \in BOOLEAN : BeginUpload(k, u, public)
        \/ \E t \in Pool, op \in Reads \union {"delete"} : BeginOther(t, op, u, k)
    \/ \E t \in Threads :
        \/ Probe(t) \/ Make(t)
        \/ PutObject(t) \/ PutLost(t) \/ Insert(t)
        \/ Remove(t) \/ Unlink(t) \/ RemoveLost(t) \/ MarkDeleted(t)
        \/ Fetch(t)
        \/ CommitFails(t)
    \/ Crash \/ MinioDown \/ MinioUp

StorageSpec == StorageInit /\ [][StorageNext]_storageVars

-----------------------------------------------------------------------------
(* Properties *)

Uploading(k) == \E t \in Threads : At(t, "upload", "commit") /\ Key(t) = k
Deleting(k)  == \E t \in Threads : At(t, "delete", "commit") /\ Key(t) = k

(* An active row has its object in one of the stores, unless a call that   *)
(* removed it has still to mark the row, or was cut off before it could.   *)
ActiveHasObject ==
    \A k \in Keys :
        rows[k].status = "active" =>
            (\E s \in Stores : k \in stored[s]) \/ Deleting(k) \/ k \in cut

(* An object that no active row names belongs to an upload that has still  *)
(* to insert its row or was cut off before it could, or it was left behind *)
(* by a delete that looked in the other store.                             *)
OrphansExplained ==
    \A k \in Keys, s \in Stores :
        k \in stored[s] /\ rows[k].status # "active" =>
            Uploading(k) \/ k \in cut \/ k \in strayed

(* A read that found the row and not the object looked in the other store, *)
(* or the object had been removed by a delete.                             *)
MissedExplained ==
    \A k \in Keys, s \in Stores :
        <<k, s>> \in missed =>
            home[k] \in Stores \ {s} \/ rows[k].status = "deleted" \/ Deleting(k) \/ k \in cut

(* Rows and objects belong together, seen from the row, from the object    *)
(* and from the readers, apart from calls under way or cut off and from    *)
(* deletes and reads that looked in the other store                        *)
(* (_use_local_backend, upload, delete, get, download).                    *)
RowsMatchObjects == ActiveHasObject /\ OrphansExplained /\ MissedExplained
=============================================================================
