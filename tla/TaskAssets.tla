----------------------------- MODULE TaskAssets -----------------------------
(***************************************************************************)
(* The rows and the stored objects of a task's files                       *)
(* (task_asset_service.py): uploads through the server, uploads straight   *)
(* to the object store, clones for other tasks and deletions, each a       *)
(* request of its own whose steps interleave with those of the others.     *)
(*                                                                         *)
(* All uploads bring the same data file, cut into one shard: the case in   *)
(* which the names of the stored objects can collide.  The object of a     *)
(* file has a unique name.  The object of a shard is named after the       *)
(* file's name and content, in the directory of the file; a local store    *)
(* takes another name if that one is in use, an S3 store overwrites.       *)
(***************************************************************************)
EXTENDS Integers, FiniteSets

CONSTANTS
    Assets,         \* numbers: rows that may be created, each by one request
    Sessions,       \* direct uploads
    Tasks

ASSUME AssetAssumption == Assets \subseteq Nat

VARIABLES
    store,      \* "s3"; or local, with clones by "reference" (compressed, large) or by "copy"
    tasks,      \* tasks that exist
    asset,      \* rows: [file, shard, task] or NoRow
    objects,    \* stored objects
    request,    \* per row: its request in progress
    mishap      \* history: "race", "named", "torn", "left", "kept"

assetVars == <<store, tasks, asset, objects, request, mishap>>

OnS3 == store = "s3"
\* _should_clone_by_reference
ByReference == store # "copy"

NoObject == <<"none">>
NoRow == [file |-> NoObject, shard |-> NoObject, task |-> "none"]
Rows == {a \in Assets : asset[a] # NoRow}
FileOf(a) == <<"file", a>>
Put(d) == <<"put", d>>
\* The directory that a file is in, and the name of its first shard there.
ShardName(file) == <<"shard", IF file[1] = "put" THEN file[2] ELSE "task-assets">>
OwnShardName(a) == <<"own shard", a>>

\* A request: what it does, its next step, and the row it will insert or has read.
Request(kind, step, row) == [kind |-> kind, step |-> step, row |-> row]
\* The id of a row is new once: what follows its creation is at most its deletion.
New == Request("none", "new", NoRow)
Quiet == Request("none", "idle", NoRow)
\* Requests for a new row come in the order of the rows' numbers.
NextNew(a) == request[a] = New /\ \A b \in Assets : b < a => request[b] # New
Go(a, step) == [request EXCEPT ![a].step = step]
Done(a) == [request EXCEPT ![a] = Quiet]
Mishap(why, holds) == IF holds THEN mishap \cup {why} ELSE mishap

\* Requests at work on the file of this name.
Busy(file) == {a \in Assets : request[a].row.file = file}
-----------------------------------------------------------------------------
(* upload_asset *)

Upload(a, t) ==
    /\ NextNew(a) /\ t \in tasks
    /\ objects' = objects \cup {FileOf(a)}
    /\ request' = [request EXCEPT ![a] =
          Request("upload", "shards", [file |-> FileOf(a), shard |-> NoObject, task |-> t])]
    /\ UNCHANGED <<tasks, asset, mishap>>

\* _store_shard_file, or a failure: of the objects that are to be removed some may be kept,
\* because the store refuses (_remove_file hides that on S3, raises on a local one) or the
\* shard had not been stored, or had been in a call that seemed to fail.
StoreShards(a) ==
    /\ request[a].step = "shards"
    /\ LET file == request[a].row.file
           name == IF ~OnS3 /\ ShardName(file) \in objects THEN OwnShardName(a) ELSE ShardName(file)
           others == \E b \in Assets \ {a} :
                        name \in {asset[b].shard, request[b].row.shard}
                        /\ file \notin {asset[b].file, request[b].row.file}
       IN \/ /\ objects' = objects \cup {name}
             /\ request' = [request EXCEPT ![a].row.shard = name, ![a].step = "insert"]
             /\ mishap' = Mishap("named", others)
             /\ UNCHANGED <<tasks, asset>>
          \/ \E stay \in SUBSET {name, file} :
                LET gone == {name, file} \ stay
                    torn == \E b \in Assets \ {a} :
                               gone \cap {asset[b].file, asset[b].shard,
                                          request[b].row.file, request[b].row.shard} # {}
                    kept == file \in stay \/ stay \ objects # {}
                IN /\ objects' = (objects \ gone) \cup stay
                   /\ request' = Done(a)
                   /\ mishap' = mishap \cup {m \in {"torn", "kept"} :
                                             IF m = "torn" THEN torn ELSE kept}
                   /\ UNCHANGED <<tasks, asset>>

\* repo.create: a failure leaves the objects where they are.
Insert(a) ==
    /\ request[a].step = "insert" /\ request' = Done(a)
    /\ \/ asset' = [asset EXCEPT ![a] = request[a].row] /\ UNCHANGED mishap
       \/ UNCHANGED asset /\ mishap' = mishap \cup {"left"}
    /\ UNCHANGED <<tasks, objects>>
-----------------------------------------------------------------------------
(* create_direct_upload_session, the client's PUT, finalize_direct_upload *)

ClientPuts(d) ==
    /\ OnS3 /\ Put(d) \notin objects
    /\ \A a \in Assets : Put(d) \notin {asset[a].file, request[a].row.file}
    /\ objects' = objects \cup {Put(d)}
    /\ UNCHANGED <<tasks, asset, request, mishap>>

\* The token may be used again, the object stays where it is: two rows may have one file.
Finalize(a, d, t) ==
    /\ NextNew(a) /\ t \in tasks /\ Put(d) \in objects
    /\ request' = [request EXCEPT ![a] =
          Request("finalize", "shards", [file |-> Put(d), shard |-> NoObject, task |-> t])]
    /\ mishap' = Mishap("race", \E b \in Busy(Put(d)) : request[b].kind = "delete")
    /\ UNCHANGED <<tasks, asset, objects>>
-----------------------------------------------------------------------------
(* clone_asset_to_task, which bind_assets and copy_task call for each asset *)

CloneReads(a, b, t) ==
    /\ NextNew(a) /\ b \in Rows /\ t \in tasks
    /\ request' = [request EXCEPT ![a] =
          Request("clone", IF ByReference THEN "insert" ELSE "copy", [asset[b] EXCEPT !.task = t])]
    /\ mishap' = Mishap("race", \E c \in Busy(asset[b].file) : request[c].kind = "delete")
    /\ UNCHANGED <<tasks, asset, objects>>

\* The bytes are copied; the new row keeps the names of the original's shards.
CloneCopies(a) ==
    /\ request[a].step = "copy"
    /\ IF request[a].row.file \in objects
       THEN /\ objects' = objects \cup {FileOf(a)}
            /\ request' = [request EXCEPT ![a].row.file = FileOf(a), ![a].step = "insert"]
            /\ mishap' = Mishap("named", TRUE)
       ELSE request' = Done(a) /\ UNCHANGED <<objects, mishap>>
    /\ UNCHANGED <<tasks, asset>>
-----------------------------------------------------------------------------
(* delete_asset, delete_task *)

\* Mutant: only the rows of the same task are asked.
OthersOfTask(a) == {b \in Rows \ {a} : asset[b].file = asset[a].file /\ asset[b].task = asset[a].task}
\* has_other_with_file_path
OthersWithFile(a) == {b \in Rows \ {a} : asset[b].file = asset[a].file}

DeleteLooks(a) ==
    /\ request[a] = Quiet /\ a \in Rows /\ asset[a].task \in tasks
    /\ request' = [request EXCEPT ![a] =
          Request("delete", IF OthersWithFile(a) = {} THEN "unlink" ELSE "drop", asset[a])]
    /\ mishap' = Mishap("race", Busy(asset[a].file) # {})
    /\ UNCHANGED <<tasks, asset, objects>>

\* The shards first, the file, then the row.  What an S3 store refuses to delete is kept and
\* nobody is told; what a local one refuses ends the request, with the row in place.
Unlink(a) ==
    /\ request[a].step = "unlink"
    /\ LET file == request[a].row.file
           shard == request[a].row.shard
       IN \/ \E stay \in SUBSET {file, shard} :
                /\ stay # {} => OnS3
                /\ objects' = objects \ ({file, shard} \ stay)
                /\ mishap' = Mishap("kept", stay # {})
                /\ request' = Go(a, "drop")
          \/ \E gone \in SUBSET {shard} :
                /\ ~OnS3 /\ objects' = objects \ gone
                /\ mishap' = Mishap("torn", gone # {})
                /\ request' = Done(a)
    /\ UNCHANGED <<tasks, asset>>

\* The row's deletion is committed, or that fails: the row stays, without its files.
DropRow(a) ==
    /\ request[a].step = "drop" /\ request' = Done(a)
    /\ \/ asset' = [asset EXCEPT ![a] = NoRow] /\ UNCHANGED mishap
       \/ /\ UNCHANGED asset
          /\ mishap' = Mishap("torn", {asset[a].file, asset[a].shard} \ objects # {})
    /\ UNCHANGED <<tasks, objects>>

\* The rows of the task's files stay, and delete_asset refuses them from now on.
DeleteTask(t) ==
    /\ t \in tasks /\ tasks' = tasks \ {t}
    /\ UNCHANGED <<asset, objects, request, mishap>>
-----------------------------------------------------------------------------
AssetInit ==
    /\ store \in {"s3", "reference", "copy"}
    /\ tasks = Tasks /\ asset = [a \in Assets |-> NoRow] /\ objects = {}
    /\ request = [a \in Assets |-> New] /\ mishap = {}

AssetStep(a) ==
    \/ \E t \in Tasks : Upload(a, t) \/ \E d \in Sessions : Finalize(a, d, t)
    \/ \E b \in Assets \ {a}, t \in Tasks : CloneReads(a, b, t)
    \/ StoreShards(a) \/ Insert(a) \/ CloneCopies(a)
    \/ DeleteLooks(a) \/ Unlink(a) \/ DropRow(a)
AssetNext ==
    /\ UNCHANGED store
    /\ \/ \E a \in Assets : AssetStep(a)
       \/ \E d \in Sessions : ClientPuts(d)
       \/ \E t \in Tasks : DeleteTask(t)
AssetSpec == AssetInit /\ [][AssetNext]_assetVars
-----------------------------------------------------------------------------
(* Properties *)

AssetTypeOK ==
    /\ tasks \subseteq Tasks /\ \A a \in Rows : asset[a].task \in Tasks
    /\ \A a \in Assets : request[a].step \in
          {"new", "idle", "shards", "insert", "copy", "unlink", "drop"}
    /\ mishap \subseteq {"race", "named", "torn", "left", "kept"}

\* Whatever is uploaded, cloned, finalized twice and deleted: the file of a row exists, and
\* so do its shards, until the deletion of the last row that has the file is at work.  Left
\* aside are a clone or a deletion that overlaps a deletion of the same file, a failed upload
\* that removes what another row has, a deletion that fails half-way, and the shards that two
\* different files have in common.
RowsAreWhole ==
    \A a \in Rows : request[a].kind # "delete" =>
        /\ asset[a].file \in objects \/ mishap \cap {"race", "torn"} # {}
        /\ asset[a].shard \in objects \/ mishap \cap {"race", "torn", "named"} # {}

\* Nothing is left in the store that no row and no request names, unless the insert of a
\* row or the removal of an object has failed, or requests for one file have overlapped.
NoOrphans ==
    mishap \cap {"race", "left", "kept"} = {} =>
        \A o \in objects :
            \/ \E a \in Assets : o \in {asset[a].file, asset[a].shard,
                                        request[a].row.file, request[a].row.shard}
            \/ \E d \in Sessions : o = Put(d)

\* Rows have their files, and files have a row or a request that knows of them.
StoreIsKept == RowsAreWhole /\ NoOrphans
=============================================================================
