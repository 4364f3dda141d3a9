------------------------------- MODULE Datastore -------------------------------
(* The store of small blobs under a Linux node (d_module_datastore_linux.h),  *)
(* one file for a key, over a file system that loses power: what the state    *)
(* and the configuration of the node are saved with.  A call is not atomic    *)
(* here: the power may go, or the process end, between any two system calls.  *)
EXTENDS Integers

CONSTANTS
    BlobKeys, \* names of blobs
    TempOf,   \* the file a key is written to first: the key with ".tmp".  A key
              \* may end so itself, and would meet another's; the node has none.
    Blobs,    \* contents, by their lengths
    BlobMax   \* DATASTORE_BLOB_MAX

Absent == 0
Torn == -1   \* a part of a content, or nothing

Names == BlobKeys \cup {TempOf[k] : k \in BlobKeys}
Files == {Absent, Torn} \cup Blobs

ASSUME DatastoreAssumption ==
    /\ Blobs \subseteq Nat \ {0} /\ BlobMax \in Nat
    /\ {TempOf[k] : k \in BlobKeys} \cap BlobKeys = {}
    /\ \A j, k \in BlobKeys : TempOf[j] = TempOf[k] => j = k

VARIABLES
    medium, \* what the directory is on, and whether statfs can tell
    seen,   \* the directory as the process sees it
    disk,   \* the directory as it is on the disk
    dirty,  \* files whose content is not all on the disk
    store,  \* datastore_t: open, persistent
    call,   \* the write in progress
    answer, \* what the last call said
    may     \* history: what a read of each key may find, by what was told

datastoreVars == <<medium, seen, disk, dirty, store, call, answer, may>>

NoCall == [at |-> "none", key |-> CHOOSE k \in BlobKeys : TRUE, blob |-> Absent, before |-> {}]
Empty == [n \in Names |-> Absent]

DatastoreInit ==
    /\ medium \in [volatile : BOOLEAN, known : BOOLEAN]
    /\ seen = Empty /\ disk = Empty /\ dirty = {}
    /\ store = [open |-> FALSE, persistent |-> FALSE]
    /\ call = NoCall /\ answer = "none"
    /\ may = [k \in BlobKeys |-> {Absent}]

-----------------------------------------------------------------------------
(* Calls                                                                     *)

\* datastore_open: a file system that cannot be told is taken to persist.
OpenStore ==
    /\ call.at = "none" /\ ~store.open
    /\ \/ store' = [open |-> TRUE, persistent |-> ~medium.known \/ ~medium.volatile] /\ answer' = "ok"
       \/ store' = [open |-> FALSE, persistent |-> FALSE] /\ answer' = "refused"
    /\ UNCHANGED <<medium, seen, disk, dirty, call, may>>

CloseStore ==
    /\ call.at = "none" /\ store.open
    /\ store' = [store EXCEPT !.open = FALSE]
    /\ UNCHANGED <<medium, seen, disk, dirty, call, answer, may>>

\* datastore_write opens the other file, which loses what it had.
Write(k, b) ==
    /\ store.open /\ call.at = "none" /\ b <= BlobMax
    /\ \/ /\ call' = [at |-> "opened", key |-> k, blob |-> b, before |-> may[k]]
          /\ seen' = [seen EXCEPT ![TempOf[k]] = Torn]
          /\ dirty' = dirty \cup {TempOf[k]}
          /\ may' = [may EXCEPT ![k] = @ \cup {b}] /\ UNCHANGED answer
       \/ answer' = "failed" /\ UNCHANGED <<seen, dirty, call, may>>
    /\ UNCHANGED <<medium, disk, store>>

WriteRefused(b) ==
    /\ call.at = "none" /\ (~store.open \/ b > BlobMax)
    /\ answer' = "refused"
    /\ UNCHANGED <<medium, seen, disk, dirty, store, call, may>>

Temp == TempOf[call.key]
Step(at) == call' = [call EXCEPT !.at = at] /\ UNCHANGED <<medium, store, answer, may>>

\* write, which may bring less than it was given
WriteBlob ==
    /\ call.at = "opened"
    /\ \/ seen' = [seen EXCEPT ![Temp] = call.blob] /\ Step("filled")
       \/ UNCHANGED seen /\ Step("failing")
    /\ UNCHANGED <<disk, dirty>>

\* A slip: the file is closed without waiting for its content to be there.
FsyncNot ==
    /\ call.at = "filled"
    /\ Step("flushed")
    /\ UNCHANGED <<seen, disk, dirty>>

\* fsync and close
Fsync ==
    /\ call.at = "filled"
    /\ \/ dirty' = dirty \ {Temp} /\ Step("flushed")
       \/ UNCHANGED dirty /\ Step("failing")
    /\ UNCHANGED <<seen, disk>>

Rename ==
    /\ call.at = "flushed"
    /\ \/ /\ seen' = [seen EXCEPT ![call.key] = seen[Temp], ![Temp] = Absent]
          /\ dirty' = {IF n = Temp THEN call.key ELSE n : n \in dirty \ {call.key}}
          /\ Step("renamed")
       \/ UNCHANGED <<seen, dirty>> /\ Step("failing")
    /\ UNCHANGED disk

\* The directory is brought to the disk too, when it can be opened.  The call
\* says it went well either way.
Sync ==
    /\ call.at = "renamed"
    /\ \/ disk' = seen /\ may' = [may EXCEPT ![call.key] = {call.blob}]
       \/ UNCHANGED <<disk, may>>
    /\ call' = NoCall /\ answer' = "ok"
    /\ UNCHANGED <<medium, seen, dirty, store>>

\* The other file is taken away, and nothing has changed for who reads the key.
GiveUp ==
    /\ call.at = "failing"
    /\ seen' = [seen EXCEPT ![Temp] = Absent] /\ dirty' = dirty \ {Temp}
    /\ may' = [may EXCEPT ![call.key] = call.before]
    /\ call' = NoCall /\ answer' = "failed"
    /\ UNCHANGED <<medium, disk, store>>

\* datastore_read; a buffer too small gets the first part, and is not told.
Read(k) ==
    /\ call.at = "none"
    /\ answer' = IF store.open /\ seen[k] # Absent THEN "ok" ELSE "refused"
    /\ UNCHANGED <<medium, seen, disk, dirty, store, call, may>>

\* The directory is not brought to the disk: what was erased may come back.
Erase(k) ==
    /\ store.open /\ call.at = "none"
    /\ seen' = [seen EXCEPT ![k] = Absent] /\ dirty' = dirty \ {k}
    /\ may' = [may EXCEPT ![k] = @ \cup {Absent}]
    /\ answer' = "ok"
    /\ UNCHANGED <<medium, disk, store, call>>

-----------------------------------------------------------------------------
(* What may happen to it                                                     *)

Ended == call' = NoCall /\ store' = [open |-> FALSE, persistent |-> FALSE] /\ answer' = "none"

\* The process ends: the files stay as they are.
Kill == Ended /\ UNCHANGED <<medium, seen, disk, dirty, may>>

\* The power goes: of the changes to the directory since it was last brought
\* to the disk each may be there or not, and of a content not brought any part.
PowerLost ==
    /\ IF medium.volatile THEN seen' = Empty
       ELSE \E there \in SUBSET Names, torn \in SUBSET dirty :
              seen' = [n \in Names |-> IF n \notin there THEN disk[n]
                                       ELSE IF n \in torn THEN Torn ELSE seen[n]]
    /\ disk' = seen' /\ dirty' = {}
    /\ may' = [k \in BlobKeys |-> IF medium.volatile THEN {Absent} ELSE may[k]]
    /\ Ended /\ UNCHANGED medium

DatastoreNext ==
    \/ OpenStore \/ CloseStore
    \/ \E k \in BlobKeys : Read(k) \/ Erase(k) \/ \E b \in Blobs : Write(k, b)
    \/ \E b \in Blobs : WriteRefused(b)
    \/ WriteBlob \/ Fsync \/ Rename \/ Sync \/ GiveUp
    \/ Kill \/ PowerLost

DatastoreSpec == DatastoreInit /\ [][DatastoreNext]_datastoreVars

-----------------------------------------------------------------------------
\* A blob is whole, and is the last one a write told of, or one that was being
\* written when the power went or the process ended; a write that failed leaves
\* what was there.  Only a file system that is volatile forgets, and the store
\* says so when it can tell.
BlobsSurvive ==
    /\ \A k \in BlobKeys : seen[k] \in may[k] /\ seen[k] # Torn
    /\ store.open /\ medium.volatile /\ medium.known => ~store.persistent
    /\ store.open /\ ~medium.volatile => store.persistent

=============================================================================
