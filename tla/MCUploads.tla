------------------------------ MODULE MCUploads ------------------------------
(* The content store; in a scenario of its own the upload over the console   *)
(* that feeds an insert of it line by line; and in others the backends that  *)
(* can be under it, byte by byte.                                            *)
EXTENDS ContentStore

(* Two real ids and two scratch ids, uploads of one and of two blocks, and   *)
(* two consumers: one that would resume what is in scratch, and one for      *)
(* whatever arrives.                                                         *)
Uploads == {<<"a">>, <<"b", "a">>}
Interests == [k \in {1, 2} |-> IF k = 1 THEN {1, 2} ELSE {3, 4}]

CONSTANTS RamIds, Slots,     \* of the backend in RAM
          FileIds, Foreign,  \* of the two that keep a file for each id
          ByteValues, MaxTotal, Chunk

VARIABLES scenario, host, cable, up, insert, sink, down, landed, obeyed,
          faults, strayed, overrun,
          slot, refuse, answer, replaces, disk, order, wr, rd, dir, walk, was, last

(* A file of two windows, a ring of one window and a line, one fault and one *)
(* more attempt after it.                                                    *)
Upload == INSTANCE ConsoleUpload WITH
            Size <- 4, Window <- 2, Ring <- 3, Timeout <- 2, Attempts <- 2,
            MaxFaults <- 1, rx <- insert

(* One value of a byte is enough for a run: bytes of another file, or of an  *)
(* older one, are bytes where none was written.                              *)
Ram    == INSTANCE RamStore WITH Ids <- RamIds, Values <- ByteValues
Volume == INSTANCE HandleStore WITH Ids <- FileIds, Values <- ByteValues

ASSUME UploadsAssumption ==
  /\ Upload!UploadAssumption /\ Ram!RamStoreAssumption
  /\ Volume!HandleStoreAssumption
  /\ Ram!Seam!ByteStoreAssumption /\ Volume!Seam!ByteStoreAssumption

uploadVars == <<host, cable, up, insert, sink, down, landed, obeyed,
                faults, strayed, overrun>>
ramVars == <<slot, refuse, answer>>
handleVars == <<replaces, disk, order, wr, rd, dir, walk, was, last>>
all == <<vars, uploadVars, ramVars, handleVars, scenario>>

Scenarios == {"store", "console", "ram", "bytes", "walk"}

UploadsInit ==
  /\ scenario \in Scenarios /\ Init /\ Upload!Init /\ Ram!Init /\ Volume!Init
  /\ scenario # "store" => \A id \in Ids : store.file[id] = Absent
  /\ scenario # "ram" => refuse = {}
  /\ scenario \notin {"bytes", "walk"} => replaces

InStore(step)   == scenario = "store" /\ step
                   /\ UNCHANGED <<uploadVars, ramVars, handleVars, scenario>>
InConsole(step) == scenario = "console" /\ step
                   /\ UNCHANGED <<vars, ramVars, handleVars, scenario>>
InRam(step)     == scenario = "ram" /\ step
                   /\ UNCHANGED <<vars, uploadVars, handleVars, scenario>>
InVolume(calls, step) == scenario = calls /\ step /\ UNCHANGED replaces
                         /\ UNCHANGED <<vars, uploadVars, ramVars, scenario>>

UploadsNext ==
  \/ InStore(Next) \/ InConsole(Upload!Next) \/ InRam(Ram!Next)
  \/ InVolume("bytes", Volume!Handles \/ Volume!ByteCalls)
  \/ InVolume("walk", Volume!Handles \/ Volume!Walks)

(* The loop ticks, time passes and the console is read, in either scenario.  *)
UploadsSpec ==
  /\ UploadsInit /\ [][UploadsNext]_all
  /\ WF_all(InStore(TickInsert) \/ InConsole(Upload!Tick))
  /\ WF_all(InStore(Elapse) \/ InConsole(Upload!Later))
  /\ WF_all(InConsole(Upload!Console))

(* The store alone, for what its comments say of a failed upload.            *)
StoreSpec == (UploadsInit /\ scenario = "store") /\ [][UploadsNext]_all

(* What arrives over the console is the file that was sent, within its       *)
(* credit, and the console comes back whatever the host does.                *)
UploadServes == [](scenario = "console" => Upload!UploadIsSound) /\ Upload!ConsoleComesBack

(* Whichever backend is under the store, bytes are read back as they were    *)
(* written or not at all, and what it says of a file (that it is complete,   *)
(* that a chunk is there, what a walk finds) is true of the bytes            *)
(* (device/d_module_filestore.h, the seam).                                  *)
BackendsServe ==
  /\ Ram!KeepsTheSeam /\ Volume!KeepsTheSeam
  /\ [](scenario = "ram" => Ram!RamIsExact)
  /\ [](scenario \in {"bytes", "walk"} => Volume!HandlesAreExact)
=============================================================================
