----------------------------- MODULE FileStore -----------------------------
(* The directory a Linux node keeps its content in                          *)
(* (device/d_module_filestore_linux.h), one file per content id, as the     *)
(* operators the content store calls on it.  A store is a record of the     *)
(* files, as they will be once stdio has written down what it still holds,  *)
(* and the one file open for writing.  What a call may do beside succeed is *)
(* in Faults; a file's bytes are a sequence of blocks.                      *)
(*                                                                          *)
(* The other two backends promise the same through the same seam: the RAM   *)
(* one (d_module_filestore_ram.h) has the refusals this one meets as faults *)
(* and SPIFFS (d_module_filestore_esp32.h) the append rule.                 *)
EXTENDS Naturals, Sequences

CONSTANTS Ids,     \* content ids, scratch and real
          Blocks,  \* the values a block of bytes can have
          Budget,  \* what content may occupy, in blocks
          Absent,  \* in place of the bytes of a file that is not there
          Faults   \* which calls may fail: "write", "rename", "flush"

ASSUME FileStoreAssumption ==
  /\ Ids \subseteq Nat
  /\ Budget \in Nat
  /\ Absent \notin Seq(Blocks)
  /\ Faults \subseteq {"write", "rename", "flush"}

Closed == [id |-> 0, total |-> 0]

Stores == [file : [Ids -> Seq(Blocks) \cup {Absent}],
           wr   : {Closed} \cup [id : Ids, total : Nat \ {0}]]

Stat(fs, id) == fs.file[id] # Absent

(* What is stored, the file being written included. *)
Bytes(fs, id) == IF Stat(fs, id) THEN Len(fs.file[id]) ELSE 0

Release(fs, id) == IF fs.wr.id = id THEN [fs EXCEPT !.wr = Closed] ELSE fs

Create(fs, id, total) == [file |-> [fs.file EXCEPT ![id] = << >>],
                          wr   |-> [id |-> id, total |-> total]]

(* An append to the file that is open for writing, within the size it was   *)
(* created for, or nothing.                                                 *)
Writable(fs, id, off) ==
  fs.wr.id = id /\ off = Len(fs.file[id]) /\ off < fs.wr.total

Write(fs, id, b) == [fs EXCEPT !.file[id] = Append(@, b)]

Destroy(fs, id) == [Release(fs, id) EXCEPT !.file[id] = Absent]

(* What may be in a file after its writer was flushed: everything, or, when *)
(* the disk would not take it, what it did take.  The result of the flush   *)
(* is not looked at.                                                        *)
Flushed(fs, id) ==
  {SubSeq(fs.file[id], 1, n) :
     n \in IF "flush" \in Faults /\ fs.wr.id = id
           THEN 0 .. Len(fs.file[id]) ELSE {Len(fs.file[id])}}

Rename(fs, from, to, bytes) ==
  [Release(Release(fs, from), to) EXCEPT !.file = [@ EXCEPT ![to] = bytes, ![from] = Absent]]

(* complete() closes a writer that has everything it was opened for. *)
Complete(fs, id) ==
  IF fs.wr.id = id /\ Len(fs.file[id]) = fs.wr.total THEN Release(fs, id) ELSE fs

(* The power goes.  A rename and a destroy were made durable before they    *)
(* returned; the file being written was not, nor was its name.              *)
Survivors(fs) ==
  IF fs.wr = Closed THEN {fs}
  ELSE {[file |-> [fs.file EXCEPT ![fs.wr.id] = bytes], wr |-> Closed] :
          bytes \in {Absent} \cup {SubSeq(fs.file[fs.wr.id], 1, n) :
                                     n \in 0 .. Len(fs.file[fs.wr.id])}}

=============================================================================
