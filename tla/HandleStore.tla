---------------------------- MODULE HandleStore ----------------------------
(* The two content backends that keep a file per id and go through stdio:   *)
(* SPIFFS (device/d_module_filestore_esp32.h) and a directory on Linux       *)
(* (device/d_module_filestore_linux.h).  They differ in the rename, and both *)
(* keep handles open between calls: the one file being written, the file     *)
(* read last, and the directory a walk has got to.                           *)
(* Stdio takes down what it holds when a writer is closed: the backends do   *)
(* not look at the result of fclose, and FileStore has the case where it     *)
(* does not.                                                                 *)
EXTENDS Naturals, Sequences, FiniteSets, SequencesExt

CONSTANTS Ids, Values, Absent,
          Foreign,    \* an entry of the directory that is not named as an id
          MaxTotal,   \* the most create() is asked for
          Chunk       \* bytes a chunk of the wire has

HandleStoreAssumption ==
  /\ MaxTotal \in Nat \ {0} /\ Chunk \in Nat \ {0}
  /\ Foreign \notin Ids /\ Absent \notin Seq(Values) /\ Absent \notin Ids

VARIABLES replaces, \* which of the two: Linux's rename takes a name in use
          disk,   \* per id, the bytes on the volume, or Absent
          order,  \* the directory, in the order readdir gives it
          wr,     \* the insert in flight, with what stdio holds of it
          rd,     \* the file read last, with what stdio has read of it
          dir,    \* where the open directory is, or Absent
          walk,   \* the caller's walk: its cursor and what it was given
          was,    \* per id, what was asked of its file and said of it
          last    \* what the last call returned

vars == <<replaces, disk, order, wr, rd, dir, walk, was, last>>

NoWriter == [id |-> Absent, total |-> 0, held |-> 0, down |-> << >>]
NoReader == [id |-> Absent, seen |-> << >>]
NoFile == [asked |-> 0, cut |-> FALSE, told |-> FALSE]
Refused == [did |-> FALSE, bytes |-> << >>]
Done(bytes) == [did |-> TRUE, bytes |-> bytes]
Data == UNION {[1 .. n -> Values] : n \in 1 .. MaxTotal}

Init == /\ replaces \in BOOLEAN /\ disk = [id \in Ids |-> Absent] /\ order = <<Foreign>>
        /\ wr = NoWriter /\ rd = NoReader /\ dir = Absent
        /\ walk = [at |-> 0, got |-> << >>, due |-> {}, ended |-> TRUE]
        /\ was = [id \in Ids |-> NoFile] /\ last = Refused

Refuse == last' = Refused /\ UNCHANGED <<disk, order, wr, rd, dir, walk, was>>

(* A writer that closes puts down what stdio holds. *)
Flushed == [id \in Ids |-> IF id = wr.id THEN disk[id] \o wr.down ELSE disk[id]]
Cut(id) == id = wr.id /\ wr.held < wr.total
WriterAfter(ids) == IF wr.id \in ids THEN NoWriter ELSE wr
ReaderKept(ids) == rd   \* a slip
ReaderAfter(ids) == IF rd.id \in ids THEN NoReader ELSE rd
DiskAfter(ids) == IF wr.id \in ids THEN Flushed ELSE disk

(* A walk under which an entry went is no longer a walk of what is here.    *)
Disturbed == [walk EXCEPT !.due = {}]

Entered(id) == IF Contains(order, id) THEN order ELSE Append(order, id)

(* The entry of a name goes, of which a directory has one. *)
Without(entries, id) ==
  IF Contains(entries, id)
  THEN RemoveAt(entries, CHOOSE k \in DOMAIN entries : entries[k] = id) ELSE entries
Left(id) == Without(order, id)

(* One insert at a time, so an older writer is finished with.               *)
Create(id, total) ==
  /\ wr' = [id |-> id, total |-> total, held |-> 0, down |-> << >>]
  /\ rd' = ReaderAfter({id})
  /\ disk' = [DiskAfter(Ids) EXCEPT ![id] = << >>]
  /\ order' = Entered(id)
  /\ was' = [i \in Ids |-> IF i = id THEN [NoFile EXCEPT !.asked = total]
                           ELSE [was[i] EXCEPT !.cut = @ \/ Cut(i)]]
  /\ last' = Done(<< >>) /\ UNCHANGED <<dir, walk>>

(* fopen() refuses, after the handles were closed. *)
CreateFails(id) ==
  /\ wr' = NoWriter /\ rd' = ReaderAfter({id}) /\ disk' = DiskAfter(Ids)
  /\ was' = [i \in Ids |-> [was[i] EXCEPT !.cut = @ \/ Cut(i)]]
  /\ last' = Refused /\ UNCHANGED <<order, dir, walk>>

(* An append, or nothing. *)
Appends(id, off, n) == wr.id = id /\ off = wr.held /\ off + n <= wr.total

Taken(data) == wr' = [wr EXCEPT !.held = @ + Len(data), !.down = @ \o data]

Write(id, off, data) ==
  IF Appends(id, off, Len(data))
  THEN /\ \/ Taken(data) /\ last' = Done(<< >>)
          \/ \E n \in 0 .. Len(data) - 1 : Taken(SubSeq(data, 1, n)) /\ last' = Refused
       /\ UNCHANGED <<disk, order, rd, dir, walk, was>>
  ELSE Refuse

(* Stdio may take down what it holds whenever it likes. *)
Drains ==
  /\ wr.down # << >> /\ disk' = Flushed /\ wr' = [wr EXCEPT !.down = << >>]
  /\ UNCHANGED <<order, rd, dir, walk, was, last>>

Reader(id) == IF rd.id = id THEN rd ELSE [id |-> id, seen |-> << >>]

(* What fread gives: what the reader has, then what is on the volume.       *)
Seen(id, bytes) ==
  LET have == Reader(id).seen
  IN  IF bytes = Absent THEN have ELSE have \o SubSeq(bytes, Len(have) + 1, Len(bytes))

(* The file being written is flushed and then readable; a short read is     *)
(* refused.                                                                 *)
Read(id, off, n) ==
  LET at == DiskAfter({id})[id]
      seen == Seen(id, at)
      whole == off + n <= Len(seen)
  IN  /\ disk' = DiskAfter({id})
      /\ wr' = IF wr.id = id THEN [wr EXCEPT !.down = << >>] ELSE wr
      /\ IF at = Absent /\ rd.id # id THEN rd' = NoReader /\ last' = Refused
         ELSE /\ rd' = [id |-> id, seen |-> seen]
              /\ last' = IF whole THEN Done(SubSeq(seen, off + 1, off + n)) ELSE Refused
      /\ UNCHANGED <<order, dir, walk, was>>

Destroy(id) ==
  /\ wr' = WriterAfter({id}) /\ rd' = ReaderAfter({id}) /\ dir' = Absent
  /\ disk' = [disk EXCEPT ![id] = Absent] /\ order' = Left(id)
  /\ walk' = Disturbed /\ was' = [was EXCEPT ![id] = NoFile]
  /\ last' = Done(<< >>)

(* Both ends are released and the walk is given up, whatever comes of it;   *)
(* SPIFFS does not rename onto a name in use, so the name is cleared first. *)
Renames(from, to) == IF replaces THEN from # to ELSE TRUE
Moves(from, to) == DiskAfter({from, to})[from] # Absent /\ from # to

Rename(from, to) ==
  /\ Renames(from, to)
  /\ wr' = WriterAfter({from, to}) /\ rd' = ReaderAfter({from, to}) /\ dir' = Absent
  /\ walk' = Disturbed
  /\ \/ /\ Moves(from, to)
        /\ disk' = [DiskAfter({from, to}) EXCEPT ![to] = DiskAfter({from, to})[from],
                                                ![from] = Absent]
        /\ order' = Append(Without(Left(to), from), to)
        /\ was' = [was EXCEPT ![to] = [was[from] EXCEPT !.cut = @ \/ Cut(from)],
                              ![from] = NoFile]
        /\ last' = Done(<< >>)
     \/ /\ disk' = IF replaces THEN DiskAfter({from, to})
                   ELSE [DiskAfter({from, to}) EXCEPT ![to] = Absent]
        /\ order' = IF replaces THEN order ELSE Left(to)
        /\ was' = [i \in Ids |-> IF i = to /\ ~replaces THEN NoFile
                                 ELSE [was[i] EXCEPT !.cut = @ \/ (i \in {from, to} /\ Cut(i))]]
        /\ last' = Refused

RenameRefused(from, to) == ~Renames(from, to) /\ Refuse

(* The size that was asked for is only in RAM, beside the open writer; what *)
(* is on the volume is as long as it is meant to be.                        *)
Stat(id) == IF wr.id = id THEN [total |-> wr.total, held |-> wr.held]
            ELSE [total |-> Len(disk[id]), held |-> Len(disk[id])]

AllThere(id) == disk[id] # Absent /\ Stat(id).held = Stat(id).total

Complete(id) ==
  IF AllThere(id)
  THEN /\ wr' = WriterAfter({id}) /\ disk' = DiskAfter({id})
       /\ was' = [was EXCEPT ![id].told = TRUE]
       /\ last' = Done(<< >>) /\ UNCHANGED <<order, rd, dir, walk>>
  ELSE Refuse

Have(id, c) ==
  /\ disk[id] # Absent
  /\ \/ (c + 1) * Chunk <= Stat(id).held
     \/ c * Chunk < Stat(id).held /\ Stat(id).held = Stat(id).total

(* The caller begins again; nobody tells the store.                         *)
StartWalk ==
  /\ walk' = [at |-> 0, got |-> << >>, due |-> {id \in Ids : disk[id] # Absent}, ended |-> FALSE]
  /\ UNCHANGED <<disk, order, wr, rd, dir, was, last>>

(* The handle is used where it is, or taken to the cursor afresh.           *)
Position == IF dir = walk.at THEN dir ELSE walk.at

Step ==
  LET there == {k \in Position + 1 .. Len(order) : order[k] \in Ids}
      k == CHOOSE k \in there : \A j \in there : k <= j
  IN  /\ ~walk.ended
      /\ IF there = {}
         THEN dir' = Absent /\ walk' = [walk EXCEPT !.ended = TRUE]
         ELSE dir' = k /\ walk' = [walk EXCEPT !.at = k, !.got = Append(@, order[k])]
      /\ UNCHANGED <<disk, order, wr, rd, was, last>>

(* Unmounted or closed, and opened again. *)
Reopen == /\ disk' = DiskAfter(Ids) /\ wr' = NoWriter /\ rd' = NoReader /\ dir' = Absent
          /\ walk' = [walk EXCEPT !.ended = TRUE, !.due = {}, !.got = << >>, !.at = 0]
          /\ was' = [i \in Ids |-> [was[i] EXCEPT !.cut = @ \/ Cut(i)]]
          /\ last' = Refused /\ UNCHANGED order

Handles == \/ \E id \in Ids : Destroy(id) \/ CreateFails(id)
           \/ \E id \in Ids, total \in 1 .. MaxTotal : Create(id, total)
           \/ \E from, to \in Ids : Rename(from, to) \/ RenameRefused(from, to)
           \/ Reopen

(* Values going in and out, and walks over the directory; the two share no   *)
(* state but the names, and are looked at one at a time.                    *)
ByteCalls ==
  \/ \E id \in Ids : Complete(id)
  \/ \E id \in Ids, off \in 0 .. MaxTotal - 1, data \in Data : Write(id, off, data)
  \/ \E id \in Ids, off \in 0 .. MaxTotal - 1, n \in 1 .. MaxTotal : Read(id, off, n)
  \/ Drains
Walks == StartWalk \/ Step

Next == (Handles \/ ByteCalls \/ Walks) /\ UNCHANGED replaces

-----------------------------------------------------------------------------
ContentOf(id) ==
  IF Flushed[id] = Absent THEN Absent
  ELSE [o \in 0 .. Len(Flushed[id]) - 1 |-> Flushed[id][o + 1]]

Seam == INSTANCE ByteStore WITH file <- [id \in Ids |-> ContentOf(id)], reply <- last

(* The handles kept open between calls show through none of them: what is   *)
(* read is what was written, whatever was destroyed, created anew or renamed *)
(* since the handle was opened.                                             *)
KeepsTheSeam == Seam!Spec

(* A file is said to be complete only with everything its insert asked for, *)
(* unless its writer was closed under it; a chunk is claimed with all its   *)
(* bytes; and a walk nothing was taken from gives each file once.           *)
HandlesAreExact ==
  /\ \A id \in Ids : Flushed[id] # Absent /\ ~was[id].cut =>
       /\ was[id].told => Len(Flushed[id]) = was[id].asked
       /\ \A c \in 0 .. MaxTotal :
            Have(id, c) => \A o \in c * Chunk .. (c + 1) * Chunk - 1 :
                             o < was[id].asked => o < Len(Flushed[id])
  /\ IsInjective(walk.got) \/ walk.due = {}
  /\ walk.ended => walk.due \subseteq {walk.got[n] : n \in DOMAIN walk.got}
=============================================================================
