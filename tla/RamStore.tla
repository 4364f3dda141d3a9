------------------------------ MODULE RamStore ------------------------------
(* The content backend in RAM (device/d_module_filestore_ram.h): a few slots,*)
(* each with its bytes and a map of which were written, so a range may come  *)
(* in any order and is read back only when all of it did.  Create, write and *)
(* rename can each be told to refuse once.                                   *)
EXTENDS Naturals, Sequences, FiniteSets, FiniteSetsExt

CONSTANTS Ids, Values, Absent,
          Slots,      \* how many files there is room for
          MaxTotal,   \* bytes a slot holds
          Chunk       \* bytes a chunk of the wire has

RamStoreAssumption ==
  /\ Slots \in Nat \ {0} /\ MaxTotal \in Nat \ {0} /\ Chunk \in Nat \ {0}
  /\ Absent \notin Values

VARIABLES slot,    \* per slot, Unused or a file
          refuse,  \* the refusals that are due
          answer     \* what the last call returned

Unused == [id |-> Absent, total |-> 0, data |-> << >>, map |-> {}]
Refused == [did |-> FALSE, bytes |-> << >>]
Done(bytes) == [did |-> TRUE, bytes |-> bytes]

Used == {s \in 1 .. Slots : slot[s] # Unused}
Find(id) == {s \in Used : slot[s].id = id}
Span(off, n) == off .. off + n - 1
Held(s) == Cardinality(slot[s].map)
Data == UNION {[1 .. n -> Values] : n \in 1 .. MaxTotal}

Init == slot = [s \in 1 .. Slots |-> Unused] /\ refuse \in SUBSET {"create", "write", "rename"}
        /\ answer = Refused

(* The first free slot, or the one the id already has, wiped. *)
Home(id) == IF Find(id) # {} THEN Find(id)
            ELSE LET free == (1 .. Slots) \ Used
                 IN  IF free = {} THEN {} ELSE {Min(free)}

Fails(call) == call \in refuse /\ refuse' = refuse \ {call} /\ answer' = Refused /\ UNCHANGED slot
Refusing == answer' = Refused /\ UNCHANGED <<slot, refuse>>

Create(id, total) ==
  \/ Fails("create")
  \/ "create" \notin refuse /\ Home(id) = {} /\ Refusing
  \/ /\ "create" \notin refuse /\ UNCHANGED refuse /\ answer' = Done(<< >>)
     /\ \E s \in Home(id) :
          slot' = [slot EXCEPT ![s] = [id |-> id, total |-> total,
                                       data |-> [o \in 0 .. MaxTotal - 1 |-> Absent], map |-> {}]]

Fitting(id, off, n) == {s \in Find(id) : off + n <= slot[s].total}

Marked(s, off, n) == slot[s].map \cup Span(off, n)

Write(id, off, data) ==
  \/ Fails("write")
  \/ "write" \notin refuse /\ Fitting(id, off, Len(data)) = {} /\ Refusing
  \/ /\ "write" \notin refuse /\ UNCHANGED refuse /\ answer' = Done(<< >>)
     /\ \E s \in Fitting(id, off, Len(data)) :
          slot' = [slot EXCEPT
                     ![s].data = [o \in DOMAIN @ |-> IF o \in Span(off, Len(data))
                                                     THEN data[o - off + 1] ELSE @[o]],
                     ![s].map = Marked(s, off, Len(data))]

Readable(id, off, n) == {s \in Fitting(id, off, n) : Span(off, n) \subseteq slot[s].map}

Read(id, off, n) ==
  /\ UNCHANGED <<slot, refuse>>
  /\ \/ Readable(id, off, n) = {} /\ answer' = Refused
     \/ \E s \in Readable(id, off, n) :
          answer' = Done([i \in 1 .. n |-> slot[s].data[off + i - 1]])

Wiped(slots) == [s \in 1 .. Slots |-> IF s \in slots THEN Unused ELSE slot[s]]

Destroy(id) == slot' = Wiped(Find(id)) /\ answer' = Done(<< >>) /\ UNCHANGED refuse

Rename(from, to) ==
  \/ Fails("rename")
  \/ "rename" \notin refuse /\ (Find(from) = {} \/ from = to) /\ Refusing
  \/ /\ "rename" \notin refuse /\ from # to /\ UNCHANGED refuse /\ answer' = Done(<< >>)
     /\ \E s \in Find(from) : slot' = [Wiped(Find(to)) EXCEPT ![s].id = to]

Next ==
  \/ \E id \in Ids : Destroy(id) \/ \E total \in 1 .. MaxTotal : Create(id, total)
  \/ \E id \in Ids, off \in 0 .. MaxTotal - 1, data \in Data :
       off + Len(data) <= MaxTotal /\ Write(id, off, data)
  \/ \E id \in Ids, off \in 0 .. MaxTotal - 1, n \in 1 .. MaxTotal : Read(id, off, n)
  \/ \E from, to \in Ids : Rename(from, to)

(* What the questions that change nothing answer. *)
Have(id, c) ==
  \E s \in Find(id) :
    /\ c * Chunk < slot[s].total
    /\ (c * Chunk .. Min({(c + 1) * Chunk, slot[s].total}) - 1) \subseteq slot[s].map
Complete(id) == \E s \in Find(id) : Held(s) = slot[s].total
Walk == [n \in 1 .. Cardinality(Used) |->
           slot[CHOOSE s \in Used : Cardinality({t \in Used : t <= s}) = n].id]

-----------------------------------------------------------------------------
ContentOf(id) ==
  IF Find(id) = {} THEN Absent
  ELSE LET s == CHOOSE s \in Find(id) : TRUE
       IN  [o \in {o \in 0 .. MaxTotal - 1 : slot[s].data[o] # Absent} |-> slot[s].data[o]]

Seam == INSTANCE ByteStore WITH file <- [id \in Ids |-> ContentOf(id)], reply <- answer

(* The slots keep to the seam's promise, call for call.                      *)
KeepsTheSeam == Seam!Spec

(* No id has two slots, so a walk offers a file once, and the store that is  *)
(* exact is: a chunk is claimed when every byte of it was written, and a     *)
(* file is complete when all its chunks are.                                 *)
RamIsExact ==
  /\ \A id \in Ids : Cardinality(Find(id)) <= 1
  /\ Cardinality({Walk[n] : n \in DOMAIN Walk}) = Len(Walk)
  /\ \A id \in Ids, s \in Used :
       slot[s].id = id =>
         /\ \A c \in 0 .. MaxTotal :
              Have(id, c) => \A o \in Span(c * Chunk, Chunk) :
                               o < slot[s].total => slot[s].data[o] # Absent
         /\ Complete(id) <=> \A c \in 0 .. MaxTotal : c * Chunk < slot[s].total => Have(id, c)
=============================================================================
