---------------------------- MODULE ConfigUpdate -----------------------------
(* The settable parameters of a device (iotdata_node_config.h with the row   *)
(* blocks of iotdata_node_config_*.h): a table compiled in, the values in    *)
(* force, the image they are saved as, and the updates that move them, from  *)
(* the air and from the console.                                             *)
(*                                                                           *)
(* A number is what the value's union holds, which a console can make wider  *)
(* than its row (Width stands for 2^16 or 2^32); a reader gets it cut to the *)
(* row.  A string is a pointer: into the row's slot once it was set, into    *)
(* the image's buffer once it was loaded.  The buffer is a sequence of       *)
(* cells, all of them numbers: a record's head, a length, a number's value,  *)
(* a character.                                                              *)
EXTENDS Integers, Sequences, FiniteSets, TLC, SequencesExt

CONSTANTS
  Table,     \* iotdata_node_config_table: a sequence of rows
  Width,     \* how many numbers a row can hold
  Numbers,   \* the numbers that are tried
  Strings,   \* the strings that are tried
  Unknown,   \* the identity of no row
  Pinnable,  \* the rows the command line may name
  Images,    \* images an earlier build may have left
  Longest    \* how many records an update over the air has

Rows   == 1 .. Len(Table)
Flags  == {"reboot", "readonly", "local"}
Fields == {"type", "min", "max", "dflt", "flags", "rule", "other"}
Rules  == {"bounds", "listed", "atMost", "atLeast", "belowNow", "aboveNow",
           "within", "covers"}
RowOK(r) ==
  /\ DOMAIN r = Fields
  /\ r.type \in {"num", "str"} /\ r.flags \subseteq Flags /\ r.rule \in Rules
  /\ r.min <= r.max
  /\ r.rule \notin {"bounds", "listed"} => r.type = "num" /\ r.other \in Rows

ConfigAssumption ==
  /\ \A i \in Rows : RowOK(Table[i])
  /\ Width \in Nat \ {0} /\ Longest \in Nat /\ Unknown \notin Rows
  /\ Pinnable \subseteq Rows

VARIABLES
  value,    \* _iotdata_node_config_value
  slots,    \* _iotdata_node_config_strings
  buffer,   \* _iotdata_node_config_buffer
  image,    \* what the datastore holds under the key, <<>> for nothing
  pinned,   \* _iotdata_node_config_pinned
  told,     \* what the handlers were last told, or read at the start
  asked,    \* the update that came last: who asked, and was anything refused
  held,     \* what a restart would have kept, had every save succeeded
  wide      \* whether a console ever had a number accepted that its row cannot hold

vars == <<value, slots, buffer, image, pinned, told, asked, held, wide>>

IsStr(i)   == Table[i].type = "str"
At(where, first, n) == [at |-> where, first |-> first, len |-> n]

(* The bytes a string's pointer and length name. *)
Bytes(v, s, b, i) ==
  IF v[i].at = "slot" THEN SubSeq(s[i], 1, v[i].len)
                      ELSE SubSeq(b, v[i].first, v[i].first + v[i].len - 1)

(* What a reader sees: the typed accessors cut a number to its row, and a    *)
(* string runs from its pointer to the first zero, past its length if the    *)
(* zero is not there; past its end the buffer is zeros.                      *)
UpToZero(cells) ==
  LET zeros == {k \in DOMAIN cells : cells[k] = 0}
  IN  IF zeros = {} THEN cells
      ELSE SubSeq(cells, 1, (CHOOSE k \in zeros : \A z \in zeros : k <= z) - 1)
Seen(v, s, b, i) ==
  IF ~IsStr(i) THEN v[i] % Width
  ELSE IF v[i].at = "slot" THEN s[i]
  ELSE UpToZero(SubSeq(b, v[i].first, Len(b)))

Read(i) == Seen(value, slots, buffer, i)

(*--------------------------- the image of the table ----------------------*)
(* The head of a record, id and type in one word that is not zero: an odd    *)
(* one for a string.                                                         *)
FirstHead == 100
RowHead(i, str) == FirstHead + 2 * i + (IF str THEN 1 ELSE 0)
HeadRow(h)      == (h - FirstHead) \div 2
HeadIsStr(h)    == (h - FirstHead) % 2 = 1
Record(i, v)  == IF IsStr(i) THEN <<RowHead(i, TRUE), Len(v)>> \o v
                             ELSE <<RowHead(i, FALSE), v % Width>>

(* Write a record over whatever the buffer held there. *)
Over(b, at, cells) ==
  [k \in 1 .. (IF Len(b) > at + Len(cells) THEN Len(b) ELSE at + Len(cells)) |->
     IF k \in at + 1 .. at + Len(cells) THEN cells[k - at]
     ELSE IF k <= Len(b) THEN b[k] ELSE 0]

(* iotdata_node_config_encode over every row, into the buffer some of the    *)
(* strings may still lie in.  A copy onto itself is taken to copy.           *)
Encoded(v, s, b) ==
  FoldLeft(LAMBDA acc, i :
             LET cells == Record(i, IF IsStr(i) THEN Bytes(v, s, acc.b, i) ELSE v[i])
             IN  [b |-> Over(acc.b, acc.at, cells), at |-> acc.at + Len(cells)],
           [b |-> b, at |-> 0], [i \in Rows |-> i])

(* iotdata_node_config_record_read, at cell k: how many cells the record has *)
(* and whose it is; none where it is cut short.                              *)
NoRecord == [cells |-> 0, row |-> Unknown, str |-> FALSE]
RecordAt(b, k) ==
  IF k + 1 > Len(b) THEN NoRecord
  ELSE LET h == b[k]
           cells == IF HeadIsStr(h) THEN 2 + b[k + 1] ELSE 2
           known == HeadRow(h) \in Rows /\ IsStr(HeadRow(h)) = HeadIsStr(h)
       IN  IF k + cells - 1 > Len(b) THEN NoRecord
           ELSE [cells |-> cells, row |-> IF known THEN HeadRow(h) ELSE Unknown,
                 str |-> HeadIsStr(h)]

(* The cells at which the records of an image start. *)
Starts(b) ==
  LET step(acc, n) ==
        IF acc.stop \/ acc.at > Len(b) THEN acc
        ELSE LET r == RecordAt(b, acc.at)
             IN  IF r.cells = 0 THEN [acc EXCEPT !.stop = TRUE]
                 ELSE [acc EXCEPT !.at = @ + r.cells, !.found = Append(@, acc.at)]
  IN  FoldLeft(step, [at |-> 1, found |-> <<>>, stop |-> FALSE],
               [n \in 1 .. Len(b) |-> n]).found

Defaults ==
  [i \in Rows |-> IF IsStr(i) THEN At("slot", 1, Len(Table[i].dflt)) ELSE Table[i].dflt]
DefaultSlots == [i \in Rows |-> IF IsStr(i) THEN Table[i].dflt ELSE <<>>]

(* iotdata_node_config_load: the defaults first, then every record that the  *)
(* table still knows, the last of a row winning; a string stays in the image.*)
Loaded(b) ==
  FoldLeft(LAMBDA v, k :
             LET r == RecordAt(b, k)
             IN  IF r.row = Unknown THEN v
                 ELSE [v EXCEPT ![r.row] = IF r.str THEN At("image", k + 2, b[k + 1])
                                                    ELSE b[k + 1]],
           Defaults, Starts(b))

PeekInForce(u, i) == value[i]   \* a slip

(*--------------------------- staging --------------------------------------*)
(* iotdata_node_config_update_peek: the staged value, else the one in force. *)
Peek(u, i) == IF i \in DOMAIN u.staged THEN u.staged[i] ELSE value[i]

(* The bounds of a number are its value, those of a string its length. *)
Bounds(i, v) ==
  LET m == IF IsStr(i) THEN Len(v) ELSE v IN m \in Table[i].min .. Table[i].max

(* The rules between rows.  The mesh, the broker's delays and the cart peek  *)
(* at the update; the battery looks at what is in force.  A row with a rule  *)
(* of its own has no other bounds.                                           *)
MeshAndBrokerRule(i, v, u) ==
  \/ Table[i].rule = "atMost"  /\ v <= Peek(u, Table[i].other)
  \/ Table[i].rule = "atLeast" /\ v >= Peek(u, Table[i].other)
BatteryRule(i, v) ==
  \/ Table[i].rule = "belowNow" /\ v < Read(Table[i].other)
  \/ Table[i].rule = "aboveNow" /\ v > Read(Table[i].other)
PerMinute == 2   \* stands for the sixty seconds of the cart's limit
CartRule(i, v, u) ==
  \/ Table[i].rule = "within" /\ v < Peek(u, Table[i].other) * PerMinute
  \/ Table[i].rule = "covers" /\ v * PerMinute > Peek(u, Table[i].other)
RadioRule(i, v) == Table[i].rule = "listed" /\ v \in Table[i].other

Validate(i, v, u) ==
  \/ Table[i].rule = "bounds" /\ Bounds(i, v)
  \/ MeshAndBrokerRule(i, v, u)
  \/ BatteryRule(i, v)
  \/ CartRule(i, v, u)
  \/ RadioRule(i, v)

(* iotdata_node_config_refusal *)
Refusal(i, remote) ==
  \/ i \in pinned
  \/ "readonly" \in Table[i].flags
  \/ remote /\ "local" \in Table[i].flags

(* iotdata_node_config_update_begin and _stage: the value is staged before   *)
(* it is validated; a refusal takes it back and rejects the whole update.    *)
Begin == [staged |-> <<>>, rejected |-> FALSE]
Stage(u, i, v, remote) ==
  LET with == [u EXCEPT !.staged = (i :> v) @@ @]
  IN  IF Refusal(i, remote) \/ ~Validate(i, v, with) THEN [u EXCEPT !.rejected = TRUE]
                                                     ELSE with

(*--------------------------- commit ---------------------------------------*)
Moved(u) ==
  {i \in DOMAIN u.staged :
     (IF IsStr(i) THEN Bytes(value, slots, buffer, i) ELSE value[i]) # u.staged[i]}

(* iotdata_node_config_update_commit: what moved is put in force, the image  *)
(* is written, and then the handlers of what moved are told; whether the     *)
(* image could be written (saved) is not asked.  A rejected update does      *)
(* nothing, and one that moves nothing is not saved.                         *)
Commit(u, by, saved) ==
  LET moved == IF u.rejected THEN {} ELSE Moved(u)
      after == [i \in Rows |-> IF i \notin moved THEN value[i]
                               ELSE IF IsStr(i) THEN At("slot", 1, Len(u.staged[i]))
                               ELSE u.staged[i]]
      sl    == [i \in Rows |-> IF i \in moved /\ IsStr(i) THEN u.staged[i] ELSE slots[i]]
      enc   == Encoded(after, sl, buffer)
  IN  /\ value' = after
      /\ slots' = sl
      /\ asked' = [by |-> by, refused |-> u.rejected]
      /\ wide' = (wide \/ \E i \in moved : ~IsStr(i) /\ u.staged[i] >= Width)
      /\ IF moved = {} THEN UNCHANGED <<buffer, image, told, held>>
         ELSE /\ buffer' = enc.b
              /\ image' = IF saved THEN SubSeq(enc.b, 1, enc.at) ELSE image
              /\ told' = [i \in Rows |-> IF i \in moved
                                         THEN Seen(after, sl, enc.b, i) ELSE told[i]]
              /\ held' = saved
      /\ UNCHANGED pinned

(* iotdata_node_config_apply: the records in their order, those no row is    *)
(* known for passed over.                                                    *)
WireRecord ==
  [row : {i \in Rows : ~IsStr(i)}, n : Numbers \intersect 0 .. Width - 1, s : {<<>>}]
    \union [row : {Unknown}, n : {0}, s : {<<>>}]
    \union [row : {i \in Rows : IsStr(i)}, n : {0}, s : Strings]

Apply(records, saved) ==
  LET known == SelectSeq(records, LAMBDA r : r.row # Unknown)
      u     == FoldLeft(LAMBDA acc, r : Stage(acc, r.row, IF IsStr(r.row) THEN r.s ELSE r.n, TRUE),
                        Begin, known)
  IN  Commit(u, "air", saved)

(* The console's `conf <name> <value>`: one row, and it is local. *)
Console(i, v, saved) ==
  Commit(Stage(Begin, i, v, FALSE), "console", saved)

(* iotdata_node_config_pin: from the command line, before anything is set. *)
Pin(i) ==
  /\ asked.by = "boot" /\ i \in Pinnable \ pinned
  /\ pinned' = pinned \union {i}
  /\ UNCHANGED <<value, slots, buffer, image, told, asked, held, wide>>

Restart ==
  /\ buffer' = image
  /\ value' = Loaded(image)
  /\ slots' = DefaultSlots
  /\ pinned' = {}
  /\ told' = [i \in Rows |-> Seen(Loaded(image), DefaultSlots, image, i)]
  /\ asked' = [by |-> "boot", refused |-> FALSE]
  /\ held' = TRUE
  /\ UNCHANGED <<image, wide>>

Init ==
  /\ image \in Images
  /\ buffer = image
  /\ value = Loaded(image)
  /\ slots = DefaultSlots
  /\ pinned = {}
  /\ told = [i \in Rows |-> Seen(Loaded(image), DefaultSlots, image, i)]
  /\ asked = [by |-> "boot", refused |-> FALSE]
  /\ held = TRUE /\ wide = FALSE

Next ==
  \/ \E saved \in BOOLEAN :
       \/ \E records \in BoundedSeq(WireRecord, Longest) : Apply(records, saved)
       \/ \E i \in Rows : \E v \in IF IsStr(i) THEN Strings ELSE Numbers :
            Console(i, v, saved)
  \/ \E i \in Rows : Pin(i)
  \/ Restart

Spec == Init /\ [][Next]_vars

(*--------------------------- properties -----------------------------------*)
Numeric == {i \in Rows : ~IsStr(i)}

(* Every variable has its type. *)
TypeOK ==
  /\ DOMAIN value = Rows /\ DOMAIN slots = Rows /\ DOMAIN told = Rows
  /\ \A i \in Rows :
       value[i] \in IF IsStr(i) THEN [at : {"slot", "image"}, first : Nat, len : Nat] ELSE Int
  /\ pinned \subseteq Rows
  /\ held \in BOOLEAN /\ wide \in BOOLEAN
  /\ asked \in [by : {"boot", "air", "console"}, refused : BOOLEAN]

(* Two rows that bound each other and peek at the update stay in order,      *)
(* whatever order and however many updates move them, and through restarts:  *)
(* unless a console once gave one a number its row cannot hold, which a rule *)
(* of its own lets pass (the row's bounds are then not looked at).           *)
PairsHold ==
  ~wide => \A i \in Rows :
             LET o == Table[i].other IN
             /\ Table[i].rule = "atMost" /\ Table[o].rule = "atLeast" => Read(i) <= Read(o)
             /\ Table[i].rule = "within" => Read(i) < Read(o) * PerMinute

(* What is in force is what a restart will find, row by row, as soon as the  *)
(* last commit was written: nothing an earlier failure left out stays out.   *)
RestartKeepsNumbers ==
  held => \A i \in Numeric :
            Seen(Loaded(image), DefaultSlots, image, i) = Read(i)

(* A handler that keeps a copy of its row is never behind: what it was told  *)
(* last is what a reader of the row gets.                                    *)
HandlersAgree == \A i \in Numeric : told[i] = Read(i)

(* A row moves only in an update that refused nothing, and by somebody who   *)
(* may move it: no pinned or read-only row, no local row from the air.  One  *)
(* refused record, wherever it stands, leaves every row as it was.           *)
Moves == {i \in Numeric : Read(i)' # Read(i)}
AllOrNothing ==
  asked'.by # "boot" =>
    \A i \in Moves :
      /\ ~asked'.refused /\ i \notin pinned
      /\ Table[i].flags \intersect
           {"readonly", IF asked'.by = "air" THEN "local" ELSE "readonly"} = {}

(* A string reads as the bytes it has: it ends where it ends. *)
StringsEnd ==
  \A i \in Rows : IsStr(i) => Read(i) = Bytes(value, slots, buffer, i)

(* The battery's floor stays below its ceiling: a pair that would cross is   *)
(* refused.                                                                  *)
BatteryInOrder ==
  ~wide => \A i \in Rows : Table[i].rule = "belowNow" => Read(i) < Read(Table[i].other)

(* No handler acts on a change that is not saved. *)
AnnouncedIsSaved ==
  asked.by # "boot" =>
    \A i \in Numeric :
      told[i] = Seen(Loaded(image), DefaultSlots, image, i)
=============================================================================
