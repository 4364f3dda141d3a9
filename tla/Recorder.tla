------------------------------ MODULE Recorder ------------------------------
(* The flight recorder of a node (iotdata_node_diagnostics.h) over the       *)
(* blackbox library, which is external: a store of lines, stamped by this    *)
(* header's clock, read back from a cursor.  The clock's counter lives in    *)
(* memory a reset keeps and a power cut fills with garbage; a dump drains a  *)
(* chunk a pass while records go on; what was recorded is text, and is read  *)
(* back from text.                                                           *)
EXTENDS Integers, Sequences, FiniteSets, SequencesExt

CONSTANTS
    Records,    \* what is recorded: [tag, values] or [tag, rail, key, value]
    Absent,     \* a field's "not measured"
    KeyMax,     \* length of a PWD key
    Chunk,      \* IOTDATA_NODE_DIAGNOSTICS_DUMP_CHUNK
    MaxStored, MaxSeq, MaxSession   \* bounds of the model

RecorderAssumption == {KeyMax, Chunk} \subseteq Nat \ {0}

VARIABLES
    clock,      \* RTC: magic word, seq
    ready, enabled,
    dump,       \* active, cursor, count
    store,      \* records in the blackbox: stamp, session, line, what was meant
    session,    \* history: power cuts so far
    said        \* history: places of the store the running dump has printed

vars == <<clock, ready, enabled, dump, store, session, said>>

Garbage == [magic |-> FALSE, seq |-> MaxSeq]    \* what a cold start finds
NoDump == [active |-> FALSE, cursor |-> 0, count |-> 0]

Init ==
    /\ clock = Garbage
    /\ ready = FALSE /\ enabled = TRUE /\ dump = NoDump
    /\ store = <<>> /\ session = 0 /\ said = <<>>

-----------------------------------------------------------------------------
(* The lines.  Fields are positional and may be empty; a number is one       *)
(* symbol, a text a sequence of symbols.                                     *)

Comma == ","
PrintedAsZero(value) == <<IF value = Absent THEN "0" ELSE value>>   \* a slip

Printed(value) == IF value = Absent THEN <<>> ELSE <<value>>

Joined(fields) ==
    LET line[i \in 1 .. Len(fields)] ==
            IF i = 1 THEN fields[1] ELSE line[i - 1] \o <<Comma>> \o fields[i]
    IN  line[Len(fields)]

\* iotdata_node_bb__enc_...
Encode(r) ==
    IF r.tag = "PWD" THEN Joined(<<<<r.rail>>, r.key, r.value>>)
    ELSE Joined([i \in 1 .. Len(r.values) |-> Printed(r.values[i])])

\* iotdata_node_bb__field: the line from its idx-th field on, or nothing.
Commas(line) == {i \in 1 .. Len(line) : line[i] = Comma}
FieldAt(line, idx) ==
    IF idx = 0 THEN line
    ELSE IF Cardinality(Commas(line)) < idx THEN <<>>
    ELSE LET c == CHOOSE i \in Commas(line) :
                      Cardinality({j \in Commas(line) : j <= i}) = idx
         IN  SubSeq(line, c + 1, Len(line))

Missing(field) == field = <<>> \/ field[1] \in {Comma, "nl"}
Number(line, idx) ==
    LET f == FieldAt(line, idx) IN IF Missing(f) THEN Absent ELSE f[1]

\* iotdata_node_bb__field_str: up to the next comma, or to the end of the line.
Text(line, idx, to_end) ==
    LET f == FieldAt(line, idx)
        stop == {i \in 1 .. Len(f) : f[i] = (IF to_end THEN "nl" ELSE Comma)}
        first == CHOOSE i \in stop : \A j \in stop : i <= j
    IN  IF Missing(f) THEN <<>> ELSE IF stop = {} THEN f ELSE SubSeq(f, 1, first - 1)

Unreadable == [tag |-> "none"]

\* iotdata_node_bb__dec_...: the fields that are never absent decide.
Needed(tag) == IF tag = "PWS" THEN 2 ELSE 1
Decode(tag, line, width) ==
    IF Missing(FieldAt(line, Needed(tag))) THEN Unreadable
    ELSE IF tag = "PWD"
         THEN [tag |-> tag, rail |-> Number(line, 0),
               key |-> Text(line, 1, FALSE), value |-> Text(line, 2, TRUE)]
         ELSE [tag |-> tag, values |-> [i \in 1 .. width |-> Number(line, i - 1)]]

\* iotdata_node_blackbox_power_detail keeps what fits of a key.
Fitted(r) ==
    IF r.tag = "PWD" /\ Len(r.key) > KeyMax THEN [r EXCEPT !.key = SubSeq(@, 1, KeyMax)]
    ELSE r

-----------------------------------------------------------------------------
(* The recorder.                                                             *)

\* blackbox_insert and the clock it asks: not while disabled.
Record(r, seq, on) ==
    IF on /\ Len(store) < MaxStored /\ seq < MaxSeq
    THEN /\ store' = Append(store, [seq |-> seq + 1, session |-> session,
                                    line |-> Encode(Fitted(r)), meant |-> Fitted(r)])
         /\ clock' = [magic |-> TRUE, seq |-> seq + 1]
    ELSE UNCHANGED store /\ clock' = [magic |-> TRUE, seq |-> seq]

Lifecycle == [tag |-> "LC", values |-> <<"event", "reason">>]

\* iotdata_node_diagnostics_begin and _begin_conf: a store that does not open,
\* or whose name does not fit, leaves the recorder off.
Begin ==
    /\ ~ready
    /\ LET seq == IF clock.magic THEN clock.seq ELSE 0
       IN  \/ /\ ready' = TRUE /\ enabled' \in BOOLEAN
              /\ Record(Lifecycle, seq, enabled')
           \/ /\ clock' = [magic |-> TRUE, seq |-> seq]
              /\ UNCHANGED <<ready, enabled, store>>
           \/ UNCHANGED <<clock, ready, enabled, store>>
    /\ UNCHANGED <<dump, session, said>>

\* iotdata_node_diagnostics_end, which only a host calls
End ==
    /\ ready /\ ready' = FALSE
    /\ Record(Lifecycle, clock.seq, enabled)
    /\ UNCHANGED <<enabled, dump, session, said>>

\* ..._event, _power, _power_source, _power_detail
Happens(r) ==
    /\ ready
    /\ Record(r, clock.seq, enabled)
    /\ UNCHANGED <<ready, enabled, dump, session, said>>

\* iotdata_node_diagnostics_control: enable, clear, dump
Enable(on) ==
    /\ ready /\ enabled' = on
    /\ UNCHANGED <<clock, ready, dump, store, session, said>>

Clear ==
    /\ ready
    /\ dump' = [dump EXCEPT !.active = FALSE]
    /\ store' = <<>>
    /\ UNCHANGED <<clock, ready, enabled, session, said>>

DumpStart ==
    /\ ready
    /\ dump' = [active |-> TRUE, cursor |-> 0, count |-> 0]
    /\ said' = <<>>
    /\ UNCHANGED <<clock, ready, enabled, store, session>>

\* iotdata_node_diagnostics_pump: one chunk of a pass
Pump ==
    /\ ready /\ dump.active
    /\ LET left == Len(store) - dump.cursor
           n == IF left < Chunk THEN left ELSE Chunk
       IN  /\ said' = said \o [i \in 1 .. n |-> dump.cursor + i]
           /\ dump' = [active |-> n = Chunk, cursor |-> dump.cursor + n,
                       count |-> dump.count + n]
    /\ UNCHANGED <<clock, ready, enabled, store, session>>

\* A reset, a panic, a deep sleep: the pool and the counter survive.
Reset ==
    /\ ready' = FALSE /\ enabled' = TRUE /\ dump' = NoDump /\ said' = <<>>
    /\ UNCHANGED <<clock, store, session>>

\* A power cut: the reset-surviving memory is garbage, the store is durable.
Cut ==
    /\ session < MaxSession /\ session' = session + 1
    /\ clock' = Garbage
    /\ ready' = FALSE /\ enabled' = TRUE /\ dump' = NoDump /\ said' = <<>>
    /\ UNCHANGED store

Next ==
    \/ Begin \/ End \/ Clear \/ DumpStart \/ Pump \/ Reset \/ Cut
    \/ \E r \in Records : Happens(r)
    \/ \E on \in BOOLEAN : Enable(on)

Spec == Init /\ [][Next]_vars

-----------------------------------------------------------------------------
\* Within one power session records keep their order across every reset.
SeqGoesOn ==
    \A i, j \in 1 .. Len(store) :
        i < j /\ store[i].session = store[j].session => store[i].seq < store[j].seq

\* A dump prints every record once and in order, and counts what it prints,
\* whatever was recorded, cleared or restarted while it ran.
DumpIsWhole ==
    dump.active => /\ dump.count = Len(said)
                   /\ said = [i \in 1 .. dump.count |-> i]
                   /\ dump.count <= Len(store)

\* A record reads back as it was meant, "not measured" included, unless its key
\* holds the separator or is empty.
ReadsBack ==
    \A i \in 1 .. Len(store) :
        LET r == store[i].meant
            clear == r.tag # "PWD" \/ (r.key # <<>> /\ Comma \notin {r.key[j] : j \in 1 .. Len(r.key)}
                                       /\ "nl" \notin {r.value[j] : j \in 1 .. Len(r.value)})
            width == IF r.tag = "PWD" THEN 3 ELSE Len(r.values)
        IN  clear => Decode(r.tag, store[i].line, width) = r

RecorderIsSound == SeqGoesOn /\ DumpIsWhole /\ ReadsBack
=============================================================================
