---------------------------- MODULE PagedReport ------------------------------
(* A report that does not fit one frame: the builder packs what fits from a  *)
(* cursor of its own, the frame goes out behind a PARTIAL marker, and the    *)
(* caller asks for the next chunk a cycle later (iotdata_node_partial.h,     *)
(* iotdata_node_report_paged, iotdata_node_config_pack,                      *)
(* iotdata_node_variant_pack, iotdata_node_build_diagnostics).               *)
EXTENDS Integers, Sequences, FiniteSets, FiniteSetsExt

CONSTANTS
  Builder,   \* "config", "variant" or "diagnostics"
  Sizes,     \* what each record needs; 0 is a row that has no encoding
  Budget,    \* what a frame holds
  Retrying   \* whether a caller goes on with a report after a refused frame

Builders == {"config", "variant", "diagnostics"}
Records  == 1 .. Len(Sizes)

PagedAssumption ==
  /\ Builder \in Builders /\ Budget \in Nat \ {0} /\ Retrying \in BOOLEAN
  /\ \A k \in Records : Sizes[k] \in Nat
  /\ Builder # "config" => \A k \in Records : Sizes[k] \in 1 .. Budget

VARIABLES
  partial,   \* the caller's iotdata_node_partial_t
  sequence,  \* the number of the node's next frame
  heard      \* the chunks the air carried of this report: index, records, last

vars == <<partial, sequence, heard>>

Need(S) == MapThenSumSet(LAMBDA k : Sizes[k], S)

(* The records a chunk starting at cursor carries: as many as fit, one after *)
(* the other.                                                                *)
Fits(first, last) ==
  /\ \A k \in first .. last : Sizes[k] > 0
  /\ Need(first .. last) <= Budget
Run(first) == first .. Max({first - 1} \union {k \in first .. Len(Sizes) : Fits(first, k)})

ConfigChunkStops(cursor) == Run(cursor)   \* a slip

(* iotdata_node_config_pack: a row that would not fit an empty frame, or has *)
(* no encoding, is passed over while the frame is empty.                     *)
ConfigChunk(cursor) ==
  LET first == Min({k \in cursor .. Len(Sizes) : Sizes[k] \in 1 .. Budget}
                     \union {Len(Sizes) + 1})
  IN  Run(first)

(* iotdata_node_variant_pack: the first that does not fit ends the chunk.    *)
VariantChunk(cursor) == Run(cursor)

(* iotdata_node_build_diagnostics: the recorder is read from its start, by a *)
(* cursor that does not outlive the call.                                    *)
DiagnosticsChunk == Run(1)

Chunk(cursor) == CASE Builder = "config"      -> ConfigChunk(cursor)
                   [] Builder = "variant"     -> VariantChunk(cursor)
                   [] Builder = "diagnostics" -> DiagnosticsChunk

(* What the builder leaves in the partial: the cursor it would resume at, or *)
(* the start when nothing is left.                                           *)
After(cursor) ==
  LET chunk == Chunk(cursor)
      next  == IF chunk = {} THEN IF Builder = "config" THEN Len(Sizes) + 1 ELSE cursor
               ELSE Max(chunk) + 1
      more  == next <= Len(Sizes)
  IN  [chunk |-> chunk, more |-> more,
       cursor |-> IF Builder = "diagnostics" THEN cursor ELSE IF more THEN next ELSE 1]

Fresh == [id |-> 0, index |-> 0, cursor |-> 1, more |-> TRUE]

(* iotdata_node_report_paged: begin, build, encode, transmit.  The sequence  *)
(* and the index move only when the frame was taken, the cursor when it was  *)
(* built.                                                                    *)
Report(accepted) ==
  LET id    == IF partial.cursor = 1 /\ partial.index = 0 THEN sequence ELSE partial.id
      built == After(partial.cursor)
  IN  /\ partial.more
      /\ IF accepted
         THEN /\ sequence' = sequence + 1
              /\ heard' = Append(heard, [id |-> id, index |-> partial.index,
                                         records |-> built.chunk, last |-> ~built.more])
              /\ partial' = [id |-> id, more |-> built.more, cursor |-> built.cursor,
                             index |-> IF built.more THEN partial.index + Cardinality(built.chunk)
                                                     ELSE 0]
         ELSE /\ partial' = IF Retrying
                            THEN [partial EXCEPT !.id = id, !.cursor = built.cursor,
                                                 !.more = TRUE]
                            ELSE Fresh
              /\ heard' = IF Retrying THEN heard ELSE <<>>
              /\ UNCHANGED sequence

(* The caller starts a report again. *)
Again == ~partial.more /\ partial' = Fresh /\ heard' = <<>> /\ UNCHANGED sequence

LastFrame == 8   \* bound: frames that are numbered

Init == partial = Fresh /\ sequence = 0 /\ heard = <<>>
Next == /\ sequence < LastFrame
        /\ \/ \E accepted \in BOOLEAN : Report(accepted)
           \/ Again
Spec == Init /\ [][Next]_vars

(* Every variable has its type. *)
TypeOK ==
  /\ partial \in [id : Nat, index : Nat, cursor : 1 .. Len(Sizes), more : BOOLEAN]
  /\ sequence \in 0 .. LastFrame
  /\ \A k \in DOMAIN heard : heard[k].records \subseteq Records

(* The chunks of a report follow on from one another: each begins with the   *)
(* record after the last one that went before, numbered by how many went     *)
(* before, under one id; and after the last chunk none is missing.           *)
Sent(n) == UNION {heard[k].records : k \in 1 .. n}
Encodable == {k \in Records : Sizes[k] \in 1 .. Budget}
ReportIsWhole ==
  \A n \in DOMAIN heard :
    /\ heard[n].index = Cardinality(Sent(n - 1))
    /\ heard[n].id = heard[1].id
    /\ heard[n].records \intersect Sent(n - 1) = {}
    /\ heard[n].last => Encodable = Sent(n)
=============================================================================
