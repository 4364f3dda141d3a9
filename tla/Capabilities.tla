----------------------------- MODULE Capabilities -----------------------------
(* What a node says it has (iotdata_node_version.h): a word of four bits of   *)
(* category and twelve of what there is of it, put together as the node       *)
(* starts, sent with its version, taken apart by who hears it, and passed on  *)
(* as JSON under the categories' names.                                       *)
EXTENDS Integers, Sequences, FiniteSets

CONSTANTS
    Bits,        \* the bits of a mask in use; a mask is a set of them
    Foreign,     \* what other builds send: words, and whether a byte is missing
    Sizes,       \* buffers to pack into, in words
    Builds       \* images: the features each has by itself, and the parts its
                 \* application adds, in the order of its calls

KeysMax == 16     \* IOTDATA_NODE_VERSION_CAPS_COUNT
FeaturesKey == 6  \* IOTDATA_NODE_VERSION_CAPS_FEATURES

CapabilitiesAssumption ==
    /\ Sizes \subseteq Nat
    /\ \A b \in Builds : b.features \subseteq Bits /\ \A i \in DOMAIN b.parts : b.parts[i].key \in Nat
    /\ \A f \in Foreign : \A i \in DOMAIN f.words : f.words[i].key < KeysMax /\ f.words[i].mask \subseteq Bits

VARIABLES
    image,   \* the build that runs, and whether it is past platform_init
    caps,    \* the capabilities in RTC memory, whose stamp is valid
    from,    \* history: the build that began them
    left,    \* what of them its application has not added
    wire,    \* the capabilities of a version report, and how it came
    heard,   \* what the hearer made of it
    shown    \* heard again, through JSON

vars == <<image, caps, from, left, wire, heard, shown>>

Word(key, mask) == [key |-> key, mask |-> mask]

\* caps_get: the first entry of the category
Get(c, key) ==
    LET mine == {i \in DOMAIN c : c[i].key = key}
    IN  IF mine = {} THEN {} ELSE c[CHOOSE i \in mine : \A j \in mine : i <= j].mask

-----------------------------------------------------------------------------
(* iotdata_node_version_caps_add: a category that is there takes the bits too *)

AddRefuses(c, key, mask) ==
    \/ key >= KeysMax \/ mask = {} \/ ~(mask \subseteq Bits)
    \/ Len(c) >= KeysMax /\ \A i \in DOMAIN c : c[i].key # key

\* A slip: each addition is an entry of its own.
AddedBeside(c, key, mask) == Append(c, Word(key, mask))

Added(c, key, mask) ==
    IF \E i \in DOMAIN c : c[i].key = key
    THEN [i \in DOMAIN c |-> IF c[i].key = key THEN Word(key, c[i].mask \cup mask) ELSE c[i]]
    ELSE Append(c, Word(key, mask))

\* The same of a whole list, which stops at the first that is refused
AddAll(words) ==
    LET sum[i \in 0 .. Len(words)] ==
          IF i = 0 THEN [ok |-> TRUE, caps |-> <<>>]
          ELSE LET s == sum[i - 1]
               IN  IF ~s.ok \/ AddRefuses(s.caps, words[i].key, words[i].mask) THEN [s EXCEPT !.ok = FALSE]
                   ELSE [s EXCEPT !.caps = Added(@, words[i].key, words[i].mask)]
    IN  sum[Len(words)]

\* iotdata_node_version_caps_parse: an odd length is no list of words.
Parsed(w) == IF w.odd THEN [ok |-> FALSE, caps |-> <<>>] ELSE AddAll(w.words)

\* caps_name and caps_key: the first category of that name.  All proprietary
\* ones have one name.
Name(key) == IF key < 8 THEN key ELSE 8
KeyOf(name) == CHOOSE k \in 0 .. KeysMax - 1 : Name(k) = name /\ \A j \in 0 .. k - 1 : Name(j) # name

\* caps_to_json, and caps_from_json, which passes over what it cannot add
ThroughJson(c) ==
    LET entries == [i \in DOMAIN c |-> [category |-> Name(c[i].key), mask |-> c[i].mask]]
        back[i \in 0 .. Len(entries)] ==
          IF i = 0 THEN <<>>
          ELSE LET key == KeyOf(entries[i].category)
               IN  IF AddRefuses(back[i - 1], key, entries[i].mask) THEN back[i - 1]
                   ELSE Added(back[i - 1], key, entries[i].mask)
    IN  back[Len(entries)]

-----------------------------------------------------------------------------
NotSent == [odd |-> FALSE, words |-> <<>>, own |-> FALSE]
NotHeard == [ok |-> FALSE, caps |-> <<>>]

\* platform_init with a stamp that is not valid, or after a reset by USB:
\* caps_init, the features of the build, and then the application's parts
Begun(b) ==
    /\ image' = [build |-> b, up |-> FALSE]
    /\ caps' = IF b.features = {} THEN <<>> ELSE <<Word(FeaturesKey, b.features)>>
    /\ from' = b /\ left' = b.parts
    /\ wire' = NotSent /\ heard' = NotHeard /\ shown' = <<>>

Init ==
    /\ \E b \in Builds :
          /\ image = [build |-> b, up |-> FALSE] /\ from = b /\ left = b.parts
          /\ caps = IF b.features = {} THEN <<>> ELSE <<Word(FeaturesKey, b.features)>>
    /\ wire = NotSent /\ heard = NotHeard /\ shown = <<>>

ColdBoot == \E b \in Builds : Begun(b)

\* Any other reset finds the stamp valid, since it is set before the first part
\* is added, and leaves the list as it is, whichever image runs now.
WarmBoot ==
    /\ \E b \in Builds : image' = [build |-> b, up |-> TRUE]
    /\ wire' = NotSent /\ heard' = NotHeard /\ shown' = <<>>
    /\ UNCHANGED <<caps, from, left>>

\* caps_fn of the application adds the next of its parts.
Add ==
    /\ ~image.up /\ left # <<>>
    /\ LET part == Head(left)
       IN  caps' = IF AddRefuses(caps, part.key, part.mask) THEN caps ELSE Added(caps, part.key, part.mask)
    /\ left' = Tail(left)
    /\ UNCHANGED <<image, from, wire, heard, shown>>

Start ==
    /\ ~image.up /\ left = <<>>
    /\ image' = [image EXCEPT !.up = TRUE]
    /\ UNCHANGED <<caps, from, left, wire, heard, shown>>

\* version_pack: a list too long for its buffer is left out whole.
Pack(size) ==
    /\ image.up /\ wire = NotSent
    /\ wire' = [odd |-> FALSE, own |-> TRUE,
                words |-> IF size < Len(caps) THEN <<>> ELSE caps]
    /\ UNCHANGED <<image, caps, from, left, heard, shown>>

\* Another build's report, which may repeat a category or have empty ones
Receive(f) ==
    /\ image.up /\ wire = NotSent
    /\ wire' = [odd |-> f.odd, words |-> f.words, own |-> FALSE]
    /\ UNCHANGED <<image, caps, from, left, heard, shown>>

\* version_json_key: what does not parse is shown as malformed.
Hear ==
    /\ wire # NotSent /\ heard = NotHeard
    /\ heard' = Parsed(wire)
    /\ shown' = IF heard'.ok THEN ThroughJson(heard'.caps) ELSE <<>>
    /\ UNCHANGED <<image, caps, from, left, wire>>

Next ==
    \/ ColdBoot \/ WarmBoot
    \/ Add \/ Start
    \/ \E size \in Sizes : Pack(size)
    \/ \E f \in Foreign : Receive(f)
    \/ Hear

Spec == Init /\ [][Next]_vars

-----------------------------------------------------------------------------
MaskOf(words, key) == UNION {words[i].mask : i \in {j \in DOMAIN words : words[j].key = key}}

\* What the node of a build has: its features and every part that is one.
Has(b, key) == MaskOf(b.parts, key) \cup IF key = FeaturesKey THEN b.features ELSE {}

\* In whatever order a node is told of its parts, a category is one word with
\* every bit of it, the hearer has the same list or none, and a list made by
\* another build means the union of its words, or is malformed as a whole.
\* Through JSON the public categories stay what they are; the proprietary ones,
\* whose names are one, fall together in the first.
CapabilitiesAreHeard ==
    /\ \A i, j \in DOMAIN caps : caps[i].key = caps[j].key => i = j
    /\ left = <<>> => \A k \in 0 .. KeysMax - 1 : MaskOf(caps, k) = Has(from, k)
    /\ heard.ok /\ wire.own => heard.caps \in {caps, <<>>}
    /\ heard.ok => \A k \in 0 .. KeysMax - 1 : Get(heard.caps, k) = MaskOf(wire.words, k)
    /\ heard.ok => \A k \in 0 .. 7 : Get(shown, k) = Get(heard.caps, k)
    /\ heard.ok => Get(shown, 8) = UNION {Get(heard.caps, k) : k \in 8 .. KeysMax - 1}

\* What does not hold: after an update, or a reset while the parts are added,
\* a node goes on to tell of a list that is another image's, or in part.
CapabilitiesAreItsOwn == image.up => left = <<>> /\ from = image.build

=============================================================================
