------------------------------ MODULE Stations ------------------------------
(* What a node knows about the other stations (iotdata_node_stations.h): the *)
(* filter, an array without order whose last entry fills the hole of a       *)
(* removed one, and the stations heard, an array whose stalest row a newcomer*)
(* takes when it is full.  Beside them what the filter stands for, a rule per*)
(* station, and when each station was really heard.                          *)
EXTENDS Integers, Sequences, FiniteSets

CONSTANTS
    Station, FilterMax, StationsMax,
    Kind,       \* what a station can be noted as, "unknown" among them
    Ticks,      \* the millisecond counter wraps here
    Horizon     \* time the model runs for

Action == {"block", "allow"}
Source == {"manual", "auto"}
Scope == {"all"} \cup Source

StationsAssumption ==
    /\ IsFiniteSet(Station) /\ "unknown" \in Kind
    /\ {FilterMax, StationsMax} \subseteq Nat \ {0}
    /\ Ticks \in Nat \ {0, 1}

VARIABLES
    filter,     \* filter_t.e up to count
    table,      \* stations_t.s up to count
    start,      \* the counter at power on
    since,      \* the time since then
    rules,      \* history: what was asked of the filter, as a partial function
    lastHeard   \* history: when each station was last heard since the last clear

vars == <<filter, table, start, since, rules, lastHeard>>
filterVars == <<filter, rules>>
tableVars == <<table, lastHeard, start, since>>

Init ==
    /\ filter = <<>> /\ rules = <<>>
    /\ table = <<>> /\ lastHeard = <<>>
    /\ start \in {0, Ticks - 2} /\ since = 0

-----------------------------------------------------------------------------
(* The filter.                                                               *)

\* filter_locate
Slots(list, s) == {i \in 1 .. Len(list) : list[i].station = s}

\* The last entry moves into the hole.
Without(list, i) ==
    [j \in 1 .. Len(list) - 1 |-> IF j = i THEN list[Len(list)] ELSE list[j]]

Entry(s, action, source) == [station |-> s, action |-> action, source |-> source]

Insert(s, action, source) ==
    LET e == Entry(s, action, source)
        at == Slots(filter, s)
    IN  \/ /\ at # {}
           /\ filter' = [filter EXCEPT ![CHOOSE i \in at : \A j \in at : i <= j] = e]
           /\ rules' = [t \in DOMAIN rules \cup {s} |-> IF t = s THEN e ELSE rules[t]]
        \/ /\ at = {} /\ Len(filter) < FilterMax
           /\ filter' = Append(filter, e)
           /\ rules' = [t \in DOMAIN rules \cup {s} |-> IF t = s THEN e ELSE rules[t]]
        \/ at = {} /\ Len(filter) = FilterMax /\ UNCHANGED filterVars

Remove(s) ==
    LET at == Slots(filter, s)
    IN  /\ at # {}
        /\ filter' = Without(filter, CHOOSE i \in at : \A j \in at : i <= j)
        /\ rules' = [t \in DOMAIN rules \ {s} |-> rules[t]]

Covered(e, scope) == scope = "all" \/ e.source = scope

ClearedSkips(scope) ==   \* a slip
    LET walk[n \in 0 .. Len(filter)] ==
            IF n = 0 THEN [list |-> filter, i |-> 1]
            ELSE LET w == walk[n - 1]
                 IN  IF w.i > Len(w.list) THEN w
                     ELSE IF Covered(w.list[w.i], scope)
                          THEN [list |-> Without(w.list, w.i), i |-> w.i + 1]
                          ELSE [w EXCEPT !.i = @ + 1]
    IN  walk[Len(filter)].list

\* filter_clear: the entry that moved into the hole is looked at next.
Cleared(scope) ==
    LET walk[n \in 0 .. Len(filter)] ==   \* the list and the index after n steps
            IF n = 0 THEN [list |-> filter, i |-> 1]
            ELSE LET w == walk[n - 1]
                 IN  IF w.i > Len(w.list) THEN w
                     ELSE IF Covered(w.list[w.i], scope)
                          THEN [list |-> Without(w.list, w.i), i |-> w.i]
                          ELSE [w EXCEPT !.i = @ + 1]
    IN  walk[Len(filter)].list

Clear(scope) ==
    /\ filter' = Cleared(scope)
    /\ rules' = [t \in {u \in DOMAIN rules : ~Covered(rules[u], scope)} |-> rules[t]]

\* filter_allows: a block wins, and one allow makes the rest unwelcome.
Allows(s) ==
    LET entries == {filter[i] : i \in 1 .. Len(filter)}
        allow == {e.station : e \in {x \in entries : x.action = "allow"}}
        block == {e.station : e \in {x \in entries : x.action = "block"}}
    IN  s \notin block /\ (allow = {} \/ s \in allow)

-----------------------------------------------------------------------------
(* The stations heard.                                                       *)

Ms == (start + since) % Ticks

\* slot_oldest: the first row with the smallest clock
Oldest ==
    CHOOSE i \in 1 .. Len(table) :
        /\ \A j \in 1 .. Len(table) : table[i].last <= table[j].last
        /\ \A j \in 1 .. i - 1 : table[j].last > table[i].last

Row(s, kind) == [station |-> s, kind |-> kind, last |-> Ms]

\* A frame comes to the filter first; what it admits is noted.
Seen(s) ==
    /\ Allows(s)
    /\ lastHeard' = [t \in DOMAIN lastHeard \cup {s} |-> IF t = s THEN since ELSE lastHeard[t]]
    /\ LET at == Slots(table, s)
       IN  \/ \E i \in at : table' = [table EXCEPT ![i].last = Ms]
           \/ /\ at = {} /\ Len(table) < StationsMax
              /\ table' = Append(table, Row(s, "unknown"))
           \/ /\ at = {} /\ Len(table) = StationsMax
              /\ table' = [table EXCEPT ![Oldest] = Row(s, "unknown")]
    /\ UNCHANGED <<start, since>>

\* stations_note_kind: unknown says nothing, an absent station stays absent.
NoteKind(s, kind) ==
    /\ \E i \in Slots(table, s) :
          kind # "unknown" /\ table' = [table EXCEPT ![i].kind = kind]
    /\ UNCHANGED <<lastHeard, start, since>>

ClearStations ==
    /\ table' = <<>> /\ lastHeard' = <<>> /\ UNCHANGED <<start, since>>

Later ==
    /\ since < Horizon /\ since' = since + 1
    /\ UNCHANGED <<table, lastHeard, start>>

Next ==
    \/ /\ \/ \E s \in Station, a \in Action, src \in Source : Insert(s, a, src)
          \/ \E s \in Station : Remove(s)
          \/ \E scope \in Scope : Clear(scope)
       /\ UNCHANGED tableVars
    \/ /\ \/ \E s \in Station : Seen(s) \/ (\E k \in Kind : NoteKind(s, k))
          \/ ClearStations \/ Later
       /\ UNCHANGED filterVars

Spec == Init /\ [][Next]_vars

-----------------------------------------------------------------------------
\* The array is the rules that were asked for, one entry each, through any
\* holes and refills.
FilterIsItsRules ==
    /\ Len(filter) = Cardinality(DOMAIN rules)
    /\ \A i \in 1 .. Len(filter) :
          filter[i].station \in DOMAIN rules /\ filter[i] = rules[filter[i].station]

\* Until the counter wraps, no station that lost its row was heard later than
\* one that has a row: "the stalest station was evicted".
RecentAreKept ==
    start + since < Ticks =>
        \A s \in DOMAIN lastHeard : Slots(table, s) = {} =>
            \A i \in 1 .. Len(table) : lastHeard[table[i].station] >= lastHeard[s]

OneRowEach ==
    \A i, j \in 1 .. Len(table) : table[i].station = table[j].station => i = j

StationsAreSound == FilterIsItsRules /\ RecentAreKept /\ OneRowEach
=============================================================================
