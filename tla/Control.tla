------------------------------- MODULE Control -------------------------------
(* Driving a node (iotdata_node_control.h, iotdata_node_content_control.h,   *)
(* the dispatch of iotdata_node_runtime.h): the vocabulary, a command given  *)
(* at a console or as JSON, what it is packed to, and what the nodes it      *)
(* reaches make of it.  The gateway that puts one frame on the air for each  *)
(* target is outside the repository; frames are lost and repeated.           *)
EXTENDS Integers, Sequences, FiniteSets, SequencesExt

CONSTANTS
    Nodes,      \* stations: [id, store, consumer, recorder, fallback]
    Asks,       \* what somebody may want: [name, station, scope, action, content, to]
    TargetsMax, \* IOTDATA_NODE_CONTROL_TARGETS_MAX
    Byte,       \* how many values a byte has
    Garbage,    \* what a content id left unset may hold
    MaxFrames   \* bound: deliveries, repeats included

All == Byte * Byte - 1      \* IOTDATA_STATION_BROADCAST
Unsaid == -1

ControlAssumption ==
    /\ TargetsMax \in Nat \ {0} /\ Byte > 1
    /\ \A n \in Nodes : n.id \in 1 .. All - 1 /\ n.consumer \in {"none", "off", "busy", "ready"}
    /\ \A a \in Asks : a.station \in Unsaid .. All - 1 /\ a.content \in Unsaid .. Byte^3 - 1
    /\ Garbage \subseteq 0 .. Byte^3 - 1

VARIABLES
    ask,        \* history: what was wanted, and by which medium
    refused,    \* the request named more targets than one may
    frames,     \* in the air: the station and the payload, pairs in their order
    left,       \* deliveries the bound still allows
    node        \* per station: stat_requests, stat_commands, stat_refused,
                \* stat_unknown, and as history the keys it was given and what it did

vars == <<ask, refused, frames, left, node>>

-----------------------------------------------------------------------------
(* iotdata_node_control_commands.  A name is the sequence of its words.      *)

Req(name, arg) ==
    [name |-> <<name>>, key |-> "request", subject |-> name, action |-> <<>>, arg |-> arg, fixed |-> 0]
Cmd(name, subject, arg, fixed) ==
    [name |-> name, key |-> "control", subject |-> subject, action |-> name, arg |-> arg, fixed |-> fixed]
\* Enable and disable are one action with an argument fixed by the command.
Switch(name, fixed) ==
    [Cmd(name, "diag", "fixed", fixed) EXCEPT !.action = [name EXCEPT ![3] = "enable"]]

Commands ==
    {Req(name, "none") : name \in {"recv", "vers", "vari", "ctrl", "conf", "diag", "cont"}}
    \cup {Req("stat", "status")}
    \cup {[Req("reports", "reports") EXCEPT !.key = "", !.subject = ""]}
    \cup {Cmd(<<"boot">>, "node", "none", 0), Cmd(<<"node", "rollback">>, "node", "none", 0)}
    \cup {Switch(<<"diag", what, "enable">>, 1) : what \in {"bbox", "cart"}}
    \cup {Switch(<<"diag", what, "disable">>, 0) : what \in {"bbox", "cart"}}
    \cup {Cmd(<<"diag", "bbox", verb>>, "diag", "none", 0) : verb \in {"clear", "dump"}}
    \cup {Cmd(<<"node", what, "dump">>, "stat", "none", 0) : what \in {"stations", "filters"}}
    \cup {Cmd(<<"node", "filters", "update">>, "stat", "station", 0)}
    \cup {Cmd(<<"node", "filters", "clear">>, "stat", "filter", 0)}
    \cup {Cmd(<<"content", verb>>, "cont", "none", 0) : verb \in {"list", "ota"}}
    \cup {Cmd(<<"content", verb>>, "cont", "content", 0) : verb \in {"delete", "inspect", "validate"}}
    \cup {Cmd(<<"content", "ota", "apply">>, "cont", "content", 0)}
    \cup {Cmd(<<"mesh", "peers", "update">>, "mesh", "station", 0)}
    \cup {Cmd(<<"mesh", "peers", verb>>, "mesh", "none", 0) : verb \in {"clear", "dump"}}

\* iotdata_node_control_find
Named(name) == {c \in Commands : c.name = name}

Reportable == {"recv", "vers", "vari", "ctrl", "stat", "conf", "diag", "cont", "sets"}
\* The values of the words: actions and filter scopes count from 0, a status
\* scope of 0 is the default.
Actions == <<"none", "block", "allow">>
FilterScopes == <<"all", "manual", "auto">>
StatusScopes == <<"all", "node", "mesh", "stations", "filters", "peers", "content">>
Place(word, names) == CHOOSE k \in DOMAIN names : names[k] = word

Args == [targets |-> <<All>>, overflow |-> FALSE, station |-> 0, status |-> "",
         filter |-> "all", action |-> "none", content |-> 0]

-----------------------------------------------------------------------------
(* A console: a token of a line is a number, or words joined with hyphens.   *)
Number(n) == [number |-> TRUE, value |-> n, words |-> <<>>]
Words(ws) == [number |-> FALSE, value |-> 0, words |-> ws]
Word(w) == Words(<<w>>)
Among(t, words) == Len(t.words) = 1 /\ Contains(words, t.words[1])

\* What is typed for an ask: its name in words or in one, and its arguments.
NoStation(a) == a.station = Unsaid
Typed(a, hyphens) ==
    (IF hyphens THEN <<Words(a.name)>> ELSE [i \in DOMAIN a.name |-> Word(a.name[i])])
        \o (IF NoStation(a) THEN <<>> ELSE <<Number(a.station)>>)
        \o (IF a.content = Unsaid THEN <<>> ELSE <<Number(a.content)>>)
        \o (IF a.scope = "" THEN <<>> ELSE <<Word(a.scope)>>)
        \o (IF a.action = "" THEN <<>> ELSE <<Word(a.action)>>)

\* _iotdata_node_control_argv_args: the rest of the line has to belong to it.
Takes(c, rest) ==
    LET n == Len(rest)
    IN  \/ c.arg \in {"none", "fixed", "reports"} /\ n = 0
        \/ c.arg \in {"status", "filter"} /\ n = 0
        \/ c.arg = "status" /\ n = 1 /\ Among(rest[1], StatusScopes)
        \/ c.arg = "filter" /\ n = 1 /\ Among(rest[1], FilterScopes)
        \/ c.arg = "content" /\ n = 1 /\ rest[1].number
        \/ c.arg = "station" /\ n \in {1, 2} /\ rest[1].number
               /\ (n = 1 \/ Among(rest[2], Actions))

ArgvArgs(c, rest) ==
    LET n == Len(rest)
    IN  CASE c.arg = "status" /\ n = 1 -> [Args EXCEPT !.status = rest[1].words[1]]
          [] c.arg = "filter" /\ n = 1 -> [Args EXCEPT !.filter = rest[1].words[1]]
          [] c.arg = "content" -> [Args EXCEPT !.content = rest[1].value]
          [] c.arg = "station" ->
                [Args EXCEPT !.station = rest[1].value % (All + 1),
                             !.action = IF n = 2 THEN rest[2].words[1] ELSE "none"]
          [] OTHER -> Args

\* iotdata_node_control_from_argv: the longest name whose rest fits it
NameIn(line, words) ==
    IF \E i \in 1 .. words : line[i].number THEN <<>> ELSE FlattenSeq([i \in 1 .. words |-> line[i].words])
Readings(line) ==
    {words \in 1 .. Len(line) :
        \E c \in Named(NameIn(line, words)) : Takes(c, SubSeq(line, words + 1, Len(line)))}
FromArgv(line) ==
    LET words == CHOOSE w \in Readings(line) : \A o \in Readings(line) : o <= w
        c == CHOOSE c \in Named(NameIn(line, words)) : TRUE
    IN  [command |-> c, args |-> ArgvArgs(c, SubSeq(line, words + 1, Len(line)))]

-----------------------------------------------------------------------------
TargetsTruncated(list) ==   \* a slip
    FoldLeft(LAMBDA acc, st :
                IF acc.out = <<All>> \/ Contains(acc.out, st) THEN acc
                ELSE IF st = All THEN [acc EXCEPT !.out = <<All>>]
                ELSE IF Len(acc.out) < TargetsMax THEN [acc EXCEPT !.out = Append(@, st)]
                ELSE acc,
             [out |-> <<>>, overflow |-> FALSE], list)

(* JSON: named members.  A list of targets loses what it names twice, and is *)
(* the broadcast as soon as that is met.                                     *)
Targets(list) ==
    FoldLeft(LAMBDA acc, st :
                IF acc.out = <<All>> \/ Contains(acc.out, st) THEN acc
                ELSE IF st = All THEN [acc EXCEPT !.out = <<All>>]
                ELSE IF Len(acc.out) < TargetsMax THEN [acc EXCEPT !.out = Append(@, st)]
                ELSE [acc EXCEPT !.overflow = TRUE],
             [out |-> <<>>, overflow |-> FALSE], list)

\* iotdata_node_control_from_json; the id of a request without one is not set.
FromJson(a, unset) ==
    LET t == Targets(a.to)
    IN  [command |-> CHOOSE c \in Named(a.name) : TRUE,
         args |-> [targets |-> IF t.out = <<>> THEN <<All>> ELSE t.out, overflow |-> t.overflow,
                   station |-> IF NoStation(a) THEN 0 ELSE a.station,
                   status |-> IF Contains(StatusScopes, a.scope) THEN a.scope ELSE "",
                   filter |-> IF a.scope \in {"manual", "auto"} THEN a.scope ELSE "all",
                   action |-> IF a.action \in {"block", "allow"} THEN a.action ELSE "none",
                   content |-> IF a.content = Unsaid THEN unset ELSE a.content]]

-----------------------------------------------------------------------------
(* iotdata_node_control_build: numbers most significant byte first; a zero   *)
(* scope is left out for a status and is not for the filters.                *)
Bytes2(n) == <<n \div Byte, n % Byte>>
Bytes3(n) == <<n \div (Byte * Byte), (n \div Byte) % Byte, n % Byte>>
Pair(key, subject, action, args) ==
    [key |-> key, subject |-> subject, action |-> action, args |-> args]

Built(c, a) ==
    CASE c.arg = "reports" -> {Pair("request", s, <<>>, <<>>) : s \in Reportable}
      [] c.arg = "none" -> {Pair(c.key, c.subject, c.action, <<>>)}
      [] c.arg = "fixed" -> {Pair(c.key, c.subject, c.action, <<c.fixed>>)}
      [] c.arg = "status" ->
            {Pair(c.key, c.subject, c.action, IF a.status = "" THEN <<>> ELSE <<Place(a.status, StatusScopes)>>)}
      [] c.arg = "filter" -> {Pair(c.key, c.subject, c.action, <<Place(a.filter, FilterScopes) - 1>>)}
      [] c.arg = "station" ->
            {Pair(c.key, c.subject, c.action, Append(Bytes2(a.station), Place(a.action, Actions) - 1))}
      [] OTHER -> {Pair(c.key, c.subject, c.action, Bytes3(a.content))}

\* The gateway, as the comments ask of it: one frame for each target, and none
\* for a request that named more than fit.
Send(request) ==
    /\ refused' = request.args.overflow
    /\ frames' = IF refused' THEN {}
                 ELSE {[to |-> st, pairs |-> Built(request.command, request.args)] :
                          st \in ToSet(request.args.targets)}

-----------------------------------------------------------------------------
Fresh == [requests |-> 0, commands |-> 0, refused |-> 0, unknown |-> 0, given |-> 0, did |-> {}]
NoAsk == [medium |-> "none"]

Init ==
    /\ ask = NoAsk /\ refused = FALSE /\ frames = {}
    /\ left = MaxFrames
    /\ node = [n \in Nodes |-> Fresh]

AskConsole ==
    /\ ask = NoAsk
    /\ \E a \in Asks, hyphens \in BOOLEAN :
          /\ a.to = <<All>> /\ Readings(Typed(a, hyphens)) # {}
          /\ Send(FromArgv(Typed(a, hyphens)))
          /\ ask' = [medium |-> "console", of |-> a]
    /\ UNCHANGED <<left, node>>

AskJson ==
    /\ ask = NoAsk
    /\ \E a \in Asks, unset \in Garbage :
          /\ Named(a.name) # {}
          /\ Send(FromJson(a, unset))
          /\ ask' = [medium |-> "json", of |-> a]
    /\ UNCHANGED <<left, node>>

\* iotdata_node_content_control: an id needs its three bytes
ContentResult(n, action, args) ==
    CASE ~n.store -> "unknown"
      [] action = <<"content", "list">> -> "done"
      [] action = <<"content", "ota">> -> IF n.consumer = "none" THEN "refused" ELSE "done"
      [] action = <<"content", "ota", "apply">> ->
            IF Len(args) >= 3 /\ n.consumer = "ready" THEN "done" ELSE "refused"
      [] OTHER -> IF Len(args) >= 3 THEN "done" ELSE "refused"

\* iotdata_node_diagnostics_control knows its own three and the ready recorder
DiagResult(n, action) == IF n.recorder /\ action[2] = "bbox" THEN "done" ELSE "unknown"

\* iotdata_node_process_control, for one pair of the payload
Result(n, p) ==
    CASE p.key = "request" -> IF p.subject \in Reportable THEN "report" ELSE "unknown"
      [] p.subject = "node" /\ p.action = <<"boot">> -> "done"
      [] p.subject = "node" /\ p.action = <<"node", "rollback">> -> "refused"
      [] p.subject = "cont" -> ContentResult(n, p.action, p.args)
      [] p.subject = "diag" -> DiagResult(n, p.action)
      [] OTHER -> "unknown"

Counted(k, result, p) ==
    [k EXCEPT !.given = @ + 1,
              !.requests = IF result = "report" THEN @ + 1 ELSE @,
              !.commands = IF result = "done" THEN @ + 1 ELSE @,
              !.refused = IF result = "refused" THEN @ + 1 ELSE @,
              !.unknown = IF result = "unknown" THEN @ + 1 ELSE @,
              !.did = IF result \in {"report", "done"} THEN @ \cup {p} ELSE @]

\* iotdata_node_on_frame: a frame for this station or for all.  A rollback that
\* works does not return: the node comes up anew.  Frames may come twice.
Hear(n) ==
    /\ left > 0 /\ left' = left - 1
    /\ \E f \in frames :
          /\ f.to \in {n.id, All}
          /\ node' = [node EXCEPT ![n] =
                IF n.fallback /\ \E p \in f.pairs : p.action = <<"node", "rollback">> THEN Fresh
                ELSE FoldSet(LAMBDA p, k : Counted(k, Result(n, p), p), @, f.pairs)]
    /\ UNCHANGED <<ask, refused, frames>>

Lose ==
    /\ \E f \in frames : frames' = frames \ {f}
    /\ UNCHANGED <<ask, refused, left, node>>

\* The next one asks.
Next ==
    \/ AskConsole \/ AskJson
    \/ \E n \in Nodes : Hear(n)
    \/ Lose

Spec == Init /\ [][Next]_vars

-----------------------------------------------------------------------------
\* Whatever the medium and however the name was typed, the payload is the same
\* one, as far as the request said what the command needs.
Said(a) ==
    LET c == CHOOSE c \in Named(a.name) : TRUE
    IN  /\ c.arg = "station" => ~NoStation(a)
        /\ c.arg = "content" => a.content # Unsaid
        /\ Takes(c, SubSeq(Typed(a, TRUE), 2, Len(Typed(a, TRUE))))
MediaAgree ==
    ask # NoAsk /\ Said(ask.of) =>
        LET json == FromJson(ask.of, 0)
            payload == Built(json.command, json.args)
        IN  /\ \A f \in frames : f.pairs = payload
            /\ \A hyphens \in BOOLEAN :
                  /\ Readings(Typed(ask.of, hyphens)) # {}
                  /\ LET r == FromArgv(Typed(ask.of, hyphens))
                     IN  Built(r.command, r.args) = payload

\* Nobody does what nobody asked of it: a station acts only if it was named, by
\* the command's own subject and action, on the station or the file meant.
\* Every key a node was given since it came up is in one count and one only.
DoneIsWhatWasMeant ==
    \A n \in Nodes :
        LET k == node[n]
        IN  /\ k.given = k.requests + k.commands + k.refused + k.unknown
            /\ k.did # {} => n.id \in ToSet(ask.of.to) \/ All \in ToSet(ask.of.to) \/ ask.of.to = <<>>
            /\ \A p \in k.did :
                  LET c == CHOOSE c \in Named(ask.of.name) : TRUE
                  IN  /\ c.arg # "reports" => p.subject = c.subject /\ p.action = c.action
                      /\ (c.arg = "content" /\ ask.of.content # Unsaid) =>
                            p.args[1] * Byte * Byte + p.args[2] * Byte + p.args[3] = ask.of.content
                      /\ c.arg = "station" => p.args[1] * Byte + p.args[2] = ask.of.station

\* A request is sent to everyone it names or is refused whole: no station is
\* left out of it in silence.
NobodyIsLeftOut ==
    ask # NoAsk /\ ~refused =>
        LET t == FromJson(ask.of, 0).args.targets
        IN  All \in ToSet(t) \/ ToSet(ask.of.to) \subseteq ToSet(t)

ControlIsSound == MediaAgree /\ DoneIsWhatWasMeant /\ NobodyIsLeftOut

\* "Broadcast absorbs the rest: asking for all, plus 0537 is asking for all."
BroadcastAbsorbs ==
    ask # NoAsk /\ All \in ToSet(ask.of.to) => ~refused

\* "a content command with no id ... is one that will be refused"
UnsaidIsRefused ==
    \A n \in Nodes : \A p \in node[n].did : p.subject = "cont" =>
        LET c == CHOOSE c \in Named(ask.of.name) : TRUE
        IN  c.arg = "content" => ask.of.content # Unsaid

\* iotdata_node_control_pack, and what process_control has a branch for: "a node
\* that advertises a key it does not service sends whoever asked on a wild goose
\* chase"
Advertised(n) ==
    {Pair("request", s, <<>>, <<>>) : s \in Reportable}
        \cup {Pair("control", "node", <<verb>>, <<>>) : verb \in {"boot", "reset"}}
AdvertisedIsServiced ==
    \A n \in Nodes : \A p \in Advertised(n) : Result(n, p) # "unknown"
=============================================================================
