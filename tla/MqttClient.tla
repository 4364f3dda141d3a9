---------------------------- MODULE MqttClient -------------------------------
(* The MQTT client on libmosquitto (d_module_mqtt_linux.h): the table of     *)
(* subscriptions a connect replays, the application's thread that writes it, *)
(* the library's thread that reads it, and, where there is no such thread,   *)
(* the reconnects the application's loop makes with a delay that grows.      *)
(* The library and the broker are external: what they do is what this code   *)
(* sees of them.                                                             *)
EXTENDS Integers, Sequences, FiniteSets, SequencesExt

CONSTANTS
  Topics,       \* patterns that are subscribed to
  NoTopic,      \* the empty pattern of a row not yet filled
  RowsMax,      \* MQTT_SUBSCRIBERS_MAX
  Base, Most,   \* reconnect_delay and reconnect_delay_max
  Synchronous   \* whether the application's loop drives the library

MqttAssumption ==
  /\ NoTopic \notin Topics /\ RowsMax \in Nat \ {0}
  /\ Base \in Nat \ {0} /\ Most \in Nat /\ Base <= Most

VARIABLES
  client,     \* st->mosq: whether there is a client
  connected,  \* st->connected
  table,      \* st->subscribers, the patterns in their order
  delay,      \* st->reconnect_delay_current
  wait,       \* how long until st->reconnect_next_attempt
  replay,     \* the row the connect callback sends next, 0 outside it
  writing,    \* the row mqtt_subscribe is at, 0 outside it
  wanted,     \* the pattern it subscribes to
  link,       \* the connection itself: "down", "open" (no answer yet), "up"
  session,    \* what the broker knows this session is subscribed to
  reachable,  \* whether the broker can be reached
  recorded    \* every pattern mqtt_subscribe took and nobody took back

vars == <<client, connected, table, delay, wait, replay, writing, wanted, link,
          session, reachable, recorded>>

Rows == 1 .. RowsMax
Row(t) == {i \in DOMAIN table : table[i] = t}

(* One thread at a time, where there is only one. *)
Alone == Synchronous => replay = 0 /\ writing = 0

(* _mqtt_subscribe_send: a packet on a connection that is gone is lost. *)
Tell(t) == session' = IF link = "up" /\ t # NoTopic THEN session \union {t} ELSE session

(* mqtt_begin: the state is zeroed, the table with it; a first connect that  *)
(* fails leaves no client.                                                   *)
BeginClient(answers) ==
  /\ ~client /\ writing = 0
  /\ answers => reachable
  /\ client' = answers
  /\ link' = IF answers THEN "open" ELSE "down"
  /\ connected' = FALSE /\ table' = <<>> /\ session' = {}
  /\ delay' = Base /\ wait' = 0 /\ replay' = 0
  /\ UNCHANGED <<writing, wanted, reachable, recorded>>

(* mqtt_end: the table is forgotten before the library's thread is stopped,  *)
(* which a callback in the middle of its replay then only finds shorter.     *)
EndClient ==
  /\ client /\ writing = 0 /\ Alone
  /\ client' = FALSE /\ connected' = FALSE /\ table' = <<>> /\ recorded' = {}
  /\ link' = "down" /\ session' = {} /\ replay' = 0
  /\ UNCHANGED <<delay, wait, writing, wanted, reachable>>

(* _mqtt_connect_callback, with the row it starts at; a refusal closes.      *)
ConnectCallback(accepted) ==
  /\ client /\ link = "open" /\ replay = 0 /\ Alone
  /\ IF accepted
     THEN /\ link' = "up" /\ session' = {} /\ connected' = TRUE
          /\ delay' = Base /\ wait' = 0
          /\ replay' = IF table = <<>> THEN 0 ELSE 1
     ELSE /\ link' = "down" /\ UNCHANGED <<session, connected, delay, wait, replay>>
  /\ UNCHANGED <<client, table, writing, wanted, reachable, recorded>>

ReplayRowShort ==   \* a slip
  /\ replay > 0
  /\ Tell(IF replay \in DOMAIN table THEN table[replay] ELSE NoTopic)
  /\ replay' = IF replay + 1 < Len(table) THEN replay + 1 ELSE 0
  /\ UNCHANGED <<client, connected, table, delay, wait, writing, wanted, link, reachable,
                 recorded>>

(* One row of its replay; the count is read anew at each. *)
ReplayRow ==
  /\ replay > 0
  /\ Tell(IF replay \in DOMAIN table THEN table[replay] ELSE NoTopic)
  /\ replay' = IF replay < Len(table) THEN replay + 1 ELSE 0
  /\ UNCHANGED <<client, connected, table, delay, wait, writing, wanted, link, reachable,
                 recorded>>

(* mqtt_subscribe, in the steps another thread can see: the row is taken and *)
(* counted (a row of the same pattern is emptied), then filled, and then     *)
(* sent if there is a connection.  With the table full it is refused.        *)
SubscribeTakes(t) ==
  /\ writing = 0 /\ Alone
  /\ \/ /\ Row(t) # {}
        /\ writing' = CHOOSE i \in Row(t) : TRUE
        /\ table' = [table EXCEPT ![writing'] = NoTopic]
     \/ /\ Row(t) = {} /\ Len(table) < RowsMax
        /\ writing' = Len(table) + 1
        /\ table' = Append(table, NoTopic)
  /\ wanted' = t
  /\ recorded' = recorded \union {t}
  /\ UNCHANGED <<client, connected, delay, wait, replay, link, session, reachable>>

SubscribeFills ==
  /\ writing > 0 /\ table[writing] = NoTopic
  /\ table' = [table EXCEPT ![writing] = wanted]
  /\ UNCHANGED <<client, connected, delay, wait, replay, writing, wanted, link, session,
                 reachable, recorded>>

SubscribeSends ==
  /\ writing > 0 /\ table[writing] # NoTopic
  /\ IF client /\ connected THEN Tell(wanted) ELSE UNCHANGED session
  /\ writing' = 0 /\ wanted' = NoTopic
  /\ UNCHANGED <<client, connected, table, delay, wait, replay, link, reachable, recorded>>

(* mqtt_unsubscribe: the last row is moved into the hole.  As the file's     *)
(* comment demands, not while the library's thread walks the table.          *)
Unsubscribe(t) ==
  /\ writing = 0 /\ replay = 0 /\ t \in recorded
  /\ table' = IF Row(t) = {} THEN table
              ELSE LET i == CHOOSE i \in Row(t) : TRUE
                   IN  Front([table EXCEPT ![i] = Last(table)])
  /\ session' = session \ {t}
  /\ recorded' = recorded \ {t}
  /\ UNCHANGED <<client, connected, delay, wait, replay, writing, wanted, link, reachable>>

(* The connection breaks; the flag follows when a callback or the loop says  *)
(* so (_mqtt_disconnect_callback, mqtt_loop).                                *)
Break ==
  /\ reachable /\ reachable' = FALSE
  /\ link' = "down" /\ session' = {}
  /\ UNCHANGED <<client, connected, table, delay, wait, replay, writing, wanted, recorded>>
Mend ==
  /\ ~reachable /\ reachable' = TRUE
  /\ UNCHANGED <<client, connected, table, delay, wait, replay, writing, wanted, link,
                 session, recorded>>
DisconnectCallback ==
  /\ client /\ connected /\ link = "down" /\ replay = 0 /\ Alone
  /\ connected' = FALSE
  /\ UNCHANGED <<client, table, delay, wait, replay, writing, wanted, link, session,
                 reachable, recorded>>

(* The library's own reconnect, when it has a thread. *)
LibraryReconnects ==
  /\ ~Synchronous /\ client /\ link = "down" /\ ~connected /\ reachable /\ replay = 0
  /\ link' = "open"
  /\ UNCHANGED <<client, connected, table, delay, wait, replay, writing, wanted, session,
                 reachable, recorded>>

(* mqtt_loop finding the connection gone, and _mqtt_reconnect_attempt: not   *)
(* before the next attempt is due; each failure doubles the delay up to its  *)
(* most, a connection that opens puts it back.                               *)
Loop ==
  /\ Synchronous /\ client /\ link = "down" /\ Alone
  /\ connected' = FALSE
  /\ IF wait > 0 THEN UNCHANGED <<delay, wait, link>>
     ELSE IF reachable
     THEN link' = "open" /\ delay' = Base /\ wait' = 0
     ELSE /\ wait' = delay
          /\ delay' = IF delay * 2 > Most THEN Most ELSE delay * 2
          /\ UNCHANGED link
  /\ UNCHANGED <<client, table, replay, writing, wanted, session, reachable, recorded>>

Tick ==
  /\ wait > 0 /\ wait' = wait - 1
  /\ UNCHANGED <<client, connected, table, delay, replay, writing, wanted, link, session,
                 reachable, recorded>>

Init ==
  /\ client = FALSE /\ connected = FALSE /\ table = <<>> /\ delay = 0 /\ wait = 0 /\ replay = 0
  /\ writing = 0 /\ wanted = NoTopic /\ link = "down" /\ session = {}
  /\ reachable = TRUE /\ recorded = {}

Subscribing == SubscribeFills \/ SubscribeSends
Network     == ConnectCallback(TRUE) \/ ReplayRow \/ DisconnectCallback \/ LibraryReconnects

Next ==
  \/ \E answers \in BOOLEAN : BeginClient(answers)
  \/ EndClient
  \/ \E accepted \in BOOLEAN : ConnectCallback(accepted)
  \/ ReplayRow \/ DisconnectCallback \/ LibraryReconnects \/ Loop \/ Tick
  \/ \E t \in Topics : SubscribeTakes(t) \/ Unsubscribe(t)
  \/ SubscribeFills \/ SubscribeSends
  \/ Break \/ Mend

(* A call that began goes on, the library's thread runs, the application     *)
(* calls its loop, time passes, and a broker that is asked for ever accepts. *)
(* That it is ever reached is not assumed here.                              *)
Fairness == /\ WF_vars(Subscribing) /\ WF_vars(Network) /\ SF_vars(ConnectCallback(TRUE))
            /\ SF_vars(Loop /\ wait = 0) /\ WF_vars(Tick)

Spec == Init /\ [][Next]_vars /\ Fairness

(* Every variable has its type. *)
TypeOK ==
  /\ client \in BOOLEAN /\ connected \in BOOLEAN /\ reachable \in BOOLEAN
  /\ table \in Seq(Topics \union {NoTopic}) /\ Len(table) <= RowsMax
  /\ delay \in 0 .. Most /\ wait \in 0 .. Most
  /\ replay \in 0 .. RowsMax /\ writing \in 0 .. RowsMax
  /\ link \in {"down", "open", "up"} /\ session \subseteq Topics /\ recorded \subseteq Topics

Settled == client /\ connected /\ link = "up" /\ replay = 0 /\ writing = 0

(* Whenever the client is connected and nobody is in the middle of anything, *)
(* the broker knows every row of the table and no other pattern: whichever   *)
(* of the two threads came first with the row.                               *)
BrokerKnowsTheTable == Settled => session = ToSet(table)

(* And the table has each pattern that was subscribed to.                    *)
RecordedIsReplayed == Settled => session = recorded

(* A client that began is connected again, its table replayed, once the      *)
(* broker stays within reach.                                                *)
ComesBack ==
  <>[](reachable /\ client) => []<>(connected /\ session = ToSet(table))
=============================================================================
