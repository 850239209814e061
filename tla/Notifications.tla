---------------------------- MODULE Notifications ----------------------------
(***************************************************************************)
(* How a change of a characteristic reaches the subscribed clients:        *)
(* homekit_characteristic_notify and its callbacks (accessories.c), the    *)
(* write and subscribe requests, the event queue of each client and        *)
(* homekit_server_process_notifications (arduino_homekit_server.cpp).      *)
(*                                                                         *)
(* Pair verify and the end of a connection are single steps here; they are *)
(* HomekitServer's subject.  A request writes or subscribes to one         *)
(* characteristic: the elements of a longer one are processed one after    *)
(* the other, as as many requests would be.                                *)
(***************************************************************************)
EXTENDS EventRing, SequencesExt

CONSTANTS
  Conn,          \* client contexts
  Char,          \* characteristics
  Values,        \* Char -> the values it takes
  Null,          \* the value whose is_null is set
  Permissions    \* Char -> what it allows, of "pr", "pw", "ev"

ASSUME NullAssumption == \A ch \in Char : Null \notin Values[ch]
ASSUME EventAssumption ==
  Event = UNION {[ch : {ch}, value : Values[ch] \cup {Null}] : ch \in Char}
ASSUME PermissionsAssumption ==
  Permissions \in [Char -> SUBSET {"pr", "pw", "ev"}]

VARIABLES
  value,      \* ch->value
  callback,   \* ch->callback: the clients of its list
  client,     \* the client contexts
  queue,      \* client->event_queue
  event,      \* the EVENTs the last step sent, a list of reports per client
  behind      \* history: a client has events of a characteristic queued and was
              \* not told of its last change

vars == <<value, callback, client, queue, event, behind>>

(* secured: pair verify is over (step PAIR_VERIFY_2OF2).  unset: the       *)
(* context's current_characteristic and current_value are still what       *)
(* malloc returned.                                                        *)
Client == [live : BOOLEAN, secured : BOOLEAN, unset : BOOLEAN]
NoClient == [live |-> FALSE, secured |-> FALSE, unset |-> FALSE]

NoEvents == [c \in Conn |-> <<>>]

TypeOK ==
  /\ DOMAIN value = Char
  /\ \A ch \in Char : value[ch] \in Values[ch] \cup {Null}
  /\ callback \in [Char -> Seq(Conn)]
  /\ client \in [Conn -> Client]
  /\ queue \in [Conn -> Queue]
  /\ event \in [Conn -> Seq(Event)]
  /\ behind \subseteq Conn \X Char

Subscribed(c, ch) == c \in ToSet(callback[ch])

Init ==
  /\ value \in {f \in [Char -> UNION {Values[ch] : ch \in Char}] :
                  \A ch \in Char : f[ch] \in Values[ch]}
  /\ callback = [ch \in Char |-> <<>>]
  /\ client = [c \in Conn |-> NoClient]
  /\ queue = [c \in Conn |-> NewQueue]
  /\ event = NoEvents
  /\ behind = {}

-----------------------------------------------------------------------------
(* accessories.c: the callbacks of a characteristic.                       *)

\* A slip: the callback is added without a look at the list.
AddCallbackAgain(list, c) == Append(list, c)

\* homekit_characteristic_add_notify_callback.
AddCallback(list, c) == IF c \in ToSet(list) THEN list ELSE Append(list, c)

\* The list without the callbacks of the clients "gone", one after the other.
Without(list, gone) ==
  LET kept[i \in 0 .. Len(list)] ==
        IF i = 0 THEN <<>>
        ELSE IF list[i] \in gone THEN kept[i - 1]
        ELSE Append(kept[i - 1], list[i])
  IN  kept[Len(list)]

\* homekit_characteristic_remove_notify_callback.
RemoveCallback(list, c) == Without(list, {c})

\* homekit_characteristic_notify: each callback of the list in turn puts an
\* event in the queue of its client, but for the clients in "skip".
PushedTo(queues, list, e, skip) ==
  LET after[i \in 0 .. Len(list)] ==
        IF i = 0 THEN queues
        ELSE IF list[i] \in skip THEN after[i - 1]
        ELSE [after[i - 1] EXCEPT ![list[i]] = Pushed(@, e)]
  IN  after[Len(list)]

Notified(queues, ch, v, skip) ==
  PushedTo(queues, callback[ch], [ch |-> ch, value |-> v], skip)

\* client_notify_characteristic compares current_characteristic and
\* current_value before they are set: any subset of these may skip it.
Unset(ch) == {c \in Conn : Subscribed(c, ch) /\ client[c].unset}

Events(q, ch) == {k \in 1 .. q.cnt : Contents(q)[k].ch = ch}

\* behind, once only the clients in "told" have been told of a change of ch.
Behind(ch, told) ==
  {p \in behind \cup Conn \X {ch} :
     p \notin told \X {ch} /\ Events(queue'[p[1]], p[2]) # {}}

Listeners(ch, skip) == ToSet(callback[ch]) \ skip

-----------------------------------------------------------------------------
(* Connections.                                                            *)

\* accept_client and client_context_new.
Accept(c) ==
  /\ ~client[c].live
  /\ client' = [client EXCEPT ![c] = [live |-> TRUE, secured |-> FALSE,
                                      unset |-> TRUE]]
  /\ queue' = [queue EXCEPT ![c] = NewQueue]
  /\ event' = NoEvents
  /\ UNCHANGED <<value, callback, behind>>

\* The end of pair verify.
Verified(c) ==
  /\ client[c].live /\ ~client[c].secured
  /\ client' = [client EXCEPT ![c].secured = TRUE]
  /\ event' = NoEvents
  /\ UNCHANGED <<value, callback, queue, behind>>

\* The entries of behind whose events are still queued.
StillBehind == {p \in behind : Events(queue'[p[1]], p[2]) # {}}

\* A slip: the callbacks of the client stay.
ClosedWithCallbacks(lists, gone) == lists

\* homekit_accessories_clear_notify_callbacks, for the clients that close.
Closed(lists, gone) ==
  [ch \in Char |-> Without(lists[ch], gone)]

\* homekit_server_close_client and client_context_free: the clients "gone"
\* close after a handler left the lists and the queues as given.
Close(gone, lists, cs, qs) ==
  /\ callback' = Closed(lists, gone)
  /\ client' = [c \in Conn |-> IF c \in gone THEN NoClient ELSE cs[c]]
  /\ queue' = [c \in Conn |-> IF c \in gone THEN NewQueue ELSE qs[c]]

Disconnected(c) ==
  /\ client[c].live
  /\ Close({c}, callback, client, queue)
  /\ behind' = StillBehind
  /\ event' = NoEvents
  /\ UNCHANGED value

-----------------------------------------------------------------------------
(* Changes and subscriptions.                                              *)

\* The sketch sets ch->value and calls homekit_characteristic_notify.
Report(ch, v) ==
  /\ value' = [value EXCEPT ![ch] = v]
  /\ \E skip \in SUBSET Unset(ch) :
       /\ queue' = Notified(queue, ch, v, skip)
       /\ behind' = Behind(ch, Listeners(ch, skip))
  /\ event' = NoEvents
  /\ UNCHANGED <<callback, client>>

\* process_characteristics_update with a "value", ch having no setter.  The
\* answer may fail to be written, which closes the client.
Put(c, ch, v) ==
  /\ client[c].live /\ client[c].secured /\ "pw" \in Permissions[ch]
  /\ value' = [value EXCEPT ![ch] = v]
  /\ LET cs == [client EXCEPT ![c].unset = FALSE]
     IN  \E skip \in SUBSET (Unset(ch) \ {c}), gone \in SUBSET {c} :
           /\ Close(gone, callback, cs, Notified(queue, ch, v, skip \cup {c}))
           /\ behind' = Behind(ch, Listeners(ch, skip \cup {c}))
  /\ event' = NoEvents

\* The same, when the is_null bit that types.c leaves unset happens to be
\* set: what is stored is null, and homekit_characteristic_notify is not called.
PutNull(c, ch) ==
  /\ client[c].live /\ client[c].secured /\ "pw" \in Permissions[ch]
  /\ value' = [value EXCEPT ![ch] = Null]
  /\ \E gone \in SUBSET {c} : Close(gone, callback, client, queue)
  /\ behind' = Behind(ch, {})
  /\ event' = NoEvents

\* process_characteristics_update with "ev": the test of the permissions is
\* a logical and, which any permission passes.
PutEvents(c, ch, on) ==
  /\ client[c].live /\ client[c].secured /\ Permissions[ch] # {}
  /\ LET list == IF on THEN AddCallback(callback[ch], c)
                 ELSE RemoveCallback(callback[ch], c)
     IN  \E gone \in SUBSET {c} :
           Close(gone, [callback EXCEPT ![ch] = list], client, queue)
  /\ behind' = StillBehind
  /\ event' = NoEvents
  /\ UNCHANGED value

-----------------------------------------------------------------------------
(* homekit_server_process_notifications.                                   *)

\* A slip: the reports already in the list are not looked at.
Coalesce1(list, e) == Append(list, e)

\* The event popped replaces the value of the report on its characteristic.
Coalesce(list, e) ==
  IF \E i \in DOMAIN list : list[i].ch = e.ch
    THEN [i \in DOMAIN list |-> IF list[i].ch = e.ch THEN e ELSE list[i]]
    ELSE Append(list, e)

\* A slip: one event is reported for a pass.
CoalescedOne(q) == <<Top(q)>>

\* All events of the queue, popped one after the other: the empty queue, and
\* the reports.
PoppedAll(q) ==
  LET after[k \in 0 .. q.cnt] ==
        IF k = 0 THEN [queue |-> q, report |-> <<>>]
        ELSE LET s == after[k - 1]
             IN  [queue  |-> Popped(s.queue),
                  report |-> Coalesce(s.report, Top(s.queue))]
  IN  after[q.cnt]
Coalesced(q) == PoppedAll(q).report
Drained(q)   == PoppedAll(q).queue

Due == {c \in Conn : client[c].live /\ client[c].secured /\ ~IsEmpty(queue[c])}

\* A client whose socket fails while the EVENT is written is closed.
ProcessNotifications ==
  /\ Due # {}
  /\ \E gone \in SUBSET Due :
       /\ Close(gone, callback, client,
                [c \in Conn |-> IF c \in Due THEN Drained(queue[c]) ELSE queue[c]])
       /\ event' = [c \in Conn |-> IF c \in Due \ gone THEN Coalesced(queue[c])
                                   ELSE <<>>]
  /\ behind' = StillBehind
  /\ UNCHANGED value

-----------------------------------------------------------------------------

Next ==
  \/ \E c \in Conn : Accept(c) \/ Verified(c) \/ Disconnected(c)
  \/ \E ch \in Char : \E v \in Values[ch] : Report(ch, v)
  \/ \E c \in Conn, ch \in Char :
       \/ \E v \in Values[ch] : Put(c, ch, v)
       \/ PutNull(c, ch)
       \/ \E on \in BOOLEAN : PutEvents(c, ch, on)
  \/ ProcessNotifications

Spec == Init /\ [][Next]_vars

-----------------------------------------------------------------------------
(* Properties.                                                             *)

Queued(c, ch) == Events(queue[c], ch) # {}
Newest(q, ch) ==
  Contents(q)[CHOOSE k \in Events(q, ch) : \A j \in Events(q, ch) : j <= k].value

(* The callbacks of a characteristic are of connected, verified clients:   *)
(* homekit_characteristic_notify never hands a client_context_t that was   *)
(* freed to client_notify_characteristic, however the connection ended.    *)
CallbacksOfClients ==
  \A ch \in Char, c \in Conn :
    Subscribed(c, ch) => client[c].live /\ client[c].secured

(* A client is in the list of a characteristic once, so that one change is *)
(* one event in its short queue and removing it removes it.                *)
OneCallback == \A ch \in Char : IsInjective(callback[ch])

(* An EVENT reports a characteristic once, whatever the queue held.        *)
ReportedOnce ==
  \A c \in Conn : \A i, j \in DOMAIN event[c] :
    event[c][i].ch = event[c][j].ch => i = j

(* The newest event queued for a characteristic holds its current value,   *)
(* through overflows, sessions and the writes of others, unless the last   *)
(* change is one that the client is not told of: its own, one made while   *)
(* it was not subscribed, or one its unset fields suppressed.              *)
NewestIsCurrent ==
  \A c \in Conn, ch \in Char :
    Queued(c, ch) /\ <<c, ch>> \notin behind
      => Newest(queue[c], ch) = value[ch]

(* A characteristic with an event in the queue of a client is reported to  *)
(* it: the last event on it goes by being sent, with the client, or when   *)
(* a full queue is pushed to.                                              *)
LostByOverflowOnly ==
  [][\A c \in Conn, ch \in Char :
       (client'[c].live /\ Queued(c, ch) /\ ~Queued(c, ch)')
         => \/ \E i \in DOMAIN event'[c] : event'[c][i].ch = ch
            \/ IsFull(queue[c]) /\ IsFull(queue'[c])]_queue

(* The queue of each client is the buffer of the last Size events put in   *)
(* it since it connected or was last told: wherever the ring's index       *)
(* stands, and in whatever order clients come, go and change what others   *)
(* are told of, a step puts one event into some queues and empties others. *)
Buffers == INSTANCE EventBuffer WITH items <- [c \in Conn |-> Contents(queue[c])]
QueuesAreBuffers == Buffers!Spec

(* "Report your data by writing your_characteristic.value ... and          *)
(* homekit_characteristic_notify" (the first example sketch): what an      *)
(* EVENT tells of a characteristic is the newest value in the queue.       *)
ReportsNewest ==
  [][\A c \in Conn : \A i \in DOMAIN event'[c] :
       LET e == event'[c][i]
       IN  Queued(c, e.ch) => e.value = Newest(queue[c], e.ch)]_vars
=============================================================================
