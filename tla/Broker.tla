------------------------------- MODULE Broker -------------------------------
(***************************************************************************)
(* What gnat promises to its clients, without keys, packets, calls or      *)
(* loops: the newest payload of every topic is retained, and it is         *)
(* delivered to every connected client with a subscription that selects    *)
(* the topic.  Payloads in between may be skipped, no other ones come.     *)
(* Clients are served one at a time: one that stalls can hold up all       *)
(* deliveries.  Of the filters a client asks for at once it is subscribed  *)
(* to the last.  The server implements this with keys for topics.          *)
(***************************************************************************)
CONSTANTS
  Client,
  Topic,
  Filter,         \* what a client can subscribe to
  Payload,
  NoPayload,      \* of a topic nothing was published on; not in Payload
  Selects(_, _)   \* whether a filter is for a topic

VARIABLES
  newest,         \* the retained payload of each topic
  subscriptions,  \* the filters each client has subscribed to
  received,       \* the payload each client got last on each topic
  link,           \* of each client: "up", "closed" by the broker, or "down"
  stalled         \* the clients that may take nothing any more

vars == <<newest, subscriptions, received, link, stalled>>

Init ==
  /\ newest = [t \in Topic |-> NoPayload]
  /\ subscriptions = [c \in Client |-> {}]
  /\ received = [c \in Client |-> [t \in Topic |-> NoPayload]]
  /\ link = [c \in Client |-> "up"]
  /\ stalled = {}

(* By a client or by the program the broker runs in.                       *)
Publish(topic, payload) ==
  /\ newest' = [newest EXCEPT ![topic] = payload]
  /\ UNCHANGED <<subscriptions, received, link, stalled>>

Subscribe(client, filter) ==
  /\ link[client] # "down"
  /\ subscriptions' = [subscriptions EXCEPT ![client] = @ \cup {filter}]
  /\ UNCHANGED <<newest, received, link, stalled>>

(* The program forgets some clients.                                       *)
Unsubscribe(clients) ==
  /\ subscriptions' = [c \in Client |-> IF c \in clients THEN {} ELSE subscriptions[c]]
  /\ UNCHANGED <<newest, received, link, stalled>>

Selected(client, topic) == \E f \in subscriptions[client] : Selects(f, topic)

Deliver(client, topic) ==
  /\ link[client] # "down"
  /\ Selected(client, topic)
  /\ newest[topic] # NoPayload
  /\ received' = [received EXCEPT ![client][topic] = newest[topic]]
  /\ UNCHANGED <<newest, subscriptions, link, stalled>>

Close(client) ==
  /\ link[client] = "up"
  /\ link' = [link EXCEPT ![client] = "closed"]
  /\ UNCHANGED <<newest, subscriptions, received, stalled>>

Lose(client) ==
  /\ link[client] # "down"
  /\ link' = [link EXCEPT ![client] = "down"]
  /\ stalled' = stalled \ {client}
  /\ UNCHANGED <<newest, subscriptions, received>>

Stall(client) ==
  /\ link[client] # "down"
  /\ stalled' = stalled \cup {client}
  /\ UNCHANGED <<newest, subscriptions, received, link>>

Next ==
  \/ \E t \in Topic, p \in Payload : Publish(t, p)
  \/ \E c \in Client, f \in Filter : Subscribe(c, f)
  \/ \E clients \in SUBSET Client : Unsubscribe(clients)
  \/ \E c \in Client, t \in Topic : Deliver(c, t)
  \/ \E c \in Client : Close(c) \/ Lose(c) \/ Stall(c)

(* Whether a delivery is due to a client.                                  *)
Owed(client, topic) ==
  /\ link[client] = "up"
  /\ Selected(client, topic)
  /\ received[client][topic] # newest[topic]

(* No delivery stays due for ever, unless some client stalls.              *)
Delivery ==
  \A c \in Client, t \in Topic : Owed(c, t) ~> ~Owed(c, t) \/ stalled # {}

Spec == Init /\ [][Next]_vars /\ Delivery

=============================================================================
