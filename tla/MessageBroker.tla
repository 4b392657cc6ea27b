----------------------------- MODULE MessageBroker -----------------------------
(***************************************************************************)
(* MessageBroker (src/message_broker.cpp): one connection to the redis     *)
(* server on which threads send commands and wait for the replies, one at  *)
(* a time, and a second one on which the event thread receives messages    *)
(* for the observers of their channel.  Both are lost with the server and  *)
(* are not made again.                                                     *)
(*                                                                         *)
(* The program's only subscription is to one channel, so that a subscriber *)
(* is an observer and the map holds one entry or none.  Error replies and  *)
(* replies that are no messages are only logged.                           *)
(***************************************************************************)
EXTENDS Naturals, Sequences

CONSTANTS
    Client,     \* the threads that send commands
    NoClient,   \* none of them
    Observer,   \* who may subscribe to the channel
    Message,    \* what others publish on it
    MaxMessage  \* no more messages are published

ASSUME BrokerAssumption ==
    /\ NoClient \notin Client
    /\ MaxMessage \in Nat

Operation == {"Publish", "SetVariable", "SetVariableExpiration", "UNSUBSCRIBE"}

\* Those that do not look into a reply without testing it for null.
Careful == {"Publish", "UNSUBSCRIBE"}

VARIABLES
    server,   \* "up" or "down"
    call,     \* call[c]: the operation that thread c is in
    m_context_mutex,  \* who holds it
    wire,     \* whose commands have been sent and not been answered
    crashed,  \* a null reply was used, or an object after its end
    async,    \* SUBSCRIBE: "none", "queued", or "done" by the server
    published,        \* the number of messages published
    inbox,    \* messages that are on their way
    m_observer_map,   \* the observers of the channel
    erasing,  \* UnRegisterObserver is changing the map
    loop,     \* m_proccess_async_events_thread
    broken,   \* event_base_loopbreak was called
    handing   \* observers that OnMessage still has to call, and the message

sync   == <<call, m_context_mutex, wire>>
events == <<async, published, inbox, loop, broken, handing>>
map    == <<m_observer_map, erasing>>
broker == <<server, sync, crashed, events, map>>

NoMessage == [to |-> <<>>, msg |-> <<>>]

BrokerInit ==
    /\ server = "up" /\ crashed = FALSE
    /\ call = [c \in Client |-> "none"]
    /\ m_context_mutex = NoClient /\ wire = <<>>
    /\ async = "none" /\ published = 0 /\ inbox = <<>>
    /\ m_observer_map = <<>> /\ erasing = FALSE
    /\ loop = "none" /\ broken = FALSE
    /\ handing = NoMessage
-----------------------------------------------------------------------------
(* Publish, SetVariable, SetVariableExpiration, and UNSUBSCRIBE.             *)

Begin(c, op) == call[c] = "none" /\ call' = [call EXCEPT ![c] = op]

\* Mutant: the mutex is not taken.
AskUnlocked(c) ==
    /\ call[c] # "none" /\ \A i \in DOMAIN wire : wire[i] # c
    /\ m_context_mutex' = c
    /\ wire' = Append(wire, c)
    /\ UNCHANGED <<server, call, crashed, events, map>>

\* With the mutex, the command is sent.
Ask(c) ==
    /\ call[c] # "none" /\ m_context_mutex = NoClient
    /\ m_context_mutex' = c
    /\ wire' = Append(wire, c)
    /\ UNCHANGED <<server, call, crashed, events, map>>

\* redisCommand returns the first reply that comes, or null without a server.
\* Whoever then looks into the reply ends the process.
Answer(c) ==
    /\ call[c] # "none" /\ m_context_mutex = c
    /\ IF server = "down" /\ call[c] \notin Careful
       THEN crashed' = TRUE /\ UNCHANGED sync
       ELSE /\ wire' = Tail(wire)
            /\ m_context_mutex' = NoClient
            /\ call' = [call EXCEPT ![c] = "none"]
            /\ UNCHANGED crashed
    /\ UNCHANGED <<server, events, map>>
-----------------------------------------------------------------------------
(* Subscribe and Unsubscribe change the map without a lock.                  *)

\* RegisterObserver, SUBSCRIBE, which the event thread will send, and the
\* thread, if there is none.
Subscribe(o) ==
    /\ m_observer_map' = Append(m_observer_map, o)
    /\ async' = IF async = "none" THEN "queued" ELSE async
    /\ loop' = IF loop = "none" THEN "created" ELSE loop

\* UnRegisterObserver takes time ...
BeginErase(o) ==
    /\ ~erasing
    /\ erasing' = (\E i \in DOMAIN m_observer_map : m_observer_map[i] = o)
    /\ UNCHANGED m_observer_map

First(o) ==
    CHOOSE i \in DOMAIN m_observer_map :
        /\ m_observer_map[i] = o
        /\ \A j \in 1 .. i - 1 : m_observer_map[j] # o

\* ... until the first entry of the observer is gone.
Erase(o) ==
    /\ m_observer_map' =
         IF erasing
         THEN [i \in 1 .. Len(m_observer_map) - 1 |->
                 m_observer_map[IF i < First(o) THEN i ELSE i + 1]]
         ELSE m_observer_map
    /\ erasing' = FALSE
-----------------------------------------------------------------------------
(* The event thread.                                                         *)

\* event_base_dispatch clears a loopbreak that came before it.
EnterLoop ==
    /\ loop = "created"
    /\ loop' = "dispatch" /\ broken' = FALSE
    /\ UNCHANGED <<server, sync, crashed, map, async, published, inbox, handing>>

SendSubscribe ==
    /\ loop = "dispatch" /\ server = "up" /\ async = "queued"
    /\ async' = "done"
    /\ UNCHANGED <<server, sync, crashed, map, published, inbox, loop, broken,
                   handing>>

\* OnMessage and CallObservers: those that the map holds will be called.  If
\* the map is being changed, it is found in either state, or in none.
OnMessage ==
    /\ loop = "dispatch" /\ inbox # <<>> /\ handing = NoMessage
    /\ inbox' = Tail(inbox)
    /\ \E found \in {m_observer_map} \cup IF erasing THEN {<<>>} ELSE {} :
         handing' = IF found = <<>> THEN NoMessage
                    ELSE [to |-> found, msg |-> Head(inbox)]
    /\ crashed' \in {crashed, erasing}
    /\ UNCHANGED <<server, sync, map, async, published, loop, broken>>

\* The first observer has returned.
Called ==
    handing' = IF Len(handing.to) = 1 THEN NoMessage
               ELSE [handing EXCEPT !.to = Tail(@)]

\* The loop ends when it is told, or with the connection.
LeaveLoop ==
    /\ loop = "dispatch" /\ handing = NoMessage
    /\ broken \/ server = "down"
    /\ loop' = "ended"
    /\ UNCHANGED <<server, sync, crashed, map, async, published, inbox, broken,
                   handing>>
-----------------------------------------------------------------------------
(* The server and those who publish.                                         *)

LoseServer ==
    /\ server = "up"
    /\ server' = "down"
    /\ UNCHANGED <<sync, crashed, events, map>>

\* Without a subscriber a message is lost.  UNSUBSCRIBE does not change that
\* there is one, because it comes on the other connection.
Arrive(m) ==
    /\ server = "up" /\ async = "done" /\ published < MaxMessage
    /\ published' = published + 1
    /\ inbox' = Append(inbox, m)
    /\ UNCHANGED <<server, sync, crashed, map, async, loop, broken, handing>>
-----------------------------------------------------------------------------
BrokerTypeOK ==
    /\ server \in {"up", "down"}
    /\ call \in [Client -> Operation \cup {"none"}]
    /\ m_context_mutex \in Client \cup {NoClient}
    /\ wire \in Seq(Client)
    /\ async \in {"none", "queued", "done"}
    /\ published \in 0 .. MaxMessage
    /\ inbox \in Seq(Message)
    /\ m_observer_map \in Seq(Observer)
    /\ crashed \in BOOLEAN /\ erasing \in BOOLEAN /\ broken \in BOOLEAN
    /\ loop \in {"none", "created", "dispatch", "ended"}
    /\ handing \in [to : Seq(Observer), msg : Message] \cup {NoMessage}
=============================================================================
