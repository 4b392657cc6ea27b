------------------------------ MODULE MainProofs ------------------------------
(***************************************************************************)
(* For any number of threads, messages and observers: types, every thread  *)
(* reads the reply of its own command, and commands meet an Alarm that has *)
(* been initialised and not terminated.                                    *)
(***************************************************************************)
EXTENDS Main, TLAPS

\* The mutex and the connection: nothing is under way, or one command.
Mutex ==
    \/ m_context_mutex = NoClient /\ wire = <<>>
    \/ /\ m_context_mutex \in Client /\ wire = <<m_context_mutex>>
       /\ call[m_context_mutex] # "none"

LEMMA MutexStep == BrokerTypeOK /\ Mutex /\ [Next]_vars => Mutex'
<1> SUFFICES ASSUME BrokerTypeOK, Mutex, [Next]_vars PROVE Mutex'
  OBVIOUS
<1> USE BrokerAssumption, MainAssumption
    DEF BrokerTypeOK, Mutex, sync, broker
<1>1. ASSUME UNCHANGED sync PROVE Mutex'
  BY <1>1
<1>2. ASSUME NEW c \in Client, NEW op \in Operation, Begin(c, op),
             UNCHANGED <<m_context_mutex, wire>>
      PROVE  Mutex'
  BY <1>2 DEF Begin, Operation
<1>3. ASSUME NEW c \in Client, Exchange(c) PROVE Mutex'
  <2>1. CASE Ask(c)
    <3>1. wire = <<>> /\ call[c] # "none"
      BY <2>1 DEF Ask
    <3>2. wire' = <<c>> /\ m_context_mutex' = c /\ call' = call
      BY <2>1, <3>1 DEF Ask
    <3> QED
      BY <3>1, <3>2
  <2>2. CASE Answer(c)
    <3>1. wire = <<c>> /\ m_context_mutex = c
      BY <2>2 DEF Answer
    <3>2. CASE crashed' = TRUE /\ UNCHANGED sync
      BY <3>2
    <3>3. CASE wire' = Tail(wire) /\ m_context_mutex' = NoClient
      BY <3>1, <3>3
    <3> QED
      BY <2>2, <3>2, <3>3 DEF Answer
  <2> QED
    BY <1>3, <2>1, <2>2 DEF Exchange
<1>4. CASE MainStep
  <2>1. CASE \/ Construct \/ VersionSet \/ AlarmInitialised
             \/ SubscribeListener \/ StartWatchdog \/ Signalled \/ Unregister
    BY <1>1, <2>1 DEF Construct, VersionSet, AlarmInitialised,
       SubscribeListener, StartWatchdog, Signalled, Unregister
  <2>2. CASE \/ TermAlarm \/ AlarmTerminated \/ StopWatchdog
             \/ WatchdogJoined \/ Destroy \/ Loopbreak \/ JoinEvents
    BY <1>1, <2>2 DEF TermAlarm, AlarmTerminated, StopWatchdog,
       WatchdogJoined, Destroy, Loopbreak, JoinEvents
  <2>3. CASE SetVersion \/ InitAlarm \/ InitModule \/ InitPublish \/ EraseListener
    BY <1>2, <2>3 DEF SetVersion, InitAlarm, InitModule, InitPublish,
       EraseListener, Operation
  <2> QED
    BY <1>4, <2>1, <2>2, <2>3 DEF MainStep
<1>5. CASE Listener
  <2>1. CASE ChannelMessageListener \/ Act \/ Join \/ Return
    BY <1>1, <2>1 DEF ChannelMessageListener, Act, Join, Return
  <2>2. CASE Send
    BY <1>2, <2>2 DEF Send
  <2> QED
    BY <1>5, <2>1, <2>2 DEF Listener
<1>6. CASE Watchdog \/ Detection \/ Liveview
  BY <1>2, <1>6 DEF Watchdog, Detection, Liveview, Operation
<1>7. CASE Signal \/ UseAfterEnd \/ WatchdogEnds \/ UNCHANGED vars
  BY <1>1, <1>7 DEF Signal, UseAfterEnd, WatchdogEnds, vars
<1>8. CASE Environment
  BY <1>1, <1>8 DEF Environment, LoseServer, Arrive
<1>9. CASE EventLoop
  BY <1>1, <1>9
     DEF EventLoop, EnterLoop, SendSubscribe, OnMessage, LeaveLoop
<1> QED
  BY <1>3, <1>4, <1>5, <1>6, <1>7, <1>8, <1>9 DEF Next
-----------------------------------------------------------------------------
\* What the thread of the broker and the observer map are for each place of
\* the main thread.  Open: while a command may begin.
Open   == {"watchdog", "sleep", "unregister", "erase"}
Before == {"new", "version", "version_set", "alarm_init", "alarm_vars",
           "alarm_start", "subscribe"}
Stopped == {"alarm_term", "watch_stop", "watch_join"}

Life ==
    /\ m_observer_map \in {<<>>, <<"listener">>}
    /\ erasing => place = "erase"
    /\ place = "erase" => (erasing <=> m_observer_map # <<>>)
    /\ place \in Before => loop = "none" /\ ~watchdog /\ m_observer_map = <<>>
    /\ place = "watchdog" => ~watchdog
    /\ place = "subscribe" => alarm = "ready"
    /\ place \notin Open => m_observer_map = <<>> \/ loop = "none"
    /\ place \in Open /\ loop # "none" => alarm = "ready"
    /\ handing # NoMessage => /\ loop = "dispatch" /\ handing.to # <<>>
                              /\ place \in Open \/ overlap
    /\ place \in Stopped /\ ~overlap => active = {}
    /\ overlap => place \notin Before \cup Open


LEMMA LifeStep == TypeOK /\ Life /\ [Next]_vars => Life'
<1> SUFFICES ASSUME TypeOK, Life, [Next]_vars PROVE Life'
  OBVIOUS
<1> USE DEF Life, Open, Before, Stopped, sync, events, map, broker, handler,
            task, main
<1>1. ASSUME UNCHANGED <<events, map, main>> PROVE Life'
  BY <1>1
<1>2. CASE MainStep
  <2>1. CASE Construct \/ SetVersion \/ VersionSet \/ InitAlarm
    BY <2>1 DEF Construct, SetVersion, VersionSet, InitAlarm, Goto
  <2>2. CASE InitModule \/ InitPublish \/ AlarmInitialised
    BY <2>2 DEF InitModule, InitPublish, AlarmInitialised, Goto
  <2>3. CASE SubscribeListener
    <3>1. m_observer_map' = <<"listener">>
      BY <2>3 DEF SubscribeListener, Subscribe, Goto
    <3>2. (place' = "watchdog" /\ alarm = "ready") \/ loop' = "none"
      BY <2>3 DEF SubscribeListener, Subscribe, Goto
    <3>3. place' \in {"watchdog", "unregister", "destroy"} /\ place = "subscribe"
      BY <2>3 DEF SubscribeListener, Goto
    <3>4. UNCHANGED <<handing, erasing, alarm, active, task, overlap>>
      BY <2>3 DEF SubscribeListener
    <3> QED
      BY <3>1, <3>2, <3>3, <3>4
  <2>4. CASE StartWatchdog \/ Signalled
    BY <2>4 DEF StartWatchdog, Signalled, Goto
  <2>5. CASE Unregister
    <3>1. erasing' <=> m_observer_map # <<>>
      BY <2>5 DEF Unregister, BeginErase
    <3> QED
      BY <2>5, <3>1 DEF Unregister, BeginErase, Goto
  <2>6. CASE EraseListener
    <3>1. m_observer_map' = <<>> /\ ~erasing'
      <4>1. CASE erasing
        <5>1. m_observer_map = <<"listener">>
          BY <2>6, <4>1 DEF EraseListener, Goto
        <5> QED
          BY <2>6, <4>1, <5>1 DEF EraseListener, Erase
      <4>2. CASE ~erasing
        BY <2>6, <4>2 DEF EraseListener, Erase, Goto
      <4> QED
        BY <4>1, <4>2
    <3>2. overlap' <=> handing # NoMessage
      BY <2>6 DEF EraseListener
    <3>3. UNCHANGED <<loop, handing, active, alarm, task>>
      BY <2>6 DEF EraseListener
    <3> QED
      BY <2>6, <3>1, <3>2, <3>3 DEF EraseListener, Goto
  <2>7. CASE TermAlarm \/ AlarmTerminated \/ StopWatchdog \/ WatchdogJoined
    BY <2>7
       DEF TermAlarm, AlarmTerminated, StopWatchdog, WatchdogJoined, Goto
  <2>8. CASE Destroy \/ Loopbreak \/ JoinEvents
    <3>1. CASE Destroy
      BY <3>1 DEF Destroy, Goto
    <3>2. CASE Loopbreak
      <4>1. place = "break" /\ place' \in {"ended", "join"}
        BY <3>2 DEF Loopbreak, Goto
      <4>2. UNCHANGED <<map, loop, handing, alarm, active, task, overlap>>
        BY <3>2 DEF Loopbreak
      <4> QED
        BY <4>1, <4>2
    <3>3. CASE JoinEvents
      BY <3>3 DEF JoinEvents, Goto
    <3> QED
      BY <2>8, <3>1, <3>2, <3>3
  <2> QED
    BY <1>2, <2>1, <2>2, <2>3, <2>4, <2>5, <2>6, <2>7, <2>8 DEF MainStep
<1>3. CASE Listener
  <2>1. ASSUME Called, handing # NoMessage,
               UNCHANGED <<loop, map, main>>
        PROVE  Life'
    <3>1. handing' # NoMessage => handing'.to # <<>>
      <4>1. handing \in [to : Seq(Observer), msg : Message]
        BY <2>1 DEF TypeOK, BrokerTypeOK
      <4>2. ASSUME Len(handing.to) # 1 PROVE Tail(handing.to) # <<>>
        <5>1. handing.to \in Seq(Observer) /\ handing.to # <<>>
          BY <2>1, <4>1
        <5>2. Len(handing.to) \in Nat \ {0, 1}
          BY <4>2, <5>1
        <5>3. Len(Tail(handing.to)) = Len(handing.to) - 1
          BY <5>1, <5>2
        <5>4. Len(<<>>) = 0
          OBVIOUS
        <5>5. Len(Tail(handing.to)) # 0
          BY <5>2, <5>3
        <5> QED
          BY <5>4, <5>5
      <4>3. CASE Len(handing.to) = 1
        BY <2>1, <4>3 DEF Called
      <4>4. CASE Len(handing.to) # 1
        <5>1. handing' = [handing EXCEPT !.to = Tail(@)]
          BY <2>1, <4>4 DEF Called
        <5>2. handing'.to = Tail(handing.to)
          BY <4>1, <5>1
        <5> QED
          BY <4>2, <4>4, <5>2
      <4> QED
        BY <4>3, <4>4
    <3> QED
      BY <2>1, <3>1
  <2>2. CASE ChannelMessageListener
    BY <1>1, <2>1, <2>2 DEF ChannelMessageListener
  <2>3. CASE Act
    BY <2>3 DEF Act, TypeOK
  <2>4. CASE Join \/ Send
    BY <1>1, <2>4 DEF Join, Send
  <2>5. CASE Return
    BY <2>1, <2>5 DEF Return, TypeOK
  <2> QED
    BY <1>3, <2>2, <2>3, <2>4, <2>5 DEF Listener
<1>4. CASE Watchdog \/ Detection \/ Liveview \/ UseAfterEnd
  BY <1>1, <1>4 DEF Watchdog, Detection, Liveview, UseAfterEnd
<1>5. CASE WatchdogEnds
  BY <1>5 DEF WatchdogEnds
<1>6. CASE Signal
  BY <1>6 DEF Signal
<1>7. ASSUME NEW c \in Client, Exchange(c) PROVE Life'
  BY <1>1, <1>7 DEF Exchange, Ask, Answer
<1>8. CASE Environment /\ UNCHANGED <<main, handler>>
  BY <1>8 DEF Environment, LoseServer, Arrive
<1>9. CASE EventLoop /\ UNCHANGED <<main, handler>>
  <2>1. CASE OnMessage
    <3>1. loop = "dispatch" /\ UNCHANGED <<map, loop, main>>
      BY <1>9, <2>1 DEF OnMessage
    <3>2. handing' # NoMessage => m_observer_map # <<>> /\ handing'.to # <<>>
      BY <2>1 DEF OnMessage
    <3> QED
      BY <3>1, <3>2
  <2>2. CASE EnterLoop \/ SendSubscribe \/ LeaveLoop
    BY <1>9, <2>2 DEF EnterLoop, SendSubscribe, LeaveLoop
  <2> QED
    BY <1>9, <2>1, <2>2 DEF EventLoop
<1>10. CASE UNCHANGED vars
  BY <1>1, <1>10 DEF vars
<1> QED
  BY <1>2, <1>3, <1>4, <1>5, <1>6, <1>7, <1>8, <1>9, <1>10 DEF Next

LEMMA CalledTypes ==
    ASSUME BrokerTypeOK, handing # NoMessage, handing.to # <<>>, Called
    PROVE  handing' \in [to : Seq(Observer), msg : Message] \cup {NoMessage}
<1> USE DEF BrokerTypeOK
<1>1. handing \in [to : Seq(Observer), msg : Message]
  OBVIOUS
<1>2. CASE Len(handing.to) = 1
  BY <1>2 DEF Called
<1>3. CASE Len(handing.to) # 1
  <2>1. handing' = [handing EXCEPT !.to = Tail(@)]
    BY <1>3 DEF Called
  <2>2. Tail(handing.to) \in Seq(Observer)
    BY <1>1
  <2> QED
    BY <1>1, <2>1, <2>2
<1> QED
  BY <1>2, <1>3

LEMMA SendsTypes == \A m \in Method : Sends(m) \in Seq(Operation \cup {"act", "join"})
<1> TAKE m \in Method
<1>1. /\ <<"Publish">> \in Seq(Operation \cup {"act", "join"})
      /\ <<"SetVariable">> \in Seq(Operation \cup {"act", "join"})
      /\ <<"SetVariable", "Publish">> \in Seq(Operation \cup {"act", "join"})
  BY DEF Operation
<1>2. Sends(m) \in {<<"Publish">>, <<"SetVariable">>, <<"SetVariable", "Publish">>}
  BY DEF Sends
<1> QED
  BY <1>1, <1>2

\* The broker's own steps keep its types, whoever takes them.
LEMMA BrokerStep ==
    TypeOK /\ Life /\ Mutex /\ [Next]_vars => BrokerTypeOK'
<1> SUFFICES ASSUME BrokerTypeOK, Life, Mutex, [Next]_vars,
                    doing # "none" => handing # NoMessage
             PROVE  BrokerTypeOK'
  BY DEF TypeOK
<1> USE BrokerAssumption, MainAssumption
    DEF BrokerTypeOK, sync, events, map, broker, handler, task, main
<1>1. ASSUME UNCHANGED broker PROVE BrokerTypeOK'
  BY <1>1
<1>2. ASSUME NEW c \in Client, NEW op \in Operation, Begin(c, op),
             UNCHANGED <<server, m_context_mutex, wire, crashed, events, map>>
      PROVE  BrokerTypeOK'
  BY <1>2 DEF Begin
<1>3. ASSUME UNCHANGED <<server, sync, events, map>>, crashed' \in BOOLEAN
      PROVE  BrokerTypeOK'
  BY <1>3
<1>4. CASE MainStep
  <2>1. CASE \/ Construct \/ VersionSet \/ AlarmInitialised \/ StartWatchdog
             \/ Signalled \/ TermAlarm \/ AlarmTerminated \/ WatchdogJoined
             \/ JoinEvents
    BY <1>1, <2>1 DEF Construct, VersionSet, AlarmInitialised, StartWatchdog,
       Signalled, TermAlarm, AlarmTerminated, WatchdogJoined, JoinEvents
  <2>2. CASE SetVersion \/ InitAlarm \/ InitModule \/ InitPublish
    BY <1>2, <2>2 DEF SetVersion, InitAlarm, InitModule, InitPublish, Operation
  <2>3. CASE SubscribeListener
    <3>1. m_observer_map' \in Seq(Observer)
      <4>1. m_observer_map' = Append(m_observer_map, "listener")
        BY <2>3 DEF SubscribeListener, Subscribe
      <4>2. m_observer_map \in Seq(Observer) /\ "listener" \in Observer
        OBVIOUS
      <4> QED
        BY <4>1, <4>2
    <3>2. /\ async' \in {"none", "queued", "done"}
          /\ loop' \in {"none", "created", "dispatch", "ended"}
      BY <2>3 DEF SubscribeListener, Subscribe
    <3> QED
      BY <2>3, <3>1, <3>2 DEF SubscribeListener
  <2>4. CASE Unregister
    <3>1. erasing' \in BOOLEAN /\ m_observer_map' = m_observer_map
      BY <2>4 DEF Unregister, BeginErase
    <3> QED
      BY <2>4, <3>1 DEF Unregister
  <2>5. CASE EraseListener
    <3>1. m_observer_map' = <<>> /\ erasing' = FALSE
      <4>1. CASE erasing
        <5>1. m_observer_map = <<"listener">>
          BY <2>5, <4>1 DEF EraseListener, Goto, Life
        <5> QED
          BY <2>5, <4>1, <5>1 DEF EraseListener, Erase
      <4>2. CASE ~erasing
        BY <2>5, <4>2 DEF EraseListener, Erase, Goto, Life
      <4> QED
        BY <4>1, <4>2
    <3>2. call' \in [Client -> Operation \cup {"none"}]
      BY <2>5 DEF EraseListener, Begin, Operation
    <3>3. m_observer_map' \in Seq(Observer) /\ erasing' \in BOOLEAN
      <4>1. <<>> \in Seq(Observer) /\ FALSE \in BOOLEAN
        OBVIOUS
      <4> QED
        BY <3>1, <4>1, Zenon
    <3>4. UNCHANGED <<server, m_context_mutex, wire, crashed, events>>
      BY <2>5 DEF EraseListener
    <3> QED
      BY <3>2, <3>3, <3>4
  <2>6. CASE StopWatchdog
    <3>1. crashed' \in BOOLEAN
      BY <2>6 DEF StopWatchdog
    <3> QED
      BY <1>3, <2>6, <3>1 DEF StopWatchdog
  <2>7. CASE Destroy
    <3>1. crashed' \in BOOLEAN
      BY <2>7 DEF Destroy
    <3> QED
      BY <1>3, <2>7, <3>1 DEF Destroy
  <2>8. CASE Loopbreak
    <3>1. broken' \in BOOLEAN
      BY <2>8 DEF Loopbreak
    <3> QED
      BY <2>8, <3>1 DEF Loopbreak
  <2> QED
    BY <1>4, <2>1, <2>2, <2>3, <2>4, <2>5, <2>6, <2>7, <2>8 DEF MainStep
<1>5. CASE Listener
  <2>1. ASSUME Called, handing # NoMessage,
               UNCHANGED <<server, sync, crashed, map, async, published, inbox,
                           loop, broken>>
        PROVE  BrokerTypeOK'
    <3>1. handing' \in [to : Seq(Observer), msg : Message] \cup {NoMessage}
      BY <2>1, CalledTypes DEF Life
    <3> QED
      BY <2>1, <3>1
  <2>2. CASE ChannelMessageListener
    BY <1>1, <2>1, <2>2 DEF ChannelMessageListener
  <2>3. CASE Act \/ Join
    BY <1>1, <2>3 DEF Act, Join
  <2>4. CASE Send
    BY <1>2, <2>4 DEF Send
  <2>5. CASE Return
    BY <2>1, <2>5 DEF Return
  <2> QED
    BY <1>5, <2>2, <2>3, <2>4, <2>5 DEF Listener
<1>6. CASE Watchdog \/ Detection \/ Liveview
  BY <1>2, <1>6 DEF Watchdog, Detection, Liveview, Operation
<1>7. CASE Signal \/ WatchdogEnds \/ UNCHANGED vars
  BY <1>1, <1>7 DEF Signal, WatchdogEnds, vars
<1>8. CASE UseAfterEnd
  BY <1>3, <1>8 DEF UseAfterEnd
<1>9. ASSUME NEW c \in Client, Exchange(c) PROVE BrokerTypeOK'
  <2>1. CASE Ask(c)
    BY <2>1 DEF Ask
  <2>2. CASE Answer(c)
    <3>1. CASE crashed' = TRUE /\ UNCHANGED sync
      BY <1>3, <2>2, <3>1 DEF Answer
    <3>2. CASE /\ wire' = Tail(wire) /\ m_context_mutex' = NoClient
               /\ call' = [call EXCEPT ![c] = "none"] /\ UNCHANGED crashed
      <4>1. wire = <<c>>
        BY <2>2 DEF Answer, Mutex
      <4>2. wire' = <<>>
        BY <3>2, <4>1
      <4> QED
        <5>1. wire' \in Seq(Client)
          BY <4>2
        <5>2. UNCHANGED <<server, crashed, events, map>>
          BY <2>2, <3>2 DEF Answer
        <5> QED
          BY <3>2, <5>1, <5>2
    <3> QED
      BY <2>2, <3>1, <3>2 DEF Answer
  <2> QED
    BY <1>9, <2>1, <2>2 DEF Exchange
<1>10. CASE Environment
  <2>1. CASE LoseServer
    BY <2>1 DEF LoseServer
  <2>2. ASSUME NEW m \in Message, Arrive(m) PROVE BrokerTypeOK'
    <3>1. inbox' \in Seq(Message) /\ published' \in 0 .. MaxMessage
      BY <2>2 DEF Arrive
    <3> QED
      BY <2>2, <3>1 DEF Arrive
  <2> QED
    BY <1>10, <2>1, <2>2 DEF Environment
<1>11. CASE EventLoop
  <2>1. CASE EnterLoop \/ SendSubscribe \/ LeaveLoop
    BY <2>1 DEF EnterLoop, SendSubscribe, LeaveLoop
  <2>2. CASE OnMessage
    <3>1. inbox' \in Seq(Message) /\ Head(inbox) \in Message
      BY <2>2 DEF OnMessage
    <3>2. handing' \in [to : Seq(Observer), msg : Message] \cup {NoMessage}
      <4>1. PICK found \in {m_observer_map} \cup IF erasing THEN {<<>>} ELSE {} :
              handing' = IF found = <<>> THEN NoMessage
                         ELSE [to |-> found, msg |-> Head(inbox)]
        BY <2>2 DEF OnMessage
      <4>2. found = m_observer_map \/ found = <<>>
        <5>1. CASE erasing
          BY <4>1, <5>1
        <5>2. CASE ~erasing
          BY <4>1, <5>2
        <5> QED
          BY <5>1, <5>2
      <4>3. found \in Seq(Observer)
        <5>1. <<>> \in Seq(Observer) /\ m_observer_map \in Seq(Observer)
          OBVIOUS
        <5> QED
          BY <4>2, <5>1, Zenon
      <4> QED
        BY <3>1, <4>1, <4>3
    <3>3. crashed' \in BOOLEAN
      BY <2>2 DEF OnMessage
    <3> QED
      BY <2>2, <3>1, <3>2, <3>3 DEF OnMessage
  <2> QED
    BY <1>11, <2>1, <2>2 DEF EventLoop
<1> QED
  BY <1>4, <1>5, <1>6, <1>7, <1>8, <1>9, <1>10, <1>11 DEF Next
-----------------------------------------------------------------------------
(* The types of Main, and where each thread may be in the broker.            *)

MainTypes ==
    /\ place \in Places
    /\ alarm \in {"none", "made", "ready", "over", "gone"}
    /\ active \subseteq Module
    /\ kinectalarm_running \in BOOLEAN /\ overlap \in BOOLEAN /\ lost \in BOOLEAN
    /\ m_running \in BOOLEAN /\ watchdog \in BOOLEAN

HandlerTypes ==
    /\ doing \in Method \cup {"none"}
    /\ todo \in Seq(Operation \cup {"act", "join"})

Inside ==
    /\ call["main"] # "none" => place \in {"version_set", "alarm_vars",
                                          "alarm_start", "unsubscribe"}
    /\ call["events"] # "none" \/ todo # <<>> => doing # "none"
    /\ doing # "none" => handing # NoMessage
    /\ call["watchdog"] # "none" => watchdog

LEMMA MainTypesStep == TypeOK /\ [Next]_vars => MainTypes'
<1> SUFFICES ASSUME MainTypes, [Next]_vars PROVE MainTypes'
  BY DEF TypeOK, MainTypes
<1> USE DEF MainTypes, Places, Module, task, main
<1>1. ASSUME UNCHANGED main PROVE MainTypes'
  BY <1>1
<1>2. CASE MainStep
  <2>1. CASE Construct \/ SetVersion \/ VersionSet \/ InitAlarm
    BY <2>1 DEF Construct, SetVersion, VersionSet, InitAlarm, Goto
  <2>2. CASE InitModule \/ InitPublish \/ AlarmInitialised
    BY <2>2 DEF InitModule, InitPublish, AlarmInitialised, Goto
  <2>3. CASE SubscribeListener \/ Signalled
    BY <2>3 DEF SubscribeListener, Signalled, Goto
  <2>4. CASE StartWatchdog
    <3>1. m_running' \in BOOLEAN /\ watchdog' \in BOOLEAN
      BY <2>4 DEF StartWatchdog
    <3> QED
      BY <2>4, <3>1 DEF StartWatchdog, Goto
  <2>5. CASE Unregister
    BY <2>5 DEF Unregister, Goto
  <2>6. CASE EraseListener
    <3>1. overlap' \in BOOLEAN
      BY <2>6 DEF EraseListener
    <3> QED
      BY <2>6, <3>1 DEF EraseListener, Goto
  <2>7. CASE TermAlarm \/ AlarmTerminated \/ WatchdogJoined
    BY <2>7 DEF TermAlarm, AlarmTerminated, WatchdogJoined, Goto
  <2>8. CASE StopWatchdog \/ Destroy \/ JoinEvents
    BY <2>8 DEF StopWatchdog, Destroy, JoinEvents, Goto
  <2>9. CASE Loopbreak
    <3>1. lost' \in BOOLEAN
      BY <2>9 DEF Loopbreak
    <3> QED
      BY <2>9, <3>1 DEF Loopbreak, Goto
  <2> QED
    BY <1>2, <2>1, <2>2, <2>3, <2>4, <2>5, <2>6, <2>7, <2>8, <2>9 DEF MainStep
<1>3. CASE Listener
  <2>1. CASE ChannelMessageListener \/ Join \/ Send \/ Return
    BY <1>1, <2>1 DEF ChannelMessageListener, Join, Send, Return
  <2>2. CASE Act
    <3>1. \A m \in DOMAIN Starts : Starts[m] \in Module
      BY DEF Starts
    <3>2. active' \subseteq Module
      BY <2>2, <3>1 DEF Act, NothingToDo
    <3> QED
      BY <2>2, <3>2 DEF Act
  <2> QED
    BY <1>3, <2>1, <2>2 DEF Listener
<1>4. CASE Watchdog \/ Detection \/ Liveview \/ UseAfterEnd \/ UNCHANGED vars
  BY <1>1, <1>4 DEF Watchdog, Detection, Liveview, UseAfterEnd, vars
<1>5. CASE WatchdogEnds \/ Signal
  BY <1>5 DEF WatchdogEnds, Signal
<1>6. CASE \/ \E c \in Client : Exchange(c)
           \/ (Environment \/ EventLoop) /\ UNCHANGED <<main, handler>>
  BY <1>1, <1>6 DEF Exchange
<1> QED
  BY <1>2, <1>3, <1>4, <1>5, <1>6 DEF Next

LEMMA HandlerTypesStep == TypeOK /\ [Next]_vars => HandlerTypes'
<1> SUFFICES ASSUME HandlerTypes, todo # <<>> => doing \in Method, [Next]_vars
             PROVE  HandlerTypes'
  BY DEF TypeOK, HandlerTypes
<1> USE DEF HandlerTypes, handler
<1>1. ASSUME UNCHANGED handler PROVE HandlerTypes'
  BY <1>1
<1>2. CASE Listener
  <2> DEFINE Todo == Seq(Operation \cup {"act", "join"})
  <2>1. <<>> \in Todo /\ <<"act">> \in Todo /\ <<"join">> \in Todo
    OBVIOUS
  <2>2. ASSUME NEW m \in Method, todo' = Sends(m) PROVE todo' \in Todo
    BY <2>2, SendsTypes
  <2> HIDE DEF Todo
  <2>3. CASE ChannelMessageListener
    <3>1. CASE UNCHANGED handler
      BY <1>1, <3>1
    <3>2. CASE doing' \in Means(handing.msg) /\ todo' = <<"act">>
      <4>1. doing' \in Method
        BY <3>2 DEF Means
      <4> QED
        BY <2>1, <3>2, <4>1 DEF Todo
    <3> QED
      BY <2>3, <3>1, <3>2 DEF ChannelMessageListener
  <2>5. CASE Join
    <3>1. doing \in Method /\ doing' = doing /\ todo' = Sends(doing)
      BY <2>5 DEF Join, Done
    <3> QED
      BY <2>2, <3>1 DEF Todo
  <2>6. CASE Send
    <3>1. todo' \in Todo /\ doing' = doing
      BY <2>6 DEF Send, Todo
    <3> QED
      BY <3>1 DEF Todo
  <2>7. CASE Return
    BY <2>7 DEF Return
  <2>4. CASE Act
    <3>1. doing' = doing
      BY <2>4 DEF Act
    <3>2. todo' \in Todo
      <4>1. CASE todo' = <<>> \/ todo' = <<"join">>
        BY <2>1, <4>1
      <4>2. CASE doing \in Method /\ todo' = Sends(doing)
        BY <2>2, <4>2
      <4>3. doing \in Method
        BY <2>4 DEF Act
      <4> QED
        BY <2>4, <4>1, <4>2, <4>3 DEF Act, NothingToDo, Done
    <3> QED
      BY <3>1, <3>2 DEF Todo
  <2> QED
    BY <1>2, <2>3, <2>4, <2>5, <2>6, <2>7 DEF Listener
<1>3. CASE MainStep
  BY <1>1, <1>3 DEF MainStep, Construct, SetVersion, VersionSet, InitAlarm,
     InitModule, InitPublish, AlarmInitialised, SubscribeListener,
     StartWatchdog, Signalled, Unregister, EraseListener, TermAlarm,
     AlarmTerminated, StopWatchdog, WatchdogJoined, Destroy, Loopbreak, JoinEvents
<1>4. CASE \/ Watchdog \/ Detection \/ Liveview \/ UseAfterEnd
           \/ WatchdogEnds \/ Signal \/ UNCHANGED vars
  BY <1>1, <1>4
     DEF Watchdog, Detection, Liveview, UseAfterEnd, WatchdogEnds, Signal, vars
<1>5. CASE \/ \E c \in Client : Exchange(c)
           \/ (Environment \/ EventLoop) /\ UNCHANGED <<main, handler>>
  BY <1>1, <1>5 DEF Exchange
<1> QED
  BY <1>2, <1>3, <1>4, <1>5 DEF Next

LEMMA InsideStep == TypeOK /\ Life /\ [Next]_vars => Inside'
<1> SUFFICES ASSUME Inside, place = "watchdog" => ~watchdog,
                    call \in [Client -> Operation \cup {"none"}], [Next]_vars
             PROVE  Inside'
  BY DEF TypeOK, BrokerTypeOK, Inside, Life
<1> USE MainAssumption DEF Inside, sync, events, broker, handler, task, main
<1>1. ASSUME call' = call \/ (\E c \in Client : call' = [call EXCEPT ![c] = "none"]),
             UNCHANGED <<place, watchdog, handler>>,
             handing # NoMessage => handing' = handing
      PROVE  Inside'
  <2>1. \A c \in Client : call'[c] # "none" => call[c] # "none"
    BY <1>1
  <2>2. {"main", "watchdog", "events"} \subseteq Client
    OBVIOUS
  <2> QED
    BY <1>1, <2>1, <2>2
<1>2. CASE MainStep
  <2>1. CASE SetVersion \/ InitAlarm \/ InitModule \/ InitPublish \/ EraseListener
    <3>1. /\ place' \in {"version_set", "alarm_vars", "alarm_start",
                        "unsubscribe"}
          /\ UNCHANGED <<handing, watchdog, handler>>
          /\ \E op \in Operation : Begin("main", op)
      BY <2>1 DEF SetVersion, InitAlarm, InitModule, InitPublish,
         EraseListener, Goto, Operation
    <3>2. call'["events"] = call["events"] /\ call'["watchdog"] = call["watchdog"]
      BY <3>1 DEF Begin
    <3> QED
      BY <3>1, <3>2
  <2>2. CASE StartWatchdog
    <3>1. call' = call /\ place = "watchdog" /\ UNCHANGED <<handing, handler>>
      BY <2>2 DEF StartWatchdog, Goto
    <3> QED
      BY <3>1
  <2>3. CASE VersionSet \/ AlarmInitialised \/ TermAlarm
    BY <2>3 DEF VersionSet, AlarmInitialised, TermAlarm
  <2>4. CASE \/ Construct \/ SubscribeListener \/ Signalled \/ Unregister
             \/ AlarmTerminated
    BY <2>4 DEF Construct, SubscribeListener, Signalled, Unregister,
       AlarmTerminated, Goto
  <2>5. CASE \/ StopWatchdog \/ WatchdogJoined \/ Destroy \/ Loopbreak
             \/ JoinEvents
    BY <2>5 DEF StopWatchdog, WatchdogJoined, Destroy, Loopbreak, JoinEvents,
       Goto
  <2> QED
    BY <1>2, <2>1, <2>2, <2>3, <2>4, <2>5 DEF MainStep
<1>3. CASE Listener
  <2>1. CASE ChannelMessageListener
    <3>1. /\ handing # NoMessage /\ doing = "none"
          /\ UNCHANGED <<call, place, watchdog>>
      BY <2>1 DEF ChannelMessageListener
    <3>2. CASE UNCHANGED handler
      BY <3>1, <3>2
    <3>3. CASE doing' \in Means(handing.msg) /\ UNCHANGED handing
      <4>1. doing' # "none"
        BY <3>3 DEF Means, Method, Words
      <4> QED
        BY <3>1, <3>3, <4>1
    <3> QED
      BY <2>1, <3>2, <3>3 DEF ChannelMessageListener
  <2>2. CASE Act \/ Join
    <3>1. todo = <<"act">> \/ todo = <<"join">>
      BY <2>2 DEF Act, Join
    <3>2. doing # "none"
      <4>1. <<"act">> # <<>> /\ <<"join">> # <<>>
        OBVIOUS
      <4>2. todo # <<>>
        BY <3>1, <4>1
      <4> QED
        BY <4>2
    <3>3. UNCHANGED <<call, handing, place, watchdog, doing>>
      BY <2>2 DEF Act, Join
    <3> QED
      BY <3>2, <3>3
  <2>3. CASE Send
    <3>1. /\ doing # "none" /\ UNCHANGED <<doing, handing, place, watchdog>>
          /\ call'["main"] = call["main"]
          /\ call'["watchdog"] = call["watchdog"]
      BY <2>3 DEF Send, Begin
    <3> QED
      BY <3>1
  <2>4. CASE Return
    BY <2>4 DEF Return
  <2> QED
    BY <1>3, <2>1, <2>2, <2>3, <2>4 DEF Listener
<1>4. CASE Watchdog \/ Detection \/ Liveview
  <2>1. /\ UNCHANGED <<handing, place, watchdog, handler>>
        /\ \E op \in Operation :
             \/ Begin("watchdog", op) /\ watchdog
             \/ Begin("detection", op)
             \/ Begin("liveview", op)
    BY <1>4 DEF Watchdog, Detection, Liveview, Operation
  <2> QED
    BY <2>1 DEF Begin
<1>5. CASE WatchdogEnds \/ Signal \/ UseAfterEnd \/ UNCHANGED vars
  BY <1>5 DEF WatchdogEnds, Signal, UseAfterEnd, vars
<1>6. ASSUME NEW c \in Client, Exchange(c) PROVE Inside'
  BY <1>1, <1>6 DEF Exchange, Ask, Answer
<1>7. CASE (Environment \/ EventLoop) /\ UNCHANGED <<main, handler>>
  BY <1>1, <1>7 DEF Environment, LoseServer, Arrive, EventLoop, EnterLoop,
     SendSubscribe, OnMessage, LeaveLoop
<1> QED
  BY <1>2, <1>3, <1>4, <1>5, <1>6, <1>7 DEF Next
-----------------------------------------------------------------------------
IInv == TypeOK /\ Mutex /\ Life

LEMMA Start == Init => IInv
<1> SUFFICES ASSUME Init PROVE IInv
  OBVIOUS
<1> USE BrokerAssumption, MainAssumption DEF Init, BrokerInit
<1>1. BrokerTypeOK
  <2>1. call \in [Client -> Operation \cup {"none"}] /\ published \in 0 .. MaxMessage
    OBVIOUS
  <2>2. wire \in Seq(Client) /\ inbox \in Seq(Message)
    OBVIOUS
  <2>3. m_observer_map \in Seq(Observer)
    OBVIOUS
  <2> QED
    BY <2>1, <2>2, <2>3 DEF BrokerTypeOK
<1>2. MainTypes
  BY DEF MainTypes, Places
<1>5. HandlerTypes
  <2>1. todo \in Seq(Operation \cup {"act", "join"})
    OBVIOUS
  <2> QED
    BY <2>1 DEF HandlerTypes
<1>6. Inside
  BY DEF Inside
<1>3. Mutex
  BY DEF Mutex
<1>4. Life
  BY DEF Life, Open, Before, Stopped
<1> QED
  BY <1>1, <1>2, <1>3, <1>4, <1>5, <1>6
     DEF IInv, TypeOK, MainTypes, HandlerTypes, Inside

LEMMA Invariance == Spec => []IInv
<1>1. IInv /\ [Next]_vars => IInv'
  <2> SUFFICES ASSUME IInv, [Next]_vars PROVE IInv'
    OBVIOUS
  <2>1. TypeOK /\ Mutex /\ Life
    BY DEF IInv
  <2>2. BrokerTypeOK' /\ MainTypes' /\ HandlerTypes' /\ Inside'
    BY <2>1, BrokerStep, MainTypesStep, HandlerTypesStep, InsideStep
  <2>3. Mutex'
    BY <2>1, MutexStep DEF TypeOK
  <2>4. Life'
    BY <2>1, LifeStep
  <2> QED
    BY <2>2, <2>3, <2>4 DEF IInv, TypeOK, MainTypes, HandlerTypes, Inside
<1> QED
  BY Start, <1>1, PTL DEF Spec

\* Values stay in their types, and each thread is in the broker only where it
\* calls it.
THEOREM TypeCorrect == Spec => []TypeOK
<1>1. IInv => TypeOK
  BY DEF IInv
<1> QED
  BY <1>1, Invariance, PTL

\* Each thread reads the reply of its own command, however many of them share
\* the connection of MessageBroker.
THEOREM RepliesAreOwn == Spec => []OwnReply
<1>1. IInv => OwnReply
  BY DEF IInv, Mutex, OwnReply
<1> QED
  BY <1>1, Invariance, PTL

\* A command is executed between Init and Term of Alarm, and what Term has
\* stopped stays so, unless a message was being handed out.
THEOREM CommandsMeetAlarm == Spec => []CommandsMeetLiveAlarm
<1>1. IInv => CommandsMeetLiveAlarm
  BY DEF IInv, TypeOK, Life, Open, Stopped, CommandsMeetLiveAlarm
<1> QED
  BY <1>1, Invariance, PTL
=============================================================================
