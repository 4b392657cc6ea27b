--------------------------------- MODULE Main ---------------------------------
(***************************************************************************)
(* The life of the process (src/main.cpp): the main thread makes the       *)
(* objects, initialises them, waits for a signal and takes everything      *)
(* down; the watchdog renews a variable of the cache; the event thread of  *)
(* MessageBroker calls the MessageListener, which parses a command and     *)
(* calls Alarm; the detection thread and the liveview publish.  All five   *)
(* share the broker.                                                       *)
(*                                                                         *)
(* Alarm is taken at what its module establishes: its operations return,   *)
(* and after Stop a module is silent, as long as one thread calls them.    *)
(***************************************************************************)
EXTENDS MessageBroker

ASSUME MainAssumption ==
    /\ {"main", "watchdog", "events", "detection", "liveview"} \subseteq Client
    /\ "listener" \in Observer

VARIABLES
    place,    \* where the main thread stands
    kinectalarm_running,
    alarm,    \* m_alarm: "none", "made", "ready" after Init, "over" from Term
              \* on, "gone"
    active,   \* its modules that run
    m_running, watchdog,  \* of the watchdog: the flag, and that it has a thread
    doing,    \* the command that the event thread executes
    todo,     \* what is left of it
    \* History.
    overlap,  \* Unsubscribe came when OnMessage had already found observers
    lost      \* loopbreak was called before the loop was entered

handler == <<doing, todo>>
task    == <<m_running, watchdog>>
main    == <<place, kinectalarm_running, alarm, active, task, overlap, lost>>
vars    == <<broker, main, handler>>

Module == {"det", "lvw"}

Init ==
    /\ BrokerInit
    /\ place = "new" /\ kinectalarm_running = TRUE
    /\ alarm = "none" /\ active = {}
    /\ m_running = FALSE /\ watchdog = FALSE
    /\ doing = "none" /\ todo = <<>>
    /\ overlap = FALSE /\ lost = FALSE

Alive == place # "ended" /\ ~crashed
-----------------------------------------------------------------------------
(* MessageListener.                                                          *)

\* parameter_map and action_map: the words of each command.  A "number" is
\* what std::stoi reads.
Words ==
    [StartDetection    |-> <<"det", "start">>,
     StopDetection     |-> <<"det", "stop">>,
     ResetDetection    |-> <<"det", "rst">>,
     DeleteDetection   |-> <<"det", "del", "number">>,
     StartLiveview     |-> <<"lvw", "start">>,
     StopLiveview      |-> <<"lvw", "stop">>,
     ChangeTilt        |-> <<"tilt", "number">>,
     ChangeBrightness  |-> <<"brightness", "number">>,
     ChangeContrast    |-> <<"contrast", "number">>,
     ChangeThreshold   |-> <<"threshold", "number">>,
     ChangeSensitivity |-> <<"sensitivity", "number">>]

Method == DOMAIN Words

\* The commands that a message is: one, or none.  Further words are ignored.
Means(msg) ==
    {m \in Method :
        /\ Len(Words[m]) <= Len(msg)
        /\ \A i \in DOMAIN Words[m] : msg[i] = Words[m][i]}

\* What a command sends to the broker after it has done its work.
Sends(m) ==
    CASE m \in {"ResetDetection", "DeleteDetection"} -> <<"Publish">>
      [] m \in {"ChangeTilt", "ChangeBrightness", "ChangeContrast"}
           -> <<"SetVariable">>
      [] OTHER -> <<"SetVariable", "Publish">>

Starts == [StartDetection |-> "det", StartLiveview |-> "lvw"]
Stops  == [StopDetection |-> "det", StopLiveview |-> "lvw"]

\* The client that the thread of a module is.
ClientOf == [det |-> "detection", lvw |-> "liveview"]

\* ChannelMessageListener: words that are no command raise an exception,
\* which is caught.
ChannelMessageListener ==
    /\ handing # NoMessage /\ doing = "none"
    /\ IF Means(handing.msg) = {} THEN Called /\ UNCHANGED handler
       ELSE /\ doing' \in Means(handing.msg)
            /\ todo' = <<"act">>
            /\ UNCHANGED handing
    /\ UNCHANGED <<server, sync, crashed, map, async, published, inbox, loop,
                   broken, main>>

Done(m) == todo' = Sends(m)

\* A command that has nothing to do, or fails, sends nothing.
NothingToDo(m) ==
    /\ \/ m \in DOMAIN Starts
       \/ m \in DOMAIN Stops /\ Stops[m] \notin active
       \/ m = "ChangeTilt"
    /\ todo' = <<>>
    /\ UNCHANGED active

Act ==
    /\ todo = <<"act">>
    /\ \/ NothingToDo(doing)
       \/ /\ doing \in DOMAIN Starts /\ Starts[doing] \notin active
          /\ active' = active \cup {Starts[doing]}
          /\ Done(doing)
       \/ /\ doing \in DOMAIN Stops /\ Stops[doing] \in active
          /\ active' = active \ {Stops[doing]}
          /\ todo' = <<"join">>
       \/ /\ doing \notin DOMAIN Starts \cup DOMAIN Stops
          /\ UNCHANGED active
          /\ Done(doing)
    /\ UNCHANGED <<broker, place, kinectalarm_running, alarm, task, overlap,
                   lost, doing>>

\* Stop of a module waits for its thread.
Join ==
    /\ todo = <<"join">>
    /\ doing \in DOMAIN Stops => call[ClientOf[Stops[doing]]] = "none"
    /\ Done(doing)
    /\ UNCHANGED <<broker, main, doing>>

Send ==
    /\ todo # <<>> /\ Head(todo) \in Operation
    /\ Begin("events", Head(todo))
    /\ todo' = Tail(todo)
    /\ UNCHANGED <<server, m_context_mutex, wire, crashed, events, map, main,
                   doing>>

\* Mutant: the last reply is not waited for.
ReturnEarly ==
    /\ doing # "none" /\ todo = <<>>
    /\ doing' = "none"
    /\ Called
    /\ UNCHANGED <<server, sync, crashed, map, async, published, inbox, loop,
                   broken, main, todo>>

Return ==
    /\ doing # "none" /\ todo = <<>> /\ call["events"] = "none"
    /\ doing' = "none"
    /\ Called
    /\ UNCHANGED <<server, sync, crashed, map, async, published, inbox, loop,
                   broken, main, todo>>

Listener == ChannelMessageListener \/ Act \/ Join \/ Send \/ Return

\* The objects that the listener uses are gone: anything may happen.
UseAfterEnd ==
    /\ alarm = "gone" /\ handing # NoMessage
    /\ crashed' = TRUE
    /\ UNCHANGED <<server, sync, events, map, main, handler>>
-----------------------------------------------------------------------------
(* The watchdog, and the threads of the modules.                             *)

Watchdog ==
    /\ watchdog /\ m_running
    /\ Begin("watchdog", "SetVariableExpiration")
    /\ UNCHANGED <<server, m_context_mutex, wire, crashed, events, map, main,
                   handler>>

WatchdogEnds ==
    /\ watchdog /\ ~m_running /\ call["watchdog"] = "none"
    /\ watchdog' = FALSE
    /\ UNCHANGED <<broker, place, kinectalarm_running, alarm, active, m_running,
                   overlap, lost, handler>>

Detection ==
    /\ "det" \in active
    /\ \E op \in {"Publish", "SetVariable"} : Begin("detection", op)
    /\ UNCHANGED <<server, m_context_mutex, wire, crashed, events, map, main,
                   handler>>

Liveview ==
    /\ "lvw" \in active
    /\ Begin("liveview", "Publish")
    /\ UNCHANGED <<server, m_context_mutex, wire, crashed, events, map, main,
                   handler>>
-----------------------------------------------------------------------------
(* The main thread.                                                          *)

Goto(from, to) == place = from /\ place' \in to

\* The constructor.
Construct ==
    /\ Goto("new", {"version", "ended"})
    /\ alarm' = IF place' = "ended" THEN "none" ELSE "made"
    /\ UNCHANGED <<broker, kinectalarm_running, active, task, overlap, lost,
                   handler>>

\* Init: the version, and the variables of Alarm, are set.
SetVersion ==
    /\ Goto("version", {"version_set"}) /\ Begin("main", "SetVariable")
    /\ UNCHANGED <<server, m_context_mutex, wire, crashed, events, map,
                   kinectalarm_running, alarm, active, task, overlap, lost,
                   handler>>

VersionSet ==
    /\ call["main"] = "none"
    /\ Goto("version_set", {"alarm_init", "unregister"})
    /\ UNCHANGED <<broker, kinectalarm_running, alarm, active, task, overlap,
                   lost, handler>>

InitAlarm ==
    /\ Goto("alarm_init", {"alarm_vars"}) /\ Begin("main", "SetVariable")
    /\ UNCHANGED <<server, m_context_mutex, wire, crashed, events, map,
                   kinectalarm_running, alarm, active, task, overlap, lost,
                   handler>>

\* Alarm::Init starts the modules that were active, and sends what the
\* commands would.
InitModule ==
    /\ Goto("alarm_vars", {"alarm_start"}) /\ Begin("main", "SetVariable")
    /\ \E m \in Module \ active : active' = active \cup {m}
    /\ UNCHANGED <<server, m_context_mutex, wire, crashed, events, map,
                   kinectalarm_running, alarm, task, overlap, lost, handler>>

InitPublish ==
    /\ Goto("alarm_start", {"alarm_vars"}) /\ Begin("main", "Publish")
    /\ UNCHANGED <<server, m_context_mutex, wire, crashed, events, map,
                   kinectalarm_running, alarm, active, task, overlap, lost,
                   handler>>

\* It may fail halfway.
AlarmInitialised ==
    /\ call["main"] = "none"
    /\ Goto("alarm_vars", {"subscribe", "unregister"})
    /\ alarm' = IF place' = "subscribe" THEN "ready" ELSE "made"
    /\ UNCHANGED <<broker, kinectalarm_running, active, task, overlap, lost,
                   handler>>

\* SUBSCRIBE may be refused, with the observer registered.  If the thread
\* cannot be made, the exception ends main without Term.
SubscribeListener ==
    /\ Goto("subscribe", {"watchdog", "unregister", "destroy"})
    /\ IF place' = "watchdog" THEN Subscribe("listener")
       ELSE /\ m_observer_map' = Append(m_observer_map, "listener")
            /\ async' \in {async, "queued"}
            /\ UNCHANGED loop
    /\ UNCHANGED <<server, sync, crashed, published, inbox, broken, handing,
                   erasing, kinectalarm_running, alarm, active, task, overlap,
                   lost, handler>>

\* A thread that cannot be made leaves m_running set.
StartWatchdog ==
    /\ Goto("watchdog", {"sleep", "unregister"})
    /\ m_running' = TRUE /\ watchdog' = (place' = "sleep")
    /\ UNCHANGED <<broker, kinectalarm_running, alarm, active, overlap, lost,
                   handler>>

Signalled ==
    /\ ~kinectalarm_running
    /\ Goto("sleep", {"unregister"})
    /\ UNCHANGED <<broker, kinectalarm_running, alarm, active, task, overlap,
                   lost, handler>>

\* Term: Unsubscribe, ...
Unregister ==
    /\ Goto("unregister", {"erase"})
    /\ BeginErase("listener")
    /\ UNCHANGED <<server, sync, crashed, events, kinectalarm_running, alarm,
                   active, task, overlap, lost, handler>>

\* Mutant: the observer stays in the map.
KeepListener ==
    /\ Goto("erase", {"unsubscribe"})
    /\ Begin("main", "UNSUBSCRIBE")
    /\ erasing' = FALSE
    /\ overlap' = (handing # NoMessage)
    /\ UNCHANGED <<server, m_context_mutex, wire, crashed, events,
                   m_observer_map, kinectalarm_running, alarm, active, task,
                   lost, handler>>

EraseListener ==
    /\ Goto("erase", {"unsubscribe"})
    /\ Begin("main", "UNSUBSCRIBE")
    /\ Erase("listener")
    /\ overlap' = (handing # NoMessage)
    /\ UNCHANGED <<server, m_context_mutex, wire, crashed, events,
                   kinectalarm_running, alarm, active, task, lost, handler>>

\* ... Alarm::Term, which stops the modules, ...
TermAlarm ==
    /\ call["main"] = "none"
    /\ Goto("unsubscribe", {"alarm_term"})
    /\ alarm' = "over"
    /\ active' = {}
    /\ UNCHANGED <<broker, kinectalarm_running, task, overlap, lost, handler>>

\* ... and waits for their threads.  Together with a command, one of the two
\* calls of Stop may throw.
AlarmTerminated ==
    /\ \A m \in Module : call[ClientOf[m]] = "none"
    /\ Goto("alarm_term", {"watch_stop"} \cup
                          IF overlap THEN {"destroy"} ELSE {})
    /\ UNCHANGED <<broker, kinectalarm_running, alarm, active, task, overlap,
                   lost, handler>>

\* Stop of the watchdog does nothing if it was not started, and uses a null
\* handle if it has no thread.
StopWatchdog ==
    /\ Goto("watch_stop", {IF m_running THEN "watch_join" ELSE "destroy"})
    /\ m_running' = FALSE
    /\ crashed' = (m_running /\ ~watchdog)
    /\ UNCHANGED <<server, sync, events, map, kinectalarm_running, alarm,
                   active, watchdog, overlap, lost, handler>>

WatchdogJoined ==
    /\ ~watchdog
    /\ Goto("watch_join", {"destroy"})
    /\ UNCHANGED <<broker, kinectalarm_running, alarm, active, task, overlap,
                   lost, handler>>

\* The destructor: m_alarm, m_data_base and m_message_observer go first, and
\* with them the modules.  A module that runs is stopped when half of it is
\* gone already.
Destroy ==
    /\ Goto("destroy", {"break"})
    /\ crashed' \in {FALSE, active # {} \/ watchdog}
    /\ alarm' = "gone" /\ active' = {}
    /\ UNCHANGED <<server, sync, events, map, kinectalarm_running, task,
                   overlap, lost, handler>>

\* Mutant: the loop is not told to end.
NoLoopbreak ==
    /\ Goto("break", {IF loop = "none" THEN "ended" ELSE "join"})
    /\ UNCHANGED <<broker, kinectalarm_running, alarm, active, task, overlap,
                   lost, handler>>

\* Then m_message_broker, whose destructor ends the event thread.
Loopbreak ==
    /\ Goto("break", {IF loop = "none" THEN "ended" ELSE "join"})
    /\ broken' = (loop # "none")
    /\ lost' = (loop = "created")
    /\ UNCHANGED <<server, sync, crashed, map, async, published, inbox, loop,
                   handing, kinectalarm_running, alarm, active, task, overlap,
                   handler>>

JoinEvents ==
    /\ loop = "ended"
    /\ Goto("join", {"ended"})
    /\ UNCHANGED <<broker, kinectalarm_running, alarm, active, task, overlap,
                   lost, handler>>

MainStep ==
    \/ Construct \/ SetVersion \/ VersionSet \/ InitAlarm \/ InitModule
    \/ InitPublish \/ AlarmInitialised \/ SubscribeListener \/ StartWatchdog
    \/ Signalled \/ Unregister \/ EraseListener \/ TermAlarm
    \/ AlarmTerminated \/ StopWatchdog \/ WatchdogJoined
    \/ Destroy \/ Loopbreak \/ JoinEvents

\* SIGINT, SIGTERM or SIGQUIT.
Signal ==
    /\ kinectalarm_running
    /\ kinectalarm_running' = FALSE
    /\ UNCHANGED <<broker, place, alarm, active, task, overlap, lost, handler>>
-----------------------------------------------------------------------------
Exchange(c) == (Ask(c) \/ Answer(c)) /\ UNCHANGED <<main, handler>>
Environment == LoseServer \/ \E m \in Message : Arrive(m)
EventLoop   == EnterLoop \/ SendSubscribe \/ OnMessage \/ LeaveLoop

Next ==
    \/ /\ Alive
       /\ \/ MainStep \/ Signal \/ Listener \/ UseAfterEnd
          \/ Watchdog \/ WatchdogEnds \/ Detection \/ Liveview
          \/ \E c \in Client : Exchange(c)
          \/ (Environment \/ EventLoop) /\ UNCHANGED <<main, handler>>
    \/ ~Alive /\ UNCHANGED vars

\* The threads run and the server answers or goes.  Who waits for the mutex
\* gets it in the end, because nobody holds it most of the time.
Fairness ==
    /\ WF_vars(Alive /\ MainStep)
    /\ WF_vars(Alive /\ Listener)
    /\ WF_vars(Alive /\ Watchdog) /\ WF_vars(Alive /\ WatchdogEnds)
    /\ WF_vars(Alive /\ EnterLoop /\ UNCHANGED <<main, handler>>)
    /\ WF_vars(Alive /\ LeaveLoop /\ UNCHANGED <<main, handler>>)
    /\ \A c \in Client : SF_vars(Alive /\ Exchange(c))

Spec == Init /\ [][Next]_vars /\ Fairness
-----------------------------------------------------------------------------
Places == {"new", "version", "version_set", "alarm_init", "alarm_vars",
           "alarm_start", "subscribe", "watchdog", "sleep", "unregister",
           "erase", "unsubscribe", "alarm_term", "watch_stop", "watch_join",
           "destroy", "break", "join", "ended"}

\* Types, and that each thread is in the broker only where it calls it.
TypeOK ==
    /\ BrokerTypeOK
    /\ place \in Places
    /\ alarm \in {"none", "made", "ready", "over", "gone"}
    /\ active \subseteq Module
    /\ kinectalarm_running \in BOOLEAN /\ overlap \in BOOLEAN /\ lost \in BOOLEAN
    /\ m_running \in BOOLEAN /\ watchdog \in BOOLEAN
    /\ doing \in Method \cup {"none"}
    /\ todo \in Seq(Operation \cup {"act", "join"})
    /\ call["main"] # "none" => place \in {"version_set", "alarm_vars",
                                          "alarm_start", "unsubscribe"}
    /\ call["events"] # "none" \/ todo # <<>> => doing # "none"
    /\ doing # "none" => handing # NoMessage
    /\ call["watchdog"] # "none" => watchdog

\* message_broker.cpp:283-422: whoever reads the next reply has sent the
\* command that it answers, whichever threads use the connection together.
OwnReply == wire # <<>> => wire = <<m_context_mutex>>

\* main.cpp:133-199: a command is executed only between Alarm's Init and its
\* Term, and what Term has stopped is not started again, unless the message
\* was already being handed out when Unsubscribe came.
CommandsMeetLiveAlarm ==
    ~overlap =>
        /\ doing # "none" => alarm = "ready"
        /\ place \in {"watch_stop", "watch_join"} => active = {}

\* main.cpp:216-254, message_broker.cpp:127-141: a signal ends the process,
\* whatever it is doing, and so does the loss of the server, through the null
\* reply that the watchdog gets.  Excepted are a command that Term runs into,
\* and a loopbreak that is called before the loop has been entered.
EndsWhenTold ==
    ~kinectalarm_running \/ server = "down"
        ~> ~Alive \/ overlap \/ (lost /\ server = "up")
=============================================================================
