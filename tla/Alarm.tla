-------------------------------- MODULE Alarm --------------------------------
(***************************************************************************)
(* The Alarm class (src/alarm.cpp): it owns the kinect, the detection and  *)
(* the liveview modules, applies the commands that Main receives, and      *)
(* keeps the configuration in three places: in memory, in the STATUS row   *)
(* of the database, which survives a restart, and in the redis cache,      *)
(* which the web server reads.                                             *)
(*                                                                         *)
(* Two threads work on it without a lock: the one that runs Init, Term and *)
(* the commands ("ctrl"), and the detection thread ("det"), which calls    *)
(* the observer's IntrusionStarted and IntrusionStopped.  The process may  *)
(* crash between any two steps.                                            *)
(*                                                                         *)
(* The modules are taken at what Detection, Kinect and CyclicTask          *)
(* establish.  Start may get no thread, and leaves the module in between.  *)
(* Stop joins the thread that the handle names.  Before that, Stop of the  *)
(* detection joins the threads of its two inner tasks, which the detection *)
(* thread starts and stops too: once they have met there, the joins may    *)
(* throw, or wait for ever.  The queueing of images is the subject of      *)
(* ThreadPool.  A write to the database or to redis is taken to succeed.   *)
(***************************************************************************)
EXTENDS Integers

CONSTANTS
    Setting,        \* the adjustable settings that are modelled
    Value,          \* the values they can have
    Default,        \* their value in a new installation
    KinectMayFail,  \* whether the kinect may refuse Init, Start, ChangeTilt
    Flaky,          \* the objects to which the system may refuse a thread
    MaxNum          \* no intrusion begins at this detection number

ASSUME AlarmAssumption ==
    /\ Setting \subseteq {"tilt", "brightness", "contrast",
                          "threshold", "sensitivity"}
    /\ Default \in Value
    /\ KinectMayFail \in BOOLEAN
    /\ Flaky \subseteq {"det", "lvw", "kinect"}
    /\ MaxNum \in Nat

Module == {"det", "lvw"}
Object == Module \cup {"kinect"}
Thread == {"ctrl", "det"}

\* The settings of which a copy is in force elsewhere: in the device, or in
\* the detection module (UpdateConfig).  Brightness and contrast are read
\* from m_alarm_config where they are needed.
Copied == Setting \cap {"tilt", "threshold", "sensitivity"}

\* m_alarm_config and m_detection_config, a row of STATUS, the cache.
Config == [active : [Module -> BOOLEAN], num : Int, set : [Setting -> Value]]

DefaultConfig == [active |-> [m \in Module |-> FALSE], num |-> 0,
                  set |-> [s \in Setting |-> Default]]

NoCmd == [about |-> "none", to |-> Default]

VARIABLES
    phase,       \* where the process stands in Main::Init, or in Term
    pc, cmd,     \* where ctrl stands in which command
    cfg,         \* m_alarm_config and m_detection_config
    applied,     \* applied[s]: the copy of s that is in force
    running,     \* running[m]: IsRunning() of module m
    kin,         \* IsRunning() of the kinect
    handle,      \* handle[o]: m_thread of o: "null", "joinable" or "joined"
    dpc,         \* where the detection thread stands, "none" without one
    intrusion,   \* an intrusion is under way
    snap,        \* snap[t]: the row thread t is about to write
    led,         \* the led of the device
    status,      \* the rows of STATUS, at most one
    detections,  \* the IDs in DETECTIONS
    cache,       \* the variables in redis; num is det_numdet
    raced,       \* the last SetItem wrote an outdated row
    lapsed,      \* once, a number that a restart read was already in use
    met,         \* in this process, StopDetection met a detection thread that
                 \* was starting or stopping the inner tasks
    unmade       \* in this process, an object got no thread

device == <<applied, led>>
disk   == <<status, detections>>
ctrl   == <<phase, pc, cmd>>
mods   == <<running, kin, handle, unmade>>
dthr   == <<dpc, intrusion>>
ghost  == <<raced, lapsed, met>>
vars   == <<ctrl, cfg, mods, dthr, snap, device, disk, cache, ghost>>

Init ==
    /\ phase = "down" /\ pc = "none" /\ cmd = NoCmd
    /\ cfg = DefaultConfig
    /\ applied \in [Setting -> Value]
    /\ \A s \in Setting \ {"tilt"} : applied[s] = Default
    /\ running = [m \in Module |-> FALSE]
    /\ kin = FALSE
    /\ handle = [o \in Object |-> "null"]
    /\ dpc = "none" /\ intrusion = FALSE
    /\ snap = [t \in Thread |-> DefaultConfig]
    /\ led = "off"
    /\ status = {} /\ detections = {}
    /\ cache = DefaultConfig
    /\ raced = FALSE /\ lapsed = FALSE /\ met = FALSE /\ unmade = FALSE
-----------------------------------------------------------------------------
(* Common parts.                                                             *)

\* UpdateLed.  It is one step for either thread: only ctrl changes running,
\* and it does not touch the liveview while it waits for the other thread.
Colour == IF running["det"] THEN "yellow"
          ELSE IF running["lvw"] THEN "green" ELSE "off"

\* WriteStatus reads the configuration first ...
TakeSnapshot(t) == snap' = [snap EXCEPT ![t] = cfg]

\* ... and then SetItem replaces the whole row.
SetItem(t) ==
    /\ status' = {snap[t]}
    /\ raced' = (snap[t] # cfg)
    /\ snap' = [snap EXCEPT ![t] = DefaultConfig]

\* What follows when a command returns: the next part of Init, or nothing.
Following == [start_det |-> "start_lvw", start_lvw |-> "tilt",
              running |-> "running"]

Return ==
    /\ pc' = "none" /\ cmd' = NoCmd
    /\ phase' = Following[phase]

\* A command that fails makes Init fail, and Main calls Term.
Fail ==
    /\ pc' = "none" /\ cmd' = NoCmd
    /\ phase' = IF phase = "running" THEN "running" ELSE "term"

Begin(a, v, l) ==
    /\ cmd' = [about |-> a, to |-> v]
    /\ pc' = l
    /\ UNCHANGED phase

Goto(l) == pc' = l /\ UNCHANGED <<phase, cmd>>

\* The configuration c with the field that the command is about assigned.
Assigned(c) == IF cmd.about \in Module
               THEN [c EXCEPT !.active[cmd.about] = cmd.to]
               ELSE [c EXCEPT !.set[cmd.about] = cmd.to]
-----------------------------------------------------------------------------
(* Init: from a dead process to one that serves commands.                    *)

\* Mutant: CreateStatus is forgotten.
InitStateUncreated ==
    /\ phase = "down"
    /\ cfg' \in IF status = {} THEN {cfg} ELSE status
    /\ lapsed' = (lapsed \/ \E d \in detections : d >= cfg'.num)
    /\ phase' = "redis"
    /\ UNCHANGED <<pc, cmd, mods, dthr, snap, device, disk, cache,
                   raced, met>>

\* InitStatePersistenceVars: ReadStatus, or CreateStatus.
InitState ==
    /\ phase = "down"
    /\ cfg' \in IF status = {} THEN {cfg} ELSE status
    /\ status' = {cfg'}
    /\ lapsed' = (lapsed \/ \E d \in detections : d >= cfg'.num)
    /\ phase' = "redis"
    /\ UNCHANGED <<pc, cmd, mods, dthr, snap, device, detections,
                   cache, raced, met>>

\* InitVarsRedis: det_numdet is the number of the last detection.
InitRedis ==
    /\ phase = "redis"
    /\ cache' = [cfg EXCEPT !.num = @ - 1]
    /\ phase' = "kinect"
    /\ UNCHANGED <<pc, cmd, cfg, mods, dthr, snap, device, disk,
                   ghost>>

\* Kinect::Init, then UpdateLed.
InitKinect ==
    /\ phase = "kinect"
    /\ \/ phase' = "start_det" /\ led' = Colour
       \/ KinectMayFail /\ phase' = "term" /\ UNCHANGED led
    /\ UNCHANGED <<pc, cmd, cfg, applied, mods, dthr, snap, disk,
                   cache, ghost>>

\* A module that was not active is not started.
InitSkip ==
    /\ pc = "none"
    /\ \/ phase = "start_det" /\ ~cfg.active["det"]
       \/ phase = "start_lvw" /\ ~cfg.active["lvw"]
    /\ Return
    /\ UNCHANGED <<cfg, mods, dthr, snap, device, disk, cache, ghost>>

InitTilt ==
    /\ phase = "tilt"
    /\ \/ /\ phase' = "running"
          /\ applied' = [s \in Setting |-> IF s = "tilt" THEN cfg.set[s]
                                           ELSE applied[s]]
       \/ KinectMayFail /\ phase' = "term" /\ UNCHANGED applied
    /\ UNCHANGED <<pc, cmd, cfg, mods, dthr, snap, led, disk, cache,
                   ghost>>

Initialise == InitState \/ InitRedis \/ InitKinect \/ InitSkip \/ InitTilt
-----------------------------------------------------------------------------
(* The end of the process.                                                   *)

\* Memory is lost; the device, the database and redis keep what they have.
Down ==
    /\ phase' = "down" /\ pc' = "none" /\ cmd' = NoCmd
    /\ cfg' = DefaultConfig
    /\ applied' = [s \in Setting |-> IF s = "tilt" THEN applied[s]
                                     ELSE Default]
    /\ running' = [m \in Module |-> FALSE]
    /\ kin' = FALSE
    /\ handle' = [o \in Object |-> "null"]
    /\ dpc' = "none" /\ intrusion' = FALSE
    /\ snap' = [t \in Thread |-> DefaultConfig]
    /\ raced' = FALSE /\ met' = FALSE /\ unmade' = FALSE
    /\ UNCHANGED <<led, disk, cache, lapsed>>

Crash == phase # "down" /\ Down

\* A signal ends the main loop.
Signal ==
    /\ phase = "running" /\ pc = "none"
    /\ phase' = "term"
    /\ UNCHANGED <<pc, cmd, cfg, mods, dthr, snap, device, disk,
                   cache, ghost>>

\* Term stops what runs, and leaves the configuration as it is.  Nobody
\* catches what a join throws there: the process ends then, like in Crash.
TermDetection ==
    /\ phase = "term" /\ running["det"]
    /\ running' = [running EXCEPT !["det"] = FALSE]
    /\ UNCHANGED <<ctrl, cfg, kin, handle, unmade, dthr, snap, device, disk,
                   cache, ghost>>

TermRest == phase = "term" /\ ~running["det"] /\ dpc = "none" /\ Down

Term == TermDetection \/ TermRest
-----------------------------------------------------------------------------
(* The commands.  Init calls StartDetection and StartLiveview too.           *)

Free == pc = "none" /\ phase = "running"

\* The detection thread is starting or stopping the inner tasks.
Midway == {"begin", "end"}

\* So is StopDetection, or it waits for the detection thread.
InStop == \/ pc \in {"inner", "stuck"}
          \/ pc = "join" /\ cmd.about = "det"

CanStart(m, p) ==
    pc = "none" /\ (phase = "running" \/ (phase = p /\ cfg.active[m]))

\* m_kinect->Start(), unless it runs: ok if it returns 0.  Without a thread
\* it fails, but runs according to IsRunning.
KinectStart(ok) ==
    \/ kin /\ ok /\ UNCHANGED <<kin, handle, unmade>>
    \/ /\ ~kin /\ ok
       /\ kin' = TRUE
       /\ handle' = [handle EXCEPT !["kinect"] = "joinable"]
       /\ UNCHANGED unmade
    \/ /\ ~kin /\ ~ok /\ KinectMayFail
       /\ UNCHANGED <<kin, handle, unmade>>
    \/ /\ ~kin /\ ~ok /\ "kinect" \in Flaky
       /\ kin' = TRUE /\ unmade' = TRUE
       /\ UNCHANGED handle

StartDetection ==
    /\ CanStart("det", "start_det")
    /\ \/ KinectStart(TRUE) /\ Begin("det", TRUE, "start")
       \/ KinectStart(FALSE) /\ Fail
    /\ UNCHANGED <<cfg, running, dthr, snap, device, disk, cache, ghost>>

\* A kinect that does not start is logged, and the liveview starts anyway.
StartLiveview ==
    /\ CanStart("lvw", "start_lvw")
    /\ \E ok \in BOOLEAN : KinectStart(ok)
    /\ Begin("lvw", TRUE, "start")
    /\ UNCHANGED <<cfg, running, dthr, snap, device, disk, cache, ghost>>

\* Start of the module, unless it already runs.  Without a thread it fails
\* after m_running has been set, and the command is given up.
ModuleStart(m) ==
    /\ pc = "start" /\ cmd.about = m
    /\ \/ /\ running[m] /\ Fail
          /\ UNCHANGED <<running, handle, unmade, dthr>>
       \/ /\ ~running[m]
          /\ running' = [running EXCEPT ![m] = TRUE]
          /\ handle' = [handle EXCEPT ![m] = "joinable"]
          /\ IF m = "det" THEN dpc' = "test" /\ intrusion' = FALSE
                          ELSE UNCHANGED dthr
          /\ Goto("assign")
          /\ UNCHANGED unmade
       \/ /\ ~running[m] /\ m \in Flaky
          /\ running' = [running EXCEPT ![m] = TRUE]
          /\ unmade' = TRUE
          /\ Fail
          /\ UNCHANGED <<handle, dthr>>
    /\ UNCHANGED <<cfg, kin, snap, device, disk, cache, ghost>>

\* Detection::Stop begins with the inner tasks.
StopDetection ==
    /\ Free /\ running["det"]
    /\ Begin("det", FALSE, "inner")
    /\ met' = (met \/ dpc \in Midway)
    /\ UNCHANGED <<cfg, mods, dthr, snap, device, disk, cache, raced, lapsed>>

StopLiveview ==
    /\ Free /\ running["lvw"]
    /\ running' = [running EXCEPT !["lvw"] = FALSE]
    /\ Begin("lvw", FALSE, "join")
    /\ UNCHANGED <<cfg, kin, handle, unmade, dthr, snap, device, disk, cache,
                   ghost>>

\* ChangeTilt (when the device accepts it) and the other four.
ChangeSetting(s, v) ==
    /\ Free
    /\ Begin(s, v, "assign")
    /\ UNCHANGED <<cfg, mods, dthr, snap, device, disk, cache, ghost>>

\* DeleteDetection: the files, then the row.
DeleteDetection(id) ==
    /\ Free
    /\ detections' = detections \ {id}
    /\ UNCHANGED <<ctrl, cfg, mods, dthr, snap, device, status, cache,
                   ghost>>

\* ResetDetection: all rows and all files; the number goes on.
ResetDetection ==
    /\ Free
    /\ detections' = {}
    /\ UNCHANGED <<ctrl, cfg, mods, dthr, snap, device, status, cache,
                   ghost>>
-----------------------------------------------------------------------------
(* How a command goes on: the module commands stop or start the module and   *)
(* write memory, the database, the cache and the led, the settings write     *)
(* memory, the cache and then the database.                                  *)

\* Both inner tasks are stopped: then the thread of the detection is told.
InnerStopped ==
    /\ pc = "inner"
    /\ running' = [running EXCEPT !["det"] = FALSE]
    /\ Goto("join")
    /\ UNCHANGED <<cfg, kin, handle, unmade, dthr, snap, device, disk, cache,
                   ghost>>

\* A thread was already joined: Stop ends there, and the exception is caught
\* where messages are received (main.cpp:364).
InnerThrows ==
    /\ pc = "inner" /\ met
    /\ Fail
    /\ UNCHANGED <<cfg, mods, dthr, snap, device, disk, cache, ghost>>

\* The thread to join is one that a new intrusion has started: it ends with
\* that intrusion, and need not end.
InnerHangs ==
    /\ pc = "inner" /\ met
    /\ Goto("stuck")
    /\ UNCHANGED <<cfg, mods, dthr, snap, device, disk, cache, ghost>>

Unstuck ==
    /\ pc = "stuck"
    /\ Goto("inner")
    /\ UNCHANGED <<cfg, mods, dthr, snap, device, disk, cache, ghost>>

\* The join in Stop of object o: it throws when an older thread was the last
\* that the handle named.
Joins(o)  == handle[o] = "joinable" /\ handle' = [handle EXCEPT ![o] = "joined"]
Throws(o) == handle[o] = "joined" /\ UNCHANGED handle

Join(m) ==
    /\ pc = "join" /\ cmd.about = m
    /\ \/ (m = "det" => dpc = "none") /\ Joins(m) /\ Goto("assign")
       \/ Throws(m) /\ Fail
    /\ UNCHANGED <<cfg, running, kin, unmade, dthr, snap, device, disk, cache,
                   ghost>>

\* The field, and for a setting its copy.
Assign ==
    /\ pc = "assign"
    /\ cfg' = Assigned(cfg)
    /\ applied' = IF cmd.about \in Copied
                  THEN [applied EXCEPT ![cmd.about] = cmd.to] ELSE applied
    /\ Goto(IF cmd.about \in Module THEN "snapshot" ELSE "cache")
    /\ UNCHANGED <<mods, dthr, snap, led, disk, cache, ghost>>

Snapshot ==
    /\ pc = "snapshot"
    /\ TakeSnapshot("ctrl")
    /\ Goto("write")
    /\ UNCHANGED <<cfg, mods, dthr, device, disk, cache, ghost>>

WriteStatus ==
    /\ pc = "write"
    /\ SetItem("ctrl")
    /\ IF cmd.about \in Module THEN Goto("cache") ELSE Return
    /\ UNCHANGED <<cfg, mods, dthr, device, detections, cache, lapsed, met>>

\* Mutant: a setting is not written to the database.
SetVariableOnly ==
    /\ pc = "cache"
    /\ cache' = Assigned(cache)
    /\ IF cmd.about \in Module THEN Goto("led") ELSE Return
    /\ UNCHANGED <<cfg, mods, dthr, snap, device, disk, ghost>>

\* Mutant: the cache is not updated.
SetVariableForgotten ==
    /\ pc = "cache"
    /\ Goto(IF cmd.about \in Module THEN "led" ELSE "snapshot")
    /\ UNCHANGED <<cfg, mods, dthr, snap, device, disk, cache, ghost>>

SetVariable ==
    /\ pc = "cache"
    /\ cache' = Assigned(cache)
    /\ Goto(IF cmd.about \in Module THEN "led" ELSE "snapshot")
    /\ UNCHANGED <<cfg, mods, dthr, snap, device, disk, ghost>>

UpdateLed ==
    /\ pc = "led"
    /\ led' = Colour
    /\ IF cmd.to THEN Return ELSE Goto("release")
    /\ UNCHANGED <<cfg, applied, mods, dthr, snap, disk, cache, ghost>>

\* Mutant: the kinect is stopped with the first module.
ReleaseKinectAlways ==
    /\ pc = "release"
    /\ kin' = FALSE
    /\ handle' = [handle EXCEPT !["kinect"] = "joined"]
    /\ Return
    /\ UNCHANGED <<cfg, running, unmade, dthr, snap, device, disk, cache,
                   ghost>>

Unused == kin /\ \A m \in Module : ~running[m]

\* "Stop Kinect if possible".  It is the last thing that the command does,
\* also when the join throws.
ReleaseKinect ==
    /\ pc = "release"
    /\ IF Unused THEN kin' = FALSE /\ (Joins("kinect") \/ Throws("kinect"))
                 ELSE UNCHANGED <<kin, handle>>
    /\ Return
    /\ UNCHANGED <<cfg, running, unmade, dthr, snap, device, disk, cache,
                   ghost>>

\* Stop of an object that never had a thread: the null handle ends the process.
NullHandle ==
    /\ \/ pc = "join" /\ handle[cmd.about] = "null"
       \/ pc = "release" /\ Unused /\ handle["kinect"] = "null"
    /\ Down

Continue == \/ \E m \in Module : ModuleStart(m) \/ Join(m)
            \/ InnerStopped \/ InnerThrows \/ InnerHangs
            \/ Assign \/ Snapshot \/ WriteStatus \/ SetVariable
            \/ UpdateLed \/ ReleaseKinect \/ NullHandle

Command ==
    \/ StopDetection \/ StopLiveview \/ ResetDetection
    \/ \E s \in Setting, v \in Value : ChangeSetting(s, v)
    \/ \E id \in detections : DeleteDetection(id)

Start == StartDetection \/ StartLiveview
-----------------------------------------------------------------------------
(* The detection thread.                                                     *)

DetGoto(from, to) == dpc = from /\ dpc' = to

\* Mutant: the loop does not look at m_running.
LoopTestAlways ==
    /\ DetGoto("test", "cycle")
    /\ UNCHANGED <<ctrl, cfg, mods, intrusion, snap, device, disk,
                   cache, ghost>>

LoopTest ==
    /\ DetGoto("test", IF running["det"] THEN "cycle" ELSE "none")
    /\ UNCHANGED <<ctrl, cfg, mods, intrusion, snap, device, disk,
                   cache, ghost>>

\* A cycle without a call to the observer.
PlainCycle ==
    /\ DetGoto("cycle", "test")
    /\ UNCHANGED <<ctrl, cfg, mods, intrusion, snap, device, disk,
                   cache, ghost>>

\* An intrusion begins: the observer is told, then the inner tasks start.
IntrusionStarted ==
    /\ ~intrusion /\ cfg.num < MaxNum
    /\ DetGoto("cycle", "begin")
    /\ intrusion' = TRUE
    /\ led' = "red"
    /\ met' = (met \/ InStop)
    /\ UNCHANGED <<ctrl, cfg, mods, snap, applied, disk, cache, raced, lapsed>>

InnerStarted ==
    /\ DetGoto("begin", "test")
    /\ UNCHANGED <<ctrl, cfg, mods, intrusion, snap, device, disk, cache,
                   ghost>>

\* It ends: the inner tasks are stopped before the observer is told.
IntrusionEnds ==
    /\ intrusion
    /\ DetGoto("cycle", "end")
    /\ met' = (met \/ InStop)
    /\ UNCHANGED <<ctrl, cfg, mods, intrusion, snap, device, disk, cache, raced,
                   lapsed>>

\* Mutant: the led stays red.
IntrusionStoppedRed ==
    /\ DetGoto("end", "insert")
    /\ UNCHANGED <<ctrl, cfg, mods, intrusion, snap, device, disk,
                   cache, ghost>>

\* IntrusionStopped begins with UpdateLed.
IntrusionStopped ==
    /\ DetGoto("end", "insert")
    /\ led' = Colour
    /\ UNCHANGED <<ctrl, cfg, mods, intrusion, snap, applied, disk,
                   cache, ghost>>

\* InsertItem: a number that is in use is refused by the primary key, which
\* is logged.
InsertDetection ==
    /\ DetGoto("insert", "numdet")
    /\ detections' = detections \cup {cfg.num}
    /\ UNCHANGED <<ctrl, cfg, mods, intrusion, snap, device, status,
                   cache, ghost>>

SetNumDetections ==
    /\ DetGoto("numdet", "increment")
    /\ cache' = [cache EXCEPT !.num = cfg.num]
    /\ UNCHANGED <<ctrl, cfg, mods, intrusion, snap, device, disk,
                   ghost>>

\* Mutant: the number stays.
IncrementForgotten ==
    /\ DetGoto("increment", "snapshot")
    /\ UNCHANGED <<ctrl, cfg, mods, intrusion, snap, device, disk,
                   cache, ghost>>

\* Mutant: WriteStatus is forgotten.
IncrementOnly ==
    /\ DetGoto("increment", "test")
    /\ cfg' = [cfg EXCEPT !.num = @ + 1]
    /\ intrusion' = FALSE
    /\ UNCHANGED <<ctrl, mods, snap, device, disk, cache, ghost>>

Increment ==
    /\ DetGoto("increment", "snapshot")
    /\ cfg' = [cfg EXCEPT !.num = @ + 1]
    /\ UNCHANGED <<ctrl, mods, intrusion, snap, device, disk, cache,
                   ghost>>

DetSnapshot ==
    /\ DetGoto("snapshot", "write")
    /\ TakeSnapshot("det")
    /\ UNCHANGED <<ctrl, cfg, mods, intrusion, device, disk, cache,
                   ghost>>

DetWriteStatus ==
    /\ DetGoto("write", "test")
    /\ SetItem("det")
    /\ intrusion' = FALSE
    /\ UNCHANGED <<ctrl, cfg, mods, device, detections, cache, lapsed, met>>

DetStep == \/ LoopTest \/ PlainCycle \/ IntrusionStarted \/ InnerStarted
           \/ IntrusionEnds \/ IntrusionStopped \/ InsertDetection
           \/ SetNumDetections \/ Increment \/ DetSnapshot \/ DetWriteStatus
-----------------------------------------------------------------------------
Next ==
    \/ Initialise \/ Term \/ Signal \/ Crash
    \/ Start \/ Command \/ Continue \/ Unstuck \/ DetStep

\* Both threads are run.  A dead process need not be restarted, commands need
\* not come, and Init and Term need not go on.
Fairness == WF_vars(Continue) /\ WF_vars(DetStep)

Spec == Init /\ [][Next]_vars /\ Fairness
-----------------------------------------------------------------------------
\* The steps of IntrusionStopped after which the table, the cache and the
\* number do not agree.
Reporting == {"numdet", "increment", "snapshot", "write"}

\* Values, and where the control of the two threads can be.
TypeOK ==
    /\ phase \in {"down", "redis", "kinect", "start_det", "start_lvw", "tilt",
                  "running", "term"}
    /\ pc \in {"none", "start", "inner", "stuck", "join", "assign", "snapshot",
               "write", "cache", "led", "release"}
    /\ pc # "none" => phase \in {"start_det", "start_lvw", "running"}
    /\ IF pc = "none" THEN cmd = NoCmd
       ELSE \/ cmd \in [about : Module, to : BOOLEAN]
            \/ /\ cmd \in [about : Setting, to : Value]
               /\ pc \in {"assign", "snapshot", "write", "cache"}
    /\ cfg \in Config /\ cache \in Config
    /\ snap \in [Thread -> Config]
    /\ status \subseteq Config
    /\ \A r, q \in status : r = q
    /\ phase # "down" => status # {}
    /\ applied \in [Setting -> Value]
    /\ running \in [Module -> BOOLEAN]
    /\ {kin, intrusion, raced, lapsed, met, unmade} \subseteq BOOLEAN
    /\ handle \in [Object -> {"null", "joinable", "joined"}]
    /\ dpc \in {"none", "test", "cycle", "insert"} \cup Midway \cup Reporting
    /\ led \in {"off", "green", "yellow", "red"}
    /\ detections \subseteq Int

Idle == phase = "running" /\ pc = "none"

\* alarm.cpp:117, 162-382, 478-501, 639-767: between two commands memory and
\* cache agree with the threads that are there, and with the tilt of the device,
\* also after a restart that resumed what was active or came in the middle of
\* ChangeTilt, after a Start that got no thread, and after a Stop that threw:
\* whatever IsRunning() says then, the module has a thread exactly when the
\* configuration says that it is on.
CommandsTakeEffect ==
    Idle =>
        /\ \A m \in Module :
               cfg.active[m] <=> running[m] /\ handle[m] = "joinable"
        /\ cfg.active["det"] <=> dpc # "none"
        /\ cache.active = cfg.active /\ cache.set = cfg.set
        /\ dpc \notin Reporting => cache.num = cfg.num - 1
        /\ \A s \in Setting \cap {"tilt"} : applied[s] = cfg.set[s]

\* alarm.cpp:166, 262-268, 371-377: no detection thread ever runs on a kinect
\* that was not started or was stopped, although the liveview stops it too.
\* Nor does the kinect run for nobody, in a process that got all its threads.
KinectServes ==
    /\ dpc # "none" => kin
    /\ Idle /\ kin /\ ~unmade => \E m \in Module : running[m]

\* alarm.cpp:384-413, 807-813: between two commands the led shows what runs,
\* and red only during an intrusion, whatever the order in which the two
\* threads set it, in a process that got all its threads.
LedTellsTruth ==
    Idle /\ ~unmade =>
        /\ led \in {Colour, "red"}
        /\ led = "red" => running["det"] /\ intrusion

\* alarm.cpp:834-863: as long as no restart read an outdated number, the
\* number of the next detection is not in use, and InsertItem succeeds.
NumberIsFresh ==
    ~lapsed /\ phase # "down" =>
        \A d \in detections :
            d < cfg.num \/ (d = cfg.num /\ dpc \in {"numdet", "increment"})

\* alarm.cpp:834-863: a restart at any moment outside the end of an intrusion
\* reads a number that is not in use, unless two WriteStatus overlapped.
RestartIsSafe ==
    ~lapsed /\ ~raced /\ phase # "down" /\ dpc \notin Reporting =>
        \A r \in status, d \in detections : d < r.num

\* alarm.cpp:182, 729, 862: between two commands the database has the
\* configuration, unless two WriteStatus overlapped.
StatusIsCurrent ==
    Idle /\ dpc \notin Reporting /\ ~raced => status = {cfg}

\* alarm.cpp:162-382: every command returns, whatever the detection thread is
\* reporting and whatever fails, with one exception: a StopDetection can stay
\* in the joins of the inner tasks (detection.cpp:61-62), and only after one
\* in this process has met a detection thread that was starting or stopping
\* them.
CommandReturns ==
    pc # "none" ~> pc = "none" \/ (pc = "stuck" /\ met)
-----------------------------------------------------------------------------
(* What the comments say, and the code does not do.                          *)

\* alarm.cpp:182, 729, 862: "Update Persistence DB", "Change Status".
StatusIsWritten == Idle /\ dpc \notin Reporting => status = {cfg}

\* alarm.cpp:108: "Apply status".
StatusIsApplied == Idle => \A s \in Copied : applied[s] = cfg.set[s]
=============================================================================
