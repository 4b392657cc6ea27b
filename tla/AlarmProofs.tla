---------------------------- MODULE AlarmProofs ----------------------------
(***************************************************************************)
(* Proofs about Alarm for any settings, values and number of detections:   *)
(* its types, and its safety properties from one inductive invariant.      *)
(***************************************************************************)
EXTENDS Alarm, TLAPS

USE AlarmAssumption

LEMMA Defaults == /\ DefaultConfig \in Config
                  /\ NoCmd \notin [about : Module, to : BOOLEAN]
BY DEF DefaultConfig, Config, NoCmd, Module

\* A command assigns one field, and never the detection number.
LEMMA AssignedConfig ==
    ASSUME NEW c \in Config,
           \/ cmd \in [about : Module, to : BOOLEAN]
           \/ cmd \in [about : Setting, to : Value]
    PROVE  Assigned(c) \in Config /\ Assigned(c).num = c.num
<1>1. CASE cmd.about \in Module
  <2>1. cmd.to \in BOOLEAN
    BY <1>1 DEF Module
  <2> QED
    BY <1>1, <2>1 DEF Assigned, Config
<1>2. CASE cmd.about \notin Module
  <2>1. cmd \in [about : Setting, to : Value]
    BY <1>2
  <2> QED
    BY <1>2, <2>1 DEF Assigned, Config
<1> QED
  BY <1>1, <1>2

LEMMA TypeInit == Init => TypeOK
BY Defaults DEF Init, TypeOK, Module, Object, Thread, Midway, Reporting

LEMMA TypeStep == TypeOK /\ [Next]_vars => TypeOK'
<1> SUFFICES ASSUME TypeOK, [Next]_vars PROVE TypeOK'
  OBVIOUS
<1> USE DEF TypeOK, Object, Midway, Reporting, device, disk, ctrl, mods, dthr,
       ghost
<1>1. CASE InitState
  BY <1>1 DEF InitState
<1>2. CASE InitRedis
  BY <1>2 DEF InitRedis, Config
<1>3. CASE InitKinect
  BY <1>3 DEF InitKinect, Colour
<1>4. CASE InitSkip
  BY <1>4 DEF InitSkip, Return, Following
<1>5. CASE InitTilt
  BY <1>5 DEF InitTilt, Config
<1>6. CASE Crash \/ TermRest \/ NullHandle
  <2>1. Down
    BY <1>6 DEF Crash, TermRest, NullHandle
  <2>2. applied' \in [Setting -> Value]
    BY <2>1 DEF Down
  <2>3. {kin', intrusion', raced', lapsed', met', unmade'} \subseteq BOOLEAN
    BY <2>1 DEF Down
  <2>4. handle' \in [Object -> {"null", "joinable", "joined"}]
    BY <2>1 DEF Down
  <2> QED
    BY <2>1, <2>2, <2>3, <2>4, Defaults DEF Down, Module, Thread
<1>7. CASE Signal
  BY <1>7 DEF Signal
<1>8. CASE TermDetection
  BY <1>8 DEF TermDetection, Module
<1>9. CASE StartDetection \/ StartLiveview
  <2>1. PICK ok \in BOOLEAN : KinectStart(ok)
    BY <1>9 DEF StartDetection, StartLiveview
  <2>2. {kin', unmade'} \subseteq BOOLEAN
    BY <2>1 DEF KinectStart
  <2>3. handle' \in [Object -> {"null", "joinable", "joined"}]
    BY <2>1 DEF KinectStart
  <2>4. \/ /\ pc' = "start" /\ phase' \in {"start_det", "start_lvw", "running"}
           /\ cmd' \in [about : Module, to : BOOLEAN]
        \/ /\ pc' = "none" /\ cmd' = NoCmd
           /\ phase' \in {"running", "term"}
    <3>1. phase \in {"start_det", "start_lvw", "running"}
      BY <1>9 DEF StartDetection, StartLiveview, CanStart
    <3>2. ASSUME NEW m \in Module, Begin(m, TRUE, "start")
          PROVE  /\ pc' = "start"
                 /\ phase' \in {"start_det", "start_lvw", "running"}
                 /\ cmd' \in [about : Module, to : BOOLEAN]
      <4>1. cmd' = [about |-> m, to |-> TRUE] /\ pc' = "start" /\ phase' = phase
        BY <3>2 DEF Begin
      <4> QED
        BY <3>1, <4>1
    <3>3. CASE Fail
      BY <3>3 DEF Fail
    <3>4. "det" \in Module /\ "lvw" \in Module
      BY DEF Module
    <3> QED
      BY <1>9, <3>2, <3>3, <3>4 DEF StartDetection, StartLiveview
  <2>5. UNCHANGED <<cfg, running, dthr, snap, device, disk, cache, ghost>>
    BY <1>9 DEF StartDetection, StartLiveview
  <2>6. phase' # "down" => status' # {}
    BY <1>9, <2>5 DEF StartDetection, StartLiveview, CanStart
  <2> QED
    BY <2>2, <2>3, <2>4, <2>5, <2>6
<1>10. ASSUME NEW m \in Module, ModuleStart(m) PROVE TypeOK'
  <2>1. pc = "start" /\ UNCHANGED <<cfg, kin, snap, device, disk, cache, ghost>>
    BY <1>10 DEF ModuleStart
  <2>2. running' \in [Module -> BOOLEAN]
    BY <1>10 DEF ModuleStart
  <2>3. handle' \in [Object -> {"null", "joinable", "joined"}]
    BY <1>10 DEF ModuleStart
  <2>4. unmade' \in BOOLEAN
    BY <1>10 DEF ModuleStart
  <2>5. intrusion' \in BOOLEAN
    BY <1>10 DEF ModuleStart
  <2>6. dpc' \in {dpc, "test"}
    BY <1>10 DEF ModuleStart
  <2>7. Fail \/ Goto("assign")
    BY <1>10 DEF ModuleStart
  <2> QED
    BY <2>1, <2>2, <2>3, <2>4, <2>5, <2>6, <2>7 DEF Fail, Goto
<1>11. CASE StopDetection
  BY <1>11 DEF StopDetection, Free, Begin, Module
<1>12. CASE InnerStopped
  BY <1>12 DEF InnerStopped, Goto
<1>13. CASE InnerThrows \/ InnerHangs \/ Unstuck
  BY <1>13 DEF InnerThrows, Fail, InnerHangs, Unstuck, Goto
<1>14. ASSUME NEW m \in Module, Join(m) PROVE TypeOK'
  BY <1>14 DEF Join, Joins, Throws, Goto, Fail
<1>16. CASE StopLiveview
  BY <1>16 DEF StopLiveview, Free, Begin, Module
<1>17. ASSUME NEW s \in Setting, NEW v \in Value, ChangeSetting(s, v)
       PROVE  TypeOK'
  BY <1>17 DEF ChangeSetting, Free, Begin
<1>18. ASSUME NEW id \in detections, DeleteDetection(id) PROVE TypeOK'
  BY <1>18 DEF DeleteDetection
<1>19. CASE ResetDetection
  BY <1>19 DEF ResetDetection
<1>20. CASE Assign
  BY <1>20, AssignedConfig DEF Assign, Goto, Copied, Module
<1>21. CASE Snapshot
  BY <1>21 DEF Snapshot, TakeSnapshot, Goto, Thread
<1>22. CASE WriteStatus
  BY <1>22, Defaults DEF WriteStatus, SetItem, Goto, Return, Following, Thread
<1>23. CASE SetVariable
  BY <1>23, AssignedConfig DEF SetVariable, Goto, Module
<1>24. CASE UpdateLed
  BY <1>24 DEF UpdateLed, Colour, Return, Following, Goto
<1>25. CASE ReleaseKinect
  <2>1. handle' \in [Object -> {"null", "joinable", "joined"}]
    BY <1>25 DEF ReleaseKinect, Joins, Throws
  <2>2. kin' \in BOOLEAN
    BY <1>25 DEF ReleaseKinect
  <2> QED
    BY <1>25, <2>1, <2>2 DEF ReleaseKinect, Return, Following
<1>26. CASE LoopTest \/ PlainCycle
  BY <1>26 DEF LoopTest, PlainCycle, DetGoto
<1>27. CASE InnerStarted \/ IntrusionEnds
  BY <1>27 DEF InnerStarted, IntrusionEnds, DetGoto
<1>28. CASE IntrusionStarted \/ IntrusionStopped
  BY <1>28 DEF IntrusionStarted, IntrusionStopped, DetGoto, Colour
<1>29. CASE InsertDetection
  BY <1>29 DEF InsertDetection, DetGoto, Config
<1>30. CASE SetNumDetections
  BY <1>30 DEF SetNumDetections, DetGoto, Config
<1>31. CASE Increment
  BY <1>31 DEF Increment, DetGoto, Config
<1>32. CASE DetSnapshot
  BY <1>32 DEF DetSnapshot, TakeSnapshot, DetGoto, Thread
<1>33. CASE DetWriteStatus
  BY <1>33, Defaults DEF DetWriteStatus, SetItem, DetGoto, Thread
<1>34. CASE UNCHANGED vars
  BY <1>34 DEF vars
<1> QED
  BY <1>1, <1>2, <1>3, <1>4, <1>5, <1>6, <1>7, <1>8, <1>9, <1>10, <1>11,
     <1>12, <1>13, <1>14, <1>16, <1>17, <1>18, <1>19, <1>20, <1>21,
     <1>22, <1>23, <1>24, <1>25, <1>26, <1>27, <1>28, <1>29, <1>30, <1>31,
     <1>32, <1>33, <1>34
     DEF Next, Initialise, Term, Start, Command, Continue, DetStep

\* alarm.cpp:162-767: types, the places the two threads can be in, and the
\* single row of STATUS, which exists from the first Init on.
THEOREM TypeCorrect == Spec => []TypeOK
<1> QED
  BY TypeInit, TypeStep, PTL DEF Spec
-----------------------------------------------------------------------------
(* The invariant.  None of the safety properties of Alarm is inductive: most *)
(* speak only of the time between two commands, or of no report being under  *)
(* way.  Each part below says what holds at every step.                      *)

\* Where the field of a module command is assigned, copied and shown.
Assigning == {"assign", "snapshot", "write", "cache", "led", "release"}

\* Who runs, and who has a thread.  A thread outlives m_running only while
\* somebody joins it, and m_running outlives a thread only where the system
\* has refused one.
Control ==
    /\ phase \in {"down", "redis", "kinect"} =>
           /\ \A m \in Module : ~running[m]
           /\ \A o \in Object : handle[o] = "null"
           /\ ~kin /\ ~unmade
    /\ phase = "start_det" => ~running["lvw"] /\ handle["lvw"] = "null"
    /\ dpc # "none" => kin /\ handle["det"] = "joinable"
    /\ running["det"] /\ handle["det"] = "joinable" => dpc # "none"
    /\ \A m \in Module :
           /\ handle[m] = "joinable" /\ ~running[m] =>
                  phase = "term" \/ (pc = "join" /\ cmd.about = m)
           /\ ~unmade /\ running[m] => handle[m] = "joinable"
    /\ ~unmade /\ pc = "join" => handle[cmd.about] = "joinable"
    /\ pc = "start" => cmd.to = TRUE /\ (cmd.about = "det" => kin)
    /\ pc \in {"inner", "stuck"} => running["det"] /\ cmd.about = "det"
    /\ pc \in {"inner", "stuck", "join", "release"} => cmd.to = FALSE
    /\ pc \in {"start", "join", "release"} => cmd.about \in Module
    /\ pc = "join" => ~running[cmd.about]
    /\ pc \in Assigning /\ cmd.about \in Module =>
           /\ running[cmd.about] = cmd.to
           /\ (handle[cmd.about] = "joinable") = cmd.to
    /\ kin /\ ~unmade =>
           \/ \E m \in Module : running[m]
           \/ pc = "start" \/ phase = "term"
           \/ pc # "none" /\ cmd.about \in Module /\ cmd.to = FALSE
    /\ phase = "start_det" /\ pc # "none" => cmd.about = "det" /\ cmd.to = TRUE
    /\ phase = "start_lvw" /\ pc # "none" => cmd.about = "lvw" /\ cmd.to = TRUE

\* A row of STATUS differs from memory only between a change of memory and the
\* write that follows.
CtrlDirty == \/ pc \in {"snapshot", "write"}
             \/ pc = "cache" /\ cmd.about \notin Module
DetDirty  == dpc \in {"snapshot", "write"}

Numbers ==
    ~raced /\ phase # "down" /\ ~DetDirty => \A r \in status : r.num = cfg.num

Rows == ~raced /\ phase # "down" /\ ~CtrlDirty /\ ~DetDirty => status = {cfg}

\* The modules that Init has dealt with.
Resumed(m) == \/ phase \in {"tilt", "running"}
              \/ m = "det" /\ phase = "start_lvw"
              \/ pc \in Assigning /\ cmd.about = m

\* What memory says is active has a thread, except while the module's own
\* command has not yet assigned it.
Active ==
    \A m \in Module :
        /\ Resumed(m) /\ ~(pc = "assign" /\ cmd.about = m) =>
               (handle[m] = "joinable") = cfg.active[m]
        /\ phase = "start_det" /\ pc = "none" => ~running[m]
        /\ phase = "start_lvw" /\ pc = "none" => ~running["lvw"]

\* The cache follows memory, a step of the same thread later.
Cached ==
    phase \notin {"down", "redis"} =>
        /\ \A m \in Module :
               IF pc \in {"snapshot", "write", "cache"} /\ cmd.about = m
               THEN cfg.active[m] = cmd.to
               ELSE cache.active[m] = cfg.active[m]
        /\ \A s \in Setting :
               IF pc = "cache" /\ cmd.about = s THEN cfg.set[s] = cmd.to
               ELSE cache.set[s] = cfg.set[s]
        /\ cache.num = IF dpc = "increment" THEN cfg.num ELSE cfg.num - 1

\* The led, except while a command that changes what runs has not reached it.
Led ==
    /\ /\ phase \notin {"down", "redis", "kinect", "term"} /\ ~unmade
       /\ ~(pc \in {"join", "assign", "snapshot", "write", "cache", "led"}
            /\ cmd.about \in Module)
       => /\ led \in {Colour, "red"}
          /\ led = "red" => running["det"] /\ intrusion
    /\ dpc \in {"insert"} \cup Reporting => led # "red"
    /\ dpc \in {"end", "insert"} \cup Reporting => intrusion

Tilted ==
    phase = "running" =>
        \A s \in Setting \cap {"tilt"} : applied[s] = cfg.set[s]

IInv == /\ TypeOK /\ Control
        /\ NumberIsFresh /\ Numbers /\ Rows
        /\ Active /\ Cached /\ Led /\ Tilted

(* One lemma for each part: a step preserves it, by the part itself, TypeOK  *)
(* and Control.                                                              *)

\* The join in StopDetection is what keeps the kinect for the last cycle.
LEMMA ControlStep ==
    TypeOK /\ Control /\ [Next]_vars => Control'
<1> SUFFICES ASSUME TypeOK, Control, [Next]_vars
             PROVE  Control'
  OBVIOUS
<1> USE DEF TypeOK, Object, Midway, Reporting, Control, Module, Assigning,
       device, disk, ctrl, mods,
       dthr, ghost
<1>1. CASE InitState
  BY <1>1 DEF InitState
<1>2. CASE InitRedis
  BY <1>2 DEF InitRedis
<1>3. CASE InitKinect \/ InitSkip \/ InitTilt
  BY <1>3 DEF InitKinect, Colour, InitSkip, Return, Following, InitTilt
<1>4. CASE Crash \/ TermRest \/ NullHandle
  BY <1>4 DEF Crash, TermRest, NullHandle, Down, DefaultConfig, NoCmd
<1>5. CASE Signal
  BY <1>5 DEF Signal
<1>6. CASE TermDetection
  BY <1>6 DEF TermDetection
<1>7. CASE StartDetection
  BY <1>7 DEF StartDetection, KinectStart, CanStart, Begin, Fail
<1>8. ASSUME NEW m \in Module, ModuleStart(m) PROVE Control'
  <2>1. pc = "start" /\ cmd.about = m /\ kin' = kin
    BY <1>8 DEF ModuleStart
  <2>2. CASE running[m] /\ Fail
    BY <1>8, <2>1, <2>2 DEF ModuleStart, Fail
  <2>3. CASE ~running[m] /\ Goto("assign")
    <3>1. /\ pc' = "assign" /\ cmd' = cmd /\ phase' = phase
          /\ running' = [running EXCEPT ![m] = TRUE]
          /\ handle' = [handle EXCEPT ![m] = "joinable"]
          /\ unmade' = unmade
          /\ IF m = "det" THEN dpc' = "test" ELSE dpc' = dpc
      BY <1>8, <2>1, <2>3 DEF ModuleStart, Fail, Goto
    <3>2. CASE m = "det"
      BY <2>1, <3>1, <3>2
    <3>3. CASE m = "lvw"
      BY <2>1, <3>1, <3>3
    <3> QED
      BY <3>2, <3>3
  <2>4. CASE ~running[m] /\ Fail
    BY <1>8, <2>1, <2>4 DEF ModuleStart, Fail, Goto
  <2> QED
    BY <1>8, <2>2, <2>3, <2>4 DEF ModuleStart
<1>9. CASE StopDetection
  BY <1>9 DEF StopDetection, Free, Begin
<1>10. CASE InnerStopped
  BY <1>10 DEF InnerStopped, Goto
<1>11. CASE InnerThrows \/ InnerHangs \/ Unstuck
  BY <1>11 DEF InnerThrows, Fail, InnerHangs, Unstuck, Goto
<1>12. ASSUME NEW m \in Module, Join(m) PROVE Control'
  BY <1>12 DEF Join, Joins, Throws, Goto, Fail
<1>13. CASE StartLiveview
  <2>1. PICK ok \in BOOLEAN : KinectStart(ok)
    BY <1>13 DEF StartLiveview
  <2>2. /\ kin => kin'
        /\ unmade => unmade'
        /\ \A m \in Module : handle'[m] = handle[m]
    BY <2>1 DEF KinectStart
  <2>3. /\ pc = "none" /\ phase \in {"start_lvw", "running"}
        /\ pc' = "start" /\ cmd' = [about |-> "lvw", to |-> TRUE]
        /\ UNCHANGED <<phase, running, dthr>>
    BY <1>13 DEF StartLiveview, CanStart, Begin
  <2> QED
    BY <2>2, <2>3
<1>14. CASE StopLiveview
  BY <1>14 DEF StopLiveview, Free, Begin
<1>15. ASSUME NEW s \in Setting, NEW v \in Value, ChangeSetting(s, v)
       PROVE  Control'
  BY <1>15 DEF ChangeSetting, Free, Begin
<1>16. ASSUME NEW id \in detections, DeleteDetection(id) PROVE Control'
  BY <1>16 DEF DeleteDetection, Free
<1>17. CASE ResetDetection
  BY <1>17 DEF ResetDetection, Free
<1>18. CASE Assign
  BY <1>18 DEF Assign, Goto, Assigned, Copied
<1>19. CASE Snapshot \/ WriteStatus
  BY <1>19 DEF Snapshot, TakeSnapshot, Goto, WriteStatus, SetItem, Return,
     Following
<1>20. CASE SetVariable \/ UpdateLed
  BY <1>20 DEF SetVariable, Goto, Assigned, UpdateLed, Colour, Return, Following
<1>21. CASE ReleaseKinect
  BY <1>21 DEF ReleaseKinect, Unused, Joins, Throws, Return, Following
<1>22. CASE InnerStarted \/ IntrusionEnds
  BY <1>22 DEF InnerStarted, IntrusionEnds, DetGoto
<1>23. CASE LoopTest \/ PlainCycle \/ IntrusionStarted \/ IntrusionStopped
  BY <1>23 DEF LoopTest, DetGoto, PlainCycle, IntrusionStarted,
     IntrusionStopped, Colour
<1>24. CASE InsertDetection \/ SetNumDetections \/ Increment \/ DetSnapshot \/
       DetWriteStatus
  BY <1>24 DEF InsertDetection, DetGoto, SetNumDetections, Increment,
     DetSnapshot, TakeSnapshot, DetWriteStatus, SetItem
<1>25. CASE UNCHANGED vars
  BY <1>25 DEF vars
<1> QED
  BY <1>1, <1>2, <1>3, <1>4, <1>5, <1>6, <1>7, <1>8, <1>9, <1>10, <1>11,
     <1>12, <1>13, <1>14, <1>15, <1>16, <1>17, <1>18, <1>19, <1>20, <1>21,
     <1>22, <1>23, <1>24, <1>25
     DEF Next, Initialise, Term, Start, Command, Continue, DetStep

\* Only IntrusionStopped uses a number, and it increments it before the next.
LEMMA NumberStep ==
    TypeOK /\ Control /\ NumberIsFresh /\ [Next]_vars => NumberIsFresh'
<1> SUFFICES ASSUME TypeOK, Control, NumberIsFresh, [Next]_vars
             PROVE  NumberIsFresh'
  OBVIOUS
<1> USE DEF TypeOK, Object, Midway, Reporting, Control,
       NumberIsFresh, Config, Module, device, disk, ctrl, mods, dthr, ghost
<1>1. CASE InitState
  <2>1. cfg' \in Config /\ dpc' = "none"
    BY <1>1 DEF InitState, Control
  <2>2. ASSUME ~lapsed', NEW d \in detections PROVE d < cfg'.num
    <3>1. ~ \E e \in detections : e >= cfg'.num
      BY <1>1, <2>2, Zenon DEF InitState
    <3>2. cfg'.num \in Int /\ d \in Int
      BY <2>1 DEF Config
    <3> QED
      BY <3>1, <3>2
  <2> QED
    BY <1>1, <2>2 DEF InitState
<1>2. CASE InitRedis \/ InitKinect \/ InitTilt \/ InitSkip \/ Signal
  BY <1>2 DEF InitRedis, InitKinect, Colour, InitTilt, InitSkip, Return,
     Following, Signal
<1>3. CASE Crash \/ TermRest \/ NullHandle
  BY <1>3 DEF Crash, TermRest, NullHandle, Down, DefaultConfig, NoCmd
<1>4. CASE TermDetection \/ StopDetection \/ StopLiveview
  <2>1. phase # "down" /\ UNCHANGED <<cfg, detections, dpc, lapsed>>
    BY <1>4 DEF TermDetection, StopDetection, Free, StopLiveview
  <2> QED
    BY <2>1
<1>5. CASE StartDetection \/ StartLiveview
  <2>1. phase # "down" /\ UNCHANGED <<cfg, detections, dpc, lapsed>>
    BY <1>5 DEF StartDetection, CanStart, StartLiveview
  <2> QED
    BY <2>1
<1>6. ASSUME NEW m \in Module, ModuleStart(m) PROVE NumberIsFresh'
  BY <1>6 DEF ModuleStart, Fail, Goto
<1>7. CASE InnerStopped
  BY <1>7 DEF InnerStopped, Goto
<1>8. CASE InnerThrows \/ InnerHangs \/ Unstuck
  BY <1>8 DEF InnerThrows, Fail, InnerHangs, Unstuck, Goto
<1>9. ASSUME NEW m \in Module, Join(m) PROVE NumberIsFresh'
  BY <1>9 DEF Join, Joins, Throws, Goto, Fail
<1>10. CASE Snapshot \/ UpdateLed \/ ReleaseKinect
  <2>1. phase # "down" /\ UNCHANGED <<cfg, detections, dpc, lapsed>>
    BY <1>10 DEF Snapshot, UpdateLed, ReleaseKinect
  <2> QED
    BY <2>1
<1>11. ASSUME NEW s \in Setting, NEW v \in Value, ChangeSetting(s, v)
      PROVE  NumberIsFresh'
  BY <1>11 DEF ChangeSetting, Free, Begin
<1>12. ASSUME NEW id \in detections, DeleteDetection(id) PROVE NumberIsFresh'
  BY <1>12 DEF DeleteDetection, Free
<1>13. CASE ResetDetection
  BY <1>13 DEF ResetDetection, Free
<1>14. CASE Assign
  BY <1>14, AssignedConfig DEF Assign, Goto, Assigned, Copied
<1>15. CASE WriteStatus \/ SetVariable
  BY <1>15 DEF WriteStatus, SetItem, Goto, Return, Following, SetVariable,
     Assigned
<1>16. CASE InnerStarted \/ IntrusionEnds
  BY <1>16 DEF InnerStarted, IntrusionEnds, DetGoto
<1>17. CASE LoopTest \/ PlainCycle \/ IntrusionStarted \/ IntrusionStopped
  BY <1>17 DEF LoopTest, DetGoto, PlainCycle, IntrusionStarted,
     IntrusionStopped, Colour
<1>18. CASE InsertDetection
  BY <1>18 DEF InsertDetection, DetGoto
<1>19. CASE SetNumDetections
  BY <1>19 DEF SetNumDetections, DetGoto
<1>20. CASE Increment
  BY <1>20 DEF Increment, DetGoto
<1>21. CASE DetSnapshot \/ DetWriteStatus
  BY <1>21 DEF DetSnapshot, TakeSnapshot, DetGoto, DetWriteStatus, SetItem
<1>22. CASE UNCHANGED vars
  BY <1>22 DEF vars
<1> QED
  BY <1>1, <1>2, <1>3, <1>4, <1>5, <1>6, <1>7, <1>8, <1>9, <1>10, <1>11,
     <1>12, <1>13, <1>14, <1>15, <1>16, <1>17, <1>18, <1>19, <1>20, <1>21,
     <1>22
     DEF Next, Initialise, Term, Start, Command, Continue, DetStep

\* A row that is not outdated has the number in memory, whoever wrote it.
LEMMA NumbersStep ==
    TypeOK /\ Control /\ Numbers /\ [Next]_vars => Numbers'
<1> SUFFICES ASSUME TypeOK, Control, Numbers, [Next]_vars
             PROVE  Numbers'
  OBVIOUS
<1> USE DEF TypeOK, Object, Midway, Reporting, Control, Numbers, DetDirty,
       Config, Module,
       device, disk, ctrl, mods, dthr, ghost
<1>1. CASE InitState
  BY <1>1 DEF InitState
<1>2. CASE InitRedis \/ InitKinect \/ InitTilt \/ InitSkip \/ Signal
  BY <1>2 DEF InitRedis, InitKinect, Colour, InitTilt, InitSkip, Return,
     Following, Signal
<1>3. CASE Crash \/ TermRest \/ NullHandle
  BY <1>3 DEF Crash, TermRest, NullHandle, Down, DefaultConfig, NoCmd
<1>4. CASE TermDetection \/ StopDetection \/ StopLiveview
  BY <1>4 DEF TermDetection, StopDetection, Free, Begin, StopLiveview
<1>5. CASE StartDetection \/ StartLiveview
  BY <1>5 DEF StartDetection, KinectStart, CanStart, Begin, Fail, StartLiveview
<1>6. ASSUME NEW m \in Module, ModuleStart(m) PROVE Numbers'
  BY <1>6 DEF ModuleStart, Fail, Goto
<1>7. CASE InnerStopped
  BY <1>7 DEF InnerStopped, Goto
<1>8. CASE InnerThrows \/ InnerHangs \/ Unstuck
  BY <1>8 DEF InnerThrows, Fail, InnerHangs, Unstuck, Goto
<1>9. ASSUME NEW m \in Module, Join(m) PROVE Numbers'
  BY <1>9 DEF Join, Joins, Throws, Goto, Fail
<1>10. CASE Snapshot \/ UpdateLed \/ ReleaseKinect
  BY <1>10 DEF Goto, Snapshot, TakeSnapshot, UpdateLed,
     Colour, Return, Following, ReleaseKinect, Unused, Joins, Throws
<1>11. ASSUME NEW s \in Setting, NEW v \in Value, ChangeSetting(s, v)
      PROVE  Numbers'
  BY <1>11 DEF ChangeSetting, Free, Begin
<1>12. ASSUME NEW id \in detections, DeleteDetection(id) PROVE Numbers'
  BY <1>12 DEF DeleteDetection, Free
<1>13. CASE ResetDetection
  BY <1>13 DEF ResetDetection, Free
<1>14. CASE Assign
  BY <1>14, AssignedConfig DEF Assign, Goto, Assigned, Copied
<1>15. CASE WriteStatus
  BY <1>15 DEF WriteStatus, SetItem, Goto, Return, Following
<1>16. CASE SetVariable
  BY <1>16 DEF SetVariable, Goto, Assigned
<1>17. CASE InnerStarted \/ IntrusionEnds
  BY <1>17 DEF InnerStarted, IntrusionEnds, DetGoto
<1>18. CASE LoopTest \/ PlainCycle \/ IntrusionStarted \/ IntrusionStopped
  BY <1>18 DEF LoopTest, DetGoto, PlainCycle, IntrusionStarted,
     IntrusionStopped, Colour
<1>19. CASE InsertDetection \/ SetNumDetections
  BY <1>19 DEF InsertDetection, DetGoto, SetNumDetections
<1>20. CASE Increment
  BY <1>20 DEF Increment, DetGoto
<1>21. CASE DetSnapshot
  BY <1>21 DEF DetSnapshot, TakeSnapshot, DetGoto
<1>22. CASE DetWriteStatus
  BY <1>22 DEF DetWriteStatus, SetItem, DetGoto
<1>23. CASE UNCHANGED vars
  BY <1>23 DEF vars
<1> QED
  BY <1>1, <1>2, <1>3, <1>4, <1>5, <1>6, <1>7, <1>8, <1>9, <1>10, <1>11,
     <1>12, <1>13, <1>14, <1>15, <1>16, <1>17, <1>18, <1>19, <1>20, <1>21,
     <1>22, <1>23
     DEF Next, Initialise, Term, Start, Command, Continue, DetStep

\* A row that is not outdated is the configuration, once both have written.
LEMMA RowsStep ==
    TypeOK /\ Control /\ Rows /\ [Next]_vars => Rows'
<1> SUFFICES ASSUME TypeOK, Control, Rows, [Next]_vars
             PROVE  Rows'
  OBVIOUS
<1> USE DEF TypeOK, Object, Midway, Reporting, Control, Rows, CtrlDirty,
       DetDirty, Module,
       device, disk, ctrl, mods, dthr, ghost
<1>1. CASE InitState
  BY <1>1 DEF InitState
<1>2. CASE InitRedis \/ InitKinect \/ InitTilt \/ InitSkip \/ Signal
  BY <1>2 DEF InitRedis, InitKinect, Colour, InitTilt, InitSkip, Return,
     Following, Signal
<1>3. CASE Crash \/ TermRest \/ NullHandle
  BY <1>3 DEF Crash, TermRest, NullHandle, Down, DefaultConfig, NoCmd
<1>4. CASE TermDetection \/ StopDetection \/ StopLiveview
  BY <1>4 DEF TermDetection, StopDetection, Free, Begin, StopLiveview
<1>5. CASE StartDetection \/ StartLiveview
  BY <1>5 DEF StartDetection, KinectStart, CanStart, Begin, Fail, StartLiveview
<1>6. ASSUME NEW m \in Module, ModuleStart(m) PROVE Rows'
  BY <1>6 DEF ModuleStart, Fail, Goto
<1>7. CASE InnerStopped
  BY <1>7 DEF InnerStopped, Goto
<1>8. CASE InnerThrows \/ InnerHangs \/ Unstuck
  BY <1>8 DEF InnerThrows, Fail, InnerHangs, Unstuck, Goto
<1>9. ASSUME NEW m \in Module, Join(m) PROVE Rows'
  BY <1>9 DEF Join, Joins, Throws, Goto, Fail
<1>10. CASE Snapshot \/ UpdateLed \/ ReleaseKinect
  BY <1>10 DEF Goto, Snapshot, TakeSnapshot, UpdateLed,
     Colour, Return, Following, ReleaseKinect, Unused, Joins, Throws
<1>11. ASSUME NEW s \in Setting, NEW v \in Value, ChangeSetting(s, v)
      PROVE  Rows'
  BY <1>11 DEF ChangeSetting, Free, Begin
<1>12. ASSUME NEW id \in detections, DeleteDetection(id) PROVE Rows'
  BY <1>12 DEF DeleteDetection, Free
<1>13. CASE ResetDetection
  BY <1>13 DEF ResetDetection, Free
<1>14. CASE Assign
  BY <1>14 DEF Assign, Goto, Assigned, Copied
<1>15. CASE WriteStatus
  BY <1>15 DEF WriteStatus, SetItem, Goto, Return, Following
<1>16. CASE SetVariable
  BY <1>16 DEF SetVariable, Goto, Assigned
<1>17. CASE InnerStarted \/ IntrusionEnds
  BY <1>17 DEF InnerStarted, IntrusionEnds, DetGoto
<1>18. CASE LoopTest \/ PlainCycle \/ IntrusionStarted \/ IntrusionStopped
  BY <1>18 DEF LoopTest, DetGoto, PlainCycle, IntrusionStarted,
     IntrusionStopped, Colour
<1>19. CASE InsertDetection \/ SetNumDetections
  BY <1>19 DEF InsertDetection, DetGoto, SetNumDetections
<1>20. CASE Increment
  BY <1>20 DEF Increment, DetGoto
<1>21. CASE DetSnapshot
  BY <1>21 DEF DetSnapshot, TakeSnapshot, DetGoto
<1>22. CASE DetWriteStatus
  BY <1>22 DEF DetWriteStatus, SetItem, DetGoto
<1>23. CASE UNCHANGED vars
  BY <1>23 DEF vars
<1> QED
  BY <1>1, <1>2, <1>3, <1>4, <1>5, <1>6, <1>7, <1>8, <1>9, <1>10, <1>11,
     <1>12, <1>13, <1>14, <1>15, <1>16, <1>17, <1>18, <1>19, <1>20, <1>21,
     <1>22, <1>23
     DEF Next, Initialise, Term, Start, Command, Continue, DetStep

\* The part of Init that deals with a module establishes it for the module.
LEMMA ActiveStep ==
    TypeOK /\ Control /\ Active /\ [Next]_vars => Active'
<1> SUFFICES ASSUME TypeOK, Control, Active, [Next]_vars
             PROVE  Active'
  OBVIOUS
<1> USE DEF TypeOK, Object, Midway, Reporting, Control, Active, Resumed,
       Assigning, Config,
       Module, device, disk, ctrl, mods, dthr, ghost
<1>1. CASE InitState \/ InitRedis \/ InitKinect
  BY <1>1 DEF InitState, InitRedis, InitKinect, Colour
<1>2. CASE InitSkip
  BY <1>2 DEF InitSkip, Return, Following
<1>3. CASE InitTilt \/ Signal
  BY <1>3 DEF InitTilt, Signal
<1>4. CASE Crash \/ TermRest \/ NullHandle
  BY <1>4 DEF Crash, TermRest, NullHandle, Down, DefaultConfig, NoCmd
<1>5. CASE TermDetection
  BY <1>5 DEF TermDetection
<1>6. CASE StartDetection
  BY <1>6 DEF StartDetection, KinectStart, CanStart, Begin, Fail
<1>7. ASSUME NEW m \in Module, ModuleStart(m) PROVE Active'
  BY <1>7 DEF ModuleStart, Fail, Goto
<1>8. CASE StopDetection
  BY <1>8 DEF StopDetection, Free, Begin
<1>9. CASE InnerStopped
  BY <1>9 DEF InnerStopped, Goto
<1>10. CASE InnerThrows \/ InnerHangs \/ Unstuck
  BY <1>10 DEF InnerThrows, Fail, InnerHangs, Unstuck, Goto
<1>11. ASSUME NEW m \in Module, Join(m) PROVE Active'
  BY <1>11 DEF Join, Joins, Throws, Goto, Fail
<1>12. CASE StartLiveview
  BY <1>12 DEF StartLiveview, KinectStart, CanStart, Begin, Fail
<1>13. CASE StopLiveview
  BY <1>13 DEF StopLiveview, Free, Begin
<1>14. ASSUME NEW s \in Setting, NEW v \in Value, ChangeSetting(s, v)
       PROVE  Active'
  BY <1>14 DEF ChangeSetting, Free, Begin
<1>15. ASSUME NEW id \in detections, DeleteDetection(id) PROVE Active'
  BY <1>15 DEF DeleteDetection, Free
<1>16. CASE ResetDetection
  BY <1>16 DEF ResetDetection, Free
<1>17. CASE Assign
  BY <1>17 DEF Assign, Goto, Assigned, Copied
<1>18. CASE Snapshot \/ WriteStatus
  BY <1>18 DEF Snapshot, TakeSnapshot, Goto, WriteStatus, SetItem, Return,
     Following
<1>19. CASE SetVariable \/ UpdateLed
  BY <1>19 DEF SetVariable, Goto, Assigned, UpdateLed, Colour, Return, Following
<1>20. CASE ReleaseKinect
  BY <1>20 DEF ReleaseKinect, Unused, Joins, Throws, Return, Following
<1>21. CASE InnerStarted \/ IntrusionEnds
  BY <1>21 DEF InnerStarted, IntrusionEnds, DetGoto
<1>22. CASE LoopTest \/ PlainCycle \/ IntrusionStarted \/ IntrusionStopped \/
       InsertDetection \/ SetNumDetections
  BY <1>22 DEF LoopTest, DetGoto, PlainCycle, IntrusionStarted,
     IntrusionStopped, Colour, InsertDetection, SetNumDetections
<1>23. CASE Increment \/ DetSnapshot \/ DetWriteStatus
  BY <1>23 DEF Increment, DetGoto, DetSnapshot, TakeSnapshot, DetWriteStatus,
     SetItem
<1>24. CASE UNCHANGED vars
  BY <1>24 DEF vars
<1> QED
  BY <1>1, <1>2, <1>3, <1>4, <1>5, <1>6, <1>7, <1>8, <1>9, <1>10, <1>11,
     <1>12, <1>13, <1>14, <1>15, <1>16, <1>17, <1>18, <1>19, <1>20, <1>21,
     <1>22, <1>23, <1>24
     DEF Next, Initialise, Term, Start, Command, Continue, DetStep

\* InitRedis establishes it; later each change of memory is repeated.
LEMMA CachedStep ==
    TypeOK /\ Control /\ Cached /\ [Next]_vars => Cached'
<1> SUFFICES ASSUME TypeOK, Control, Cached, [Next]_vars
             PROVE  Cached'
  OBVIOUS
<1> USE DEF TypeOK, Object, Midway, Reporting, Control, Cached, Config,
       Module, device, disk,
       ctrl, mods, dthr, ghost
<1>1. CASE InitState
  BY <1>1 DEF InitState
<1>2. CASE InitRedis
  BY <1>2 DEF InitRedis
<1>3. CASE InitKinect \/ InitSkip \/ InitTilt \/ Signal
  BY <1>3 DEF InitKinect, Colour, InitSkip, Return, Following, InitTilt, Signal
<1>4. CASE Crash \/ TermRest \/ NullHandle
  BY <1>4 DEF Crash, TermRest, NullHandle, Down, DefaultConfig, NoCmd
<1>5. CASE InnerStopped
  BY <1>5 DEF InnerStopped, Goto
<1>6. CASE InnerThrows \/ InnerHangs \/ Unstuck
  BY <1>6 DEF InnerThrows, Fail, InnerHangs, Unstuck, Goto
<1>7. ASSUME NEW m \in Module, Join(m) PROVE Cached'
  BY <1>7 DEF Join, Joins, Throws, Goto, Fail
<1>8. CASE TermDetection
  BY <1>8 DEF TermDetection
<1>9. CASE StartDetection
  BY <1>9 DEF StartDetection, KinectStart, CanStart, Begin, Fail
<1>10. CASE StartLiveview \/ StopLiveview
  BY <1>10 DEF StartLiveview, KinectStart, CanStart, Begin, Fail,
       StopLiveview, Free
<1>11. ASSUME NEW m \in Module, ModuleStart(m) PROVE Cached'
  BY <1>11 DEF ModuleStart, Fail, Goto
<1>12. CASE StopDetection
  BY <1>12 DEF StopDetection, Free, Begin
<1>13. ASSUME NEW s \in Setting, NEW v \in Value, ChangeSetting(s, v)
       PROVE  Cached'
  BY <1>13 DEF ChangeSetting, Free, Begin
<1>14. ASSUME NEW id \in detections, DeleteDetection(id) PROVE Cached'
  BY <1>14 DEF DeleteDetection, Free
<1>15. CASE ResetDetection
  BY <1>15 DEF ResetDetection, Free
<1>16. CASE Assign
  BY <1>16 DEF Assign, Goto, Assigned, Copied
<1>17. CASE Snapshot
  BY <1>17 DEF Snapshot, TakeSnapshot, Goto
<1>18. CASE WriteStatus
  <2>1. pc = "write" /\ UNCHANGED <<cfg, cache, dpc>>
    BY <1>18 DEF WriteStatus
  <2>2. CASE cmd.about \in Module
    <3>1. pc' = "cache" /\ UNCHANGED <<phase, cmd>>
      BY <1>18, <2>2 DEF WriteStatus, Goto
    <3> QED
      BY <2>1, <2>2, <3>1
  <2>3. CASE cmd.about \notin Module
    <3>1. pc' = "none" /\ phase # "down" /\ phase # "redis"
      BY <1>18, <2>3 DEF WriteStatus, Return
    <3> QED
      BY <2>1, <2>3, <3>1
  <2> QED
    BY <2>2, <2>3
<1>19. CASE SetVariable
  <2>1. pc = "cache" /\ cache' = Assigned(cache) /\ UNCHANGED <<cfg, dpc,
       phase, cmd>>
    BY <1>19 DEF SetVariable, Goto
  <2>2. CASE cmd.about \in Module
    <3>1. pc' = "led" /\ cache' = [cache EXCEPT !.active[cmd.about] = cmd.to]
      BY <1>19, <2>1, <2>2 DEF SetVariable, Goto, Assigned
    <3> QED
      BY <2>1, <2>2, <3>1
  <2>3. CASE cmd.about \notin Module
    <3>1. pc' = "snapshot" /\ cache' = [cache EXCEPT !.set[cmd.about] = cmd.to]
      BY <1>19, <2>1, <2>3 DEF SetVariable, Goto, Assigned
    <3> QED
      BY <2>1, <2>3, <3>1
  <2> QED
    BY <2>2, <2>3
<1>20. CASE UpdateLed \/ ReleaseKinect
  BY <1>20 DEF UpdateLed, Colour, Return, Following, Goto, ReleaseKinect,
       Unused, Joins, Throws
<1>21. CASE InnerStarted \/ IntrusionEnds
  BY <1>21 DEF InnerStarted, IntrusionEnds, DetGoto
<1>22. CASE LoopTest \/ PlainCycle \/ IntrusionStarted \/ IntrusionStopped \/
       InsertDetection
  BY <1>22 DEF LoopTest, DetGoto, PlainCycle, IntrusionStarted,
     IntrusionStopped, Colour, InsertDetection
<1>23. CASE SetNumDetections
  BY <1>23 DEF SetNumDetections, DetGoto
<1>24. CASE Increment
  BY <1>24 DEF Increment, DetGoto
<1>25. CASE DetSnapshot \/ DetWriteStatus
  BY <1>25 DEF DetSnapshot, TakeSnapshot, DetGoto, DetWriteStatus, SetItem
<1>26. CASE UNCHANGED vars
  BY <1>26 DEF vars
<1> QED
  BY <1>1, <1>2, <1>3, <1>4, <1>5, <1>6, <1>7, <1>8, <1>9, <1>10, <1>11,
     <1>12, <1>13, <1>14, <1>15, <1>16, <1>17, <1>18, <1>19, <1>20, <1>21,
     <1>22, <1>23, <1>24, <1>25, <1>26
     DEF Next, Initialise, Term, Start, Command, Continue, DetStep

\* Both threads set the led from running, which only ctrl changes.
LEMMA LedStep ==
    TypeOK /\ Control /\ Led /\ [Next]_vars => Led'
<1> SUFFICES ASSUME TypeOK, Control, Led, [Next]_vars
             PROVE  Led'
  OBVIOUS
<1> USE DEF TypeOK, Object, Midway, Reporting, Control, Led, Colour, Module,
       device, disk,
       ctrl, mods, dthr, ghost
<1>1. CASE InitState \/ InitRedis \/ Signal
  BY <1>1 DEF InitState, InitRedis, Signal
<1>2. CASE InitKinect
  BY <1>2 DEF InitKinect, Colour
<1>3. CASE InitSkip \/ InitTilt
  BY <1>3 DEF InitSkip, Return, Following, InitTilt
<1>4. CASE Crash \/ TermRest \/ NullHandle
  BY <1>4 DEF Crash, TermRest, NullHandle, Down, DefaultConfig, NoCmd
<1>5. CASE TermDetection
  BY <1>5 DEF TermDetection
<1>6. CASE StartDetection
  BY <1>6 DEF StartDetection, KinectStart, CanStart, Begin, Fail
<1>7. ASSUME NEW m \in Module, ModuleStart(m) PROVE Led'
  BY <1>7 DEF ModuleStart, Fail, Goto
<1>8. CASE StopDetection
  BY <1>8 DEF StopDetection, Free, Begin
<1>9. CASE InnerStopped
  BY <1>9 DEF InnerStopped, Goto
<1>10. CASE InnerThrows \/ InnerHangs \/ Unstuck
  BY <1>10 DEF InnerThrows, Fail, InnerHangs, Unstuck, Goto
<1>11. ASSUME NEW m \in Module, Join(m) PROVE Led'
  BY <1>11 DEF Join, Joins, Throws, Goto, Fail
<1>12. CASE StartLiveview
  BY <1>12 DEF StartLiveview, KinectStart, CanStart, Begin, Fail
<1>13. CASE StopLiveview
  BY <1>13 DEF StopLiveview, Free, Begin
<1>14. ASSUME NEW s \in Setting, NEW v \in Value, ChangeSetting(s, v)
       PROVE  Led'
  BY <1>14 DEF ChangeSetting, Free, Begin
<1>15. ASSUME NEW id \in detections, DeleteDetection(id) PROVE Led'
  BY <1>15 DEF DeleteDetection, Free
<1>16. CASE ResetDetection
  BY <1>16 DEF ResetDetection, Free
<1>17. CASE Assign
  BY <1>17 DEF Assign, Goto, Assigned, Copied
<1>18. CASE Snapshot
  BY <1>18 DEF Snapshot, TakeSnapshot, Goto
<1>19. CASE WriteStatus
  BY <1>19 DEF WriteStatus, SetItem, Goto, Return, Following
<1>20. CASE SetVariable
  BY <1>20 DEF SetVariable, Goto, Assigned
<1>21. CASE UpdateLed
  BY <1>21 DEF UpdateLed, Colour, Return, Following, Goto
<1>22. CASE ReleaseKinect
  BY <1>22 DEF ReleaseKinect, Unused, Joins, Throws, Return, Following
<1>23. CASE LoopTest \/ PlainCycle
  BY <1>23 DEF LoopTest, DetGoto, PlainCycle
<1>24. CASE InnerStarted \/ IntrusionEnds
  BY <1>24 DEF InnerStarted, IntrusionEnds, DetGoto
<1>25. CASE IntrusionStarted
  BY <1>25 DEF IntrusionStarted, DetGoto
<1>26. CASE IntrusionStopped
  BY <1>26 DEF IntrusionStopped, DetGoto, Colour
<1>27. CASE InsertDetection \/ SetNumDetections \/ Increment \/ DetSnapshot \/
       DetWriteStatus
  BY <1>27 DEF InsertDetection, DetGoto, SetNumDetections, Increment,
     DetSnapshot, TakeSnapshot, DetWriteStatus, SetItem
<1>28. CASE UNCHANGED vars
  BY <1>28 DEF vars
<1> QED
  BY <1>1, <1>2, <1>3, <1>4, <1>5, <1>6, <1>7, <1>8, <1>9, <1>10, <1>11,
     <1>12, <1>13, <1>14, <1>15, <1>16, <1>17, <1>18, <1>19, <1>20, <1>21,
     <1>22, <1>23, <1>24, <1>25, <1>26, <1>27, <1>28
     DEF Next, Initialise, Term, Start, Command, Continue, DetStep

\* InitTilt establishes it; ChangeTilt sets the device and memory together.
LEMMA TiltedStep ==
    TypeOK /\ Tilted /\ [Next]_vars => Tilted'
<1> SUFFICES ASSUME TypeOK, Tilted, [Next]_vars
             PROVE  Tilted'
  OBVIOUS
<1> USE DEF TypeOK, Object, Midway, Reporting, Tilted, Config, Module, device,
       disk, ctrl, mods,
       dthr, ghost
<1>1. CASE InitState \/ InitRedis \/ InitKinect
  BY <1>1 DEF InitState, InitRedis, InitKinect, Colour
<1>2. CASE InitSkip
  BY <1>2 DEF InitSkip, Return, Following
<1>3. CASE InitTilt
  BY <1>3 DEF InitTilt
<1>4. CASE Crash \/ TermRest \/ NullHandle
  BY <1>4 DEF Crash, TermRest, NullHandle, Down, DefaultConfig, NoCmd
<1>5. CASE Signal \/ TermDetection
  BY <1>5 DEF Signal, TermDetection
<1>6. CASE StartDetection \/ StartLiveview
  BY <1>6 DEF StartDetection, KinectStart, CanStart, Begin, Fail, StartLiveview
<1>7. ASSUME NEW m \in Module, ModuleStart(m) PROVE Tilted'
  BY <1>7 DEF ModuleStart, Fail, Goto
<1>8. CASE InnerStopped
  BY <1>8 DEF InnerStopped, Goto
<1>9. CASE InnerThrows \/ InnerHangs \/ Unstuck
  BY <1>9 DEF InnerThrows, Fail, InnerHangs, Unstuck, Goto
<1>10. ASSUME NEW m \in Module, Join(m) PROVE Tilted'
  BY <1>10 DEF Join, Joins, Throws, Goto, Fail
<1>11. CASE StopDetection \/ StopLiveview
  BY <1>11 DEF StopDetection, Free, Begin, StopLiveview
<1>12. ASSUME NEW s \in Setting, NEW v \in Value, ChangeSetting(s, v)
      PROVE  Tilted'
  BY <1>12 DEF ChangeSetting, Free, Begin
<1>13. ASSUME NEW id \in detections, DeleteDetection(id) PROVE Tilted'
  BY <1>13 DEF DeleteDetection, Free
<1>14. CASE ResetDetection
  BY <1>14 DEF ResetDetection, Free
<1>15. CASE Assign
  BY <1>15 DEF Assign, Goto, Assigned, Copied
<1>16. CASE Snapshot \/ WriteStatus
  BY <1>16 DEF Snapshot, TakeSnapshot, Goto, WriteStatus, SetItem, Return,
     Following
<1>17. CASE SetVariable \/ UpdateLed \/ ReleaseKinect
  BY <1>17 DEF SetVariable, Goto, Assigned, UpdateLed, Colour, Return,
     Following, ReleaseKinect, Unused, Joins, Throws
<1>18. CASE InnerStarted \/ IntrusionEnds
  BY <1>18 DEF InnerStarted, IntrusionEnds, DetGoto
<1>19. CASE LoopTest \/ PlainCycle \/ IntrusionStarted \/ IntrusionStopped \/
       InsertDetection \/ SetNumDetections
  BY <1>19 DEF LoopTest, DetGoto, PlainCycle, IntrusionStarted,
     IntrusionStopped, Colour, InsertDetection, SetNumDetections
<1>20. CASE Increment
  BY <1>20 DEF Increment, DetGoto
<1>21. CASE DetSnapshot \/ DetWriteStatus
  BY <1>21 DEF DetSnapshot, TakeSnapshot, DetGoto, DetWriteStatus, SetItem
<1>22. CASE UNCHANGED vars
  BY <1>22 DEF vars
<1> QED
  BY <1>1, <1>2, <1>3, <1>4, <1>5, <1>6, <1>7, <1>8, <1>9, <1>10, <1>11,
     <1>12, <1>13, <1>14, <1>15, <1>16, <1>17, <1>18, <1>19, <1>20, <1>21,
     <1>22
     DEF Next, Initialise, Term, Start, Command, Continue, DetStep

\* All parts together.
LEMMA Invariance == Spec => []IInv
<1>1. Init => Control /\ NumberIsFresh /\ Numbers /\ Rows
  BY DEF Init, Control, NumberIsFresh, Numbers, Rows, Module, Object, NoCmd,
         Assigning
<1>2. Init => Active /\ Cached /\ Led /\ Tilted
  BY DEF Init, Active, Resumed, Cached, Led, Tilted, Reporting, Module, NoCmd,
         Assigning
<1>3. Init => IInv
  BY <1>1, <1>2, TypeInit DEF IInv
<1>4. IInv /\ [Next]_vars => IInv'
  <2> SUFFICES ASSUME IInv, [Next]_vars PROVE IInv'
    OBVIOUS
  <2>1. TypeOK' /\ Control'
    BY TypeStep, ControlStep DEF IInv
  <2>2. NumberIsFresh' /\ Numbers' /\ Rows'
    BY NumberStep, NumbersStep, RowsStep DEF IInv
  <2>3. Active' /\ Cached' /\ Led' /\ Tilted'
    BY ActiveStep, CachedStep, LedStep, TiltedStep DEF IInv
  <2> QED
    BY <2>1, <2>2, <2>3 DEF IInv
<1> QED
  BY <1>3, <1>4, PTL DEF Spec
-----------------------------------------------------------------------------
\* alarm.cpp:834-863: while no restart has read an outdated number, the number
\* of the next detection is free, for any number of detections, deletions and
\* restarts.
THEOREM DetectionsHaveTheirNumber == Spec => []NumberIsFresh
<1>1. IInv => NumberIsFresh
  BY DEF IInv
<1> QED
  BY <1>1, Invariance, PTL

\* alarm.cpp:834-863: nor does a restart read such a number, if no write of
\* STATUS was outdated and it does not happen in the end of an intrusion.
THEOREM RestartsKeepNumbers == Spec => []RestartIsSafe
<1>1. IInv => RestartIsSafe
  <2> SUFFICES ASSUME IInv, ~lapsed, ~raced, phase # "down",
                      dpc \notin Reporting, NEW r \in status,
       NEW d \in detections
               PROVE  d < r.num
    BY DEF RestartIsSafe
  <2>1. r.num = cfg.num
    BY DEF IInv, Numbers, DetDirty, Reporting
  <2>2. d < cfg.num
    BY DEF IInv, NumberIsFresh, Reporting
  <2> QED
    BY <2>1, <2>2
<1> QED
  BY <1>1, Invariance, PTL

\* alarm.cpp:182, 729, 862: between two commands the database has the
\* configuration, unless two writes of STATUS overlapped.
THEOREM DatabaseFollows == Spec => []StatusIsCurrent
<1>1. IInv => StatusIsCurrent
  BY DEF IInv, Rows, CtrlDirty, DetDirty, StatusIsCurrent, Idle, Reporting
<1> QED
  BY <1>1, Invariance, PTL

\* alarm.cpp:166, 262-268, 371-377: no detection thread runs on a stopped
\* kinect, whichever threads the system refuses; and where it refuses none the
\* kinect does not run for nobody.
THEOREM KinectIsHeld == Spec => []KinectServes
<1>1. IInv => KinectServes
  BY DEF IInv, TypeOK, Control, KinectServes, Idle
<1> QED
  BY <1>1, Invariance, PTL

\* alarm.cpp:162-382, 478-501, 713-767: between two commands memory and cache
\* agree with the threads that there are, also after a restart, after a Start
\* that got no thread and after a Stop that threw, for any settings and values.
THEOREM CommandsAreComplete == Spec => []CommandsTakeEffect
<1>1. IInv => CommandsTakeEffect
  <2> SUFFICES ASSUME IInv, Idle PROVE CommandsTakeEffect
    BY DEF CommandsTakeEffect
  <2>1. ASSUME NEW m \in Module
        PROVE  cfg.active[m] <=> running[m] /\ handle[m] = "joinable"
    <3>1. (handle[m] = "joinable") = cfg.active[m]
      BY DEF IInv, Idle, Active, Resumed
    <3>2. handle[m] = "joinable" => running[m]
      BY DEF IInv, Idle, Control
    <3>3. cfg.active[m] \in BOOLEAN /\ running[m] \in BOOLEAN
      BY DEF IInv, TypeOK, Config
    <3> QED
      BY <3>1, <3>2, <3>3
  <2>2. cache.active = cfg.active
    <3>1. \A m \in Module : cache.active[m] = cfg.active[m]
      BY DEF IInv, Idle, Cached
    <3> QED
      BY <3>1 DEF IInv, TypeOK, Config
  <2>3. cache.set = cfg.set
    <3>1. \A s \in Setting : cache.set[s] = cfg.set[s]
      BY DEF IInv, Idle, Cached
    <3>2. cache.set \in [Setting -> Value] /\ cfg.set \in [Setting -> Value]
      BY DEF IInv, TypeOK, Config
    <3> HIDE AlarmAssumption
    <3> QED
      BY <3>1, <3>2
  <2>4. dpc \notin Reporting => cache.num = cfg.num - 1
    BY DEF IInv, Idle, Cached, Reporting
  <2>5. cfg.active["det"] <=> dpc # "none"
    <3>1. running["det"] /\ handle["det"] = "joinable" <=> dpc # "none"
      BY DEF IInv, Idle, Control, Module
    <3> QED
      BY <2>1, <3>1 DEF Module
  <2>6. \A s \in Setting \cap {"tilt"} : applied[s] = cfg.set[s]
    BY DEF IInv, Idle, Tilted
  <2> QED
    BY <2>1, <2>2, <2>3, <2>4, <2>5, <2>6 DEF CommandsTakeEffect
<1> QED
  BY <1>1, Invariance, PTL

\* alarm.cpp:384-413, 807-813: between two commands the led shows what runs, in
\* whatever order the two threads set it, where no thread was refused.
THEOREM LedIsRight == Spec => []LedTellsTruth
<1>1. IInv => LedTellsTruth
  BY DEF IInv, Led, LedTellsTruth, Idle
<1> QED
  BY <1>1, Invariance, PTL
=============================================================================
