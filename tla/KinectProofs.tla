----------------------------- MODULE KinectProofs -----------------------------
(***************************************************************************)
(* For any number of consumers and images: types, the streams follow the   *)
(* task, nobody sleeps over an image, and a Get returns a new one.         *)
(***************************************************************************)
EXTENDS Kinect, TLAPS

\* Where the task, its thread and the streams are for each place of pc.
Control ==
    /\ m_running => pc = "none"
    /\ thread /\ ~m_running => pc = "join"
    /\ m_thread = "joinable" => (m_running /\ thread) \/ pc = "join"
    /\ success = "Start" => m_running /\ thread /\ on["video"] /\ on["depth"]
    /\ success = "Stop" /\ pc = "none" => ~on["video"] /\ ~on["depth"]
    /\ success = "Stop" /\ pc = "stop_video" => ~on["depth"]
    /\ pc \in {"start_depth", "start_task"} => on["video"]
    /\ pc = "start_task" => on["depth"]
    /\ pc \in {"start_video", "start_depth", "start_task"} => success = "none"
    /\ success = "Stop" => ~m_running

\* A frame that consumer c has is no newer than the current one, and the
\* time-stamps tell them apart.
Ordered(c) ==
    /\ have[c].img <= Current(c).img
    /\ have[c].ts \in {0, have[c].img}
    /\ have[c].ts = 0 /\ have[c].img = Current(c).img => Current(c).ts = 0
    /\ at[c] = "wait" => Current(c).ts \in {0, have[c].ts}
    /\ at[c] = "woken" => Current(c).ts = 0 \/ have[c].img < Current(c).img

Frames ==
    /\ \A s \in Stream : frame[s].ts \in {0, frame[s].img}
                         /\ frame[s].img <= taken
    /\ \A c \in Consumer : Ordered(c)

IInv == TypeOK /\ Control /\ Frames
-----------------------------------------------------------------------------
LEMMA TypesStep == TypeOK /\ Control /\ [Next]_vars => TypeOK'
<1> SUFFICES ASSUME TypeOK, Control, [Next]_vars PROVE TypeOK'
  OBVIOUS
<1> USE KinectAssumption
    DEF TypeOK, Control, Frame, Empty, Off, Stream, device, task, users
<1>1. CASE InitKinect \/ TermKinect
  <2>1. /\ m_is_kinect_initialized' => dev' = "open"
        /\ m_is_kinect_initialized' \/ (~m_running /\ ~thread /\ pc = "none")
    BY <1>1 DEF InitKinect, TermKinect
  <2>2. m_is_kinect_initialized' \in BOOLEAN
    BY <1>1 DEF InitKinect, TermKinect
  <2>3. dev' \in {"none", "context", "open"} /\ on' \in [Stream -> BOOLEAN]
    BY <1>1 DEF InitKinect, TermKinect
  <2>4. UNCHANGED <<task, pc, frame, taken, users, success>>
    BY <1>1 DEF InitKinect, TermKinect
  <2> QED
    BY <2>1, <2>2, <2>3, <2>4
<1>2. CASE Start \/ StartTask
  <2>1. m_running' \in BOOLEAN /\ thread' \in BOOLEAN
    BY <1>2 DEF Start, StartTask
  <2>4. /\ m_thread' \in {"null", "joinable", "joined"}
        /\ success' \in {"none", "Start", "Stop"}
        /\ pc' \in {"none", "start_video"}
        /\ thread' => m_thread' = "joinable"
    BY <1>2 DEF Start, StartTask
  <2>2. frame' \in [Stream -> Frame]
    BY <1>2 DEF Start, StartTask
  <2>3. m_is_kinect_initialized /\ UNCHANGED <<device, on, taken, users>>
    BY <1>2 DEF Start, StartTask
  <2> QED
    BY <2>1, <2>2, <2>3, <2>4
<1>3. CASE StartVideo \/ StartDepth
  <2>1. on' \in [Stream -> BOOLEAN]
    BY <1>3 DEF StartVideo, StartDepth, StartStream
  <2>2. pc' \in {"none", "start_depth", "start_task"} /\ m_is_kinect_initialized
    BY <1>3 DEF StartVideo, StartDepth, StartStream
  <2>3. UNCHANGED <<device, task, frame, taken, users, success>>
    BY <1>3 DEF StartVideo, StartDepth, StartStream
  <2> QED
    BY <2>1, <2>2, <2>3
<1>4. CASE Stop \/ Join \/ JoinThrows \/ ThreadEnds
  <2>1. /\ m_is_kinect_initialized /\ UNCHANGED <<device, on, frame, taken, users>>
        /\ m_running' \in BOOLEAN /\ thread' \in BOOLEAN
    BY <1>4 DEF Stop, Join, JoinThrows, ThreadEnds
  <2>2. /\ m_thread' \in {"null", "joinable", "joined"}
        /\ success' \in {"none", "Start", "Stop"}
        /\ pc' \in {"none", "join", "stop_depth"}
    BY <1>4 DEF Stop, Join, JoinThrows, ThreadEnds
  <2>3. thread' => m_thread' = "joinable"
    BY <1>4 DEF Stop, Join, JoinThrows, ThreadEnds
  <2> QED
    BY <2>1, <2>2, <2>3
<1>5. CASE StopDepth \/ StopVideo
  <2>1. m_is_kinect_initialized /\ UNCHANGED <<device, task, frame, taken, users>>
    BY <1>5 DEF StopDepth, StopVideo, StopStream
  <2>3. on' \in [Stream -> BOOLEAN]
    BY <1>5 DEF StopDepth, StopVideo, StopStream
  <2>2. success' \in {"none", "Start", "Stop"} /\ pc' \in {"none", "stop_video"}
    BY <1>5 DEF StopDepth, StopVideo, StopStream
  <2> QED
    BY <2>1, <2>2, <2>3
<1>6. ASSUME NEW s \in Stream, Callback(s) PROVE TypeOK'
  BY <1>6 DEF Callback
<1>7. ASSUME NEW c \in Consumer, Get(c) PROVE TypeOK'
  BY <1>7 DEF Get, Wait, Take, GiveUp, Copy, Current
<1>8. CASE JoinNull
  <2>1. /\ 0 \in 0 .. MaxImage
        /\ frame' \in [Stream -> Frame] /\ have' \in [Consumer -> Frame]
    BY <1>8 DEF JoinNull
  <2> QED
    BY <1>8, <2>1 DEF JoinNull
<1>9. CASE UNCHANGED vars
  BY <1>9 DEF vars
<1> QED
  BY <1>1, <1>2, <1>3, <1>4, <1>5, <1>6, <1>7, <1>8, <1>9 DEF Next

LEMMA ControlStep == TypeOK /\ Control /\ [Next]_vars => Control'
<1> SUFFICES ASSUME TypeOK, Control, [Next]_vars PROVE Control'
  OBVIOUS
<1> USE DEF TypeOK, Control, Off, Stream, device, task, users
<1>1. CASE InitKinect \/ TermKinect
  BY <1>1 DEF InitKinect, TermKinect
<1>2. CASE Start
  BY <1>2 DEF Start
<1>9. CASE StartTask
  <2>1. /\ pc = "start_task" /\ pc' = "none" /\ m_running' /\ on["video"] /\ on["depth"]
        /\ success = "none" /\ UNCHANGED on
    BY <1>9 DEF StartTask
  <2>2. CASE m_thread' = "joinable" /\ thread' = TRUE /\ success' = "Start"
    BY <2>1, <2>2
  <2>3. CASE UNCHANGED <<m_thread, thread, success>>
    <3>1. ~thread /\ m_thread # "joinable"
      BY <2>1
    <3> QED
      BY <2>1, <2>3, <3>1
  <2> QED
    BY <1>9, <2>2, <2>3 DEF StartTask
<1>3. CASE StartVideo \/ StartDepth
  BY <1>3 DEF StartVideo, StartDepth, StartStream
<1>4. CASE Stop \/ Join \/ JoinThrows \/ JoinNull \/ ThreadEnds
  BY <1>4 DEF Stop, Join, JoinThrows, JoinNull, ThreadEnds
<1>5. CASE StopDepth \/ StopVideo
  BY <1>5 DEF StopDepth, StopVideo, StopStream
<1>6. ASSUME NEW s \in Stream, Callback(s) PROVE Control'
  BY <1>6 DEF Callback
<1>7. ASSUME NEW c \in Consumer, Get(c) PROVE Control'
  BY <1>7 DEF Get, Wait, Take, GiveUp, Copy
<1>8. CASE UNCHANGED vars
  BY <1>8 DEF vars
<1> QED
  BY <1>1, <1>2, <1>3, <1>4, <1>5, <1>6, <1>7, <1>8, <1>9 DEF Next

\* Only Start, the callbacks and the consumers touch a frame.
LEMMA FramesStep == TypeOK /\ Frames /\ [Next]_vars => Frames'
<1> SUFFICES ASSUME TypeOK, Frames, [Next]_vars PROVE Frames'
  OBVIOUS
<1> USE KinectAssumption DEF TypeOK, Frames, Ordered, Current, Frame
<1>1. ASSUME UNCHANGED <<frame, taken, users>> PROVE Frames'
  BY <1>1 DEF users
<1>2. CASE Start
  BY <1>2 DEF Start, users
<1>3. ASSUME NEW s \in Stream, Callback(s) PROVE Frames'
  <2>1. frame' = [frame EXCEPT ![s] = [ts |-> taken + 1, img |-> taken + 1]]
        /\ taken' = taken + 1 /\ have' = have
    BY <1>3 DEF Callback
  <2>2. \A r \in Stream : frame'[r].ts \in {0, frame'[r].img}
                          /\ frame'[r].img <= taken'
    BY <2>1
  <2>3. ASSUME NEW c \in Consumer PROVE Ordered(c)'
    <3>1. CASE Source[c] = s
      <4>1. Current(c)' = [ts |-> taken + 1, img |-> taken + 1]
        BY <2>1, <3>1
      <4>2. have[c].img <= taken
        BY <3>1
      <4>3. at'[c] # "wait"
        BY <1>3, <3>1 DEF Callback
      <4> QED
        BY <2>1, <4>1, <4>2, <4>3
    <3>2. CASE Source[c] # s
      <4>1. Current(c)' = Current(c) /\ at'[c] = at[c]
        BY <1>3, <2>1, <3>2 DEF Callback
      <4> QED
        BY <2>1, <4>1
    <3> QED
      BY <3>1, <3>2
  <2> QED
    BY <2>2, <2>3
<1>4. ASSUME NEW c \in Consumer, Get(c) PROVE Frames'
  <2>1. UNCHANGED <<frame, taken>>
    BY <1>4 DEF Get, Wait, Take, GiveUp, Copy
  <2>2. ASSUME NEW d \in Consumer, d # c PROVE Ordered(d)'
    BY <1>4, <2>1, <2>2 DEF Get, Wait, Take, GiveUp, Copy
  <2>3. Ordered(c)'
    <3>1. CASE Wait(c)
      BY <2>1, <3>1 DEF Wait
    <3>2. CASE Take(c)
      BY <2>1, <3>2 DEF Take
    <3>3. CASE GiveUp(c)
      BY <2>1, <3>3 DEF GiveUp
    <3>4. CASE Copy(c)
      BY <2>1, <3>4 DEF Copy
    <3> QED
      BY <1>4, <3>1, <3>2, <3>3, <3>4 DEF Get
  <2> QED
    BY <2>1, <2>2, <2>3
<1>5. CASE InitKinect \/ TermKinect \/ StartTask \/ Stop \/ Join \/ JoinThrows
           \/ ThreadEnds
  BY <1>1, <1>5
     DEF InitKinect, TermKinect, StartTask, Stop, Join, JoinThrows, ThreadEnds
<1>6. CASE StartVideo \/ StartDepth \/ StopDepth \/ StopVideo
  BY <1>1, <1>6
     DEF StartVideo, StartDepth, StartStream, StopDepth, StopVideo, StopStream
<1>7. CASE JoinNull
  BY <1>7 DEF JoinNull, Empty, Stream
<1>8. CASE UNCHANGED vars
  BY <1>1, <1>8 DEF vars
<1> QED
  BY <1>2, <1>3, <1>4, <1>5, <1>6, <1>7, <1>8 DEF Next

LEMMA Invariance == Spec => []IInv
<1>1. Init => IInv
  <2> SUFFICES ASSUME Init PROVE IInv
    OBVIOUS
  <2>1. TypeOK
    <3>1. Empty \in Frame /\ 0 \in 0 .. MaxImage
      BY KinectAssumption DEF Empty, Frame
    <3>2. on \in [Stream -> BOOLEAN]
      BY DEF Init, Off
    <3> QED
      BY <3>1, <3>2 DEF Init, TypeOK
  <2>2. Control
    BY DEF Init, Control, Off, Stream
  <2>3. Frames
    BY KinectAssumption DEF Init, Frames, Ordered, Current, Empty, Stream
  <2> QED
    BY <2>1, <2>2, <2>3 DEF IInv
<1>2. IInv /\ [Next]_vars => IInv'
  BY TypesStep, ControlStep, FramesStep DEF IInv
<1> QED
  BY <1>1, <1>2, PTL DEF Spec
-----------------------------------------------------------------------------
\* kinect.cpp:45-221: types, and the device is open while anything uses it.
THEOREM TypeCorrect == Spec => []TypeOK
<1>1. IInv => TypeOK
  BY DEF IInv
<1> QED
  BY <1>1, Invariance, PTL

\* kinect.cpp:165-221: after a Start that returned 0 both streams and their
\* thread are there, after a Stop that returned 0 neither is, and no thread
\* outlives an operation that cleared m_running.  A thread may be refused, a
\* stream may be refused, and a join may throw.
THEOREM StreamsAreStopped == Spec => []StreamsFollowTask
<1>1. IInv => StreamsFollowTask
  <2> SUFFICES ASSUME IInv, pc = "none" PROVE StreamsFollowTask
    BY DEF StreamsFollowTask
  <2>1. on = Off <=> ~on["video"] /\ ~on["depth"]
    BY DEF IInv, TypeOK, Off, Stream
  <2> QED
    BY <2>1 DEF IInv, TypeOK, Control, StreamsFollowTask, Stream
<1> QED
  BY <1>1, Invariance, PTL

\* kinect.cpp:233-277: no consumer sleeps while there is an image that it
\* does not have.
THEOREM ConsumersAreWoken == Spec => []NoSleepOverImage
<1>1. IInv => NoSleepOverImage
  BY DEF IInv, Frames, Ordered, NoSleepOverImage
<1> QED
  BY <1>1, Invariance, PTL

\* kinect.cpp:233-263: a Get that does not time out returns a newer image,
\* unless a Start came and no image after it.
THEOREM GetsAreFresh == Spec => FreshImage
<1>1. IInv /\ [Next]_vars =>
        [\A c \in Consumer :
           (Take(c) \/ Copy(c)) /\ at[c] # "late" /\ have'[c].ts # 0
             => have'[c].img > have[c].img]_vars
  <2> SUFFICES ASSUME IInv, NEW c \in Consumer, Take(c) \/ Copy(c),
                      at[c] # "late", have'[c].ts # 0
               PROVE  have'[c].img > have[c].img
    OBVIOUS
  <2> USE KinectAssumption DEF IInv, TypeOK, Frame, Frames, Ordered
  <2>1. have'[c] = Current(c) /\ Current(c).ts # 0
    BY DEF Take, Copy
  <2>2. Current(c).ts = Current(c).img
    BY <2>1 DEF Current
  <2>3. Current(c).img \in Nat /\ have[c].img \in Nat
    BY DEF Current
  <2>4. CASE Take(c)
    <3>1. have[c].ts # Current(c).ts
      BY <2>4 DEF Take
    <3>2. have[c].img <= Current(c).img
      OBVIOUS
    <3>3. have[c].img # Current(c).img
      BY <2>1, <2>2, <3>1
    <3> HIDE KinectAssumption DEF IInv, TypeOK, Frames, Ordered
    <3>4. Current(c).img > have[c].img
      BY <2>3, <3>2, <3>3
    <3> QED
      BY <2>1, <3>4
  <2>5. CASE Copy(c)
    <3>1. at[c] = "woken"
      BY <2>5 DEF Copy
    <3> QED
      BY <2>1, <2>3, <3>1
  <2> QED
    BY <2>4, <2>5
<1> QED
  BY <1>1, Invariance, PTL DEF Spec, FreshImage
=============================================================================
