---------------------------- MODULE IntrusionFiles ----------------------------
(***************************************************************************)
(* What is left of an intrusion on disk: its jpeg files, their archive and *)
(* its row in DETECTIONS (src/alarm.cpp).  TakeVideoFrames fills its one   *)
(* frame again and again and hands it to IntrusionFrame, which queues a    *)
(* task that will save it; IntrusionStopped inserts the row and queues the *)
(* task that packs the files.  Meanwhile DeleteDetection and               *)
(* ResetDetection remove files and rows, Stop may end detection in the     *)
(* middle of an intrusion, and the process may end or crash.               *)
(*                                                                         *)
(* The pool is taken as the Executor that ThreadPool implements: tasks are *)
(* taken in the order in which they were queued, each is executed once, a  *)
(* package after the jpeg tasks that it joins.  No wait ends spuriously,   *)
(* and writes of files succeed.  That WriteStatus may write an old number  *)
(* is the subject of Alarm.                                                *)
(***************************************************************************)
EXTENDS Integers, Sequences, DataTable

CONSTANTS
    Workers,    \* the number of pool threads
    MaxRun,     \* no more intrusions begin
    MaxFrame,   \* no more frames are taken in an intrusion
    MaySlow     \* the detections in which GetVideoFrame may time out

ASSUME FilesAssumption ==
    /\ Workers \in Nat \ {0}
    /\ MaxRun \in Nat
    /\ MaxFrame \in Nat
    /\ MaySlow \subseteq Nat

\* The key of the one row of STATUS.
STATUS_ID == 0

VARIABLES
    num,      \* m_alarm_config.current_detection_number
    status,   \* the table STATUS: the number
    rows,     \* the table DETECTIONS: the number of frames of each detection
    place,    \* where the process and its detection thread stand
    cmd,      \* the deletion that is under way, NoCmd, or AllCmd
    run,      \* the number of intrusions that have begun
    count,    \* TakeVideoFrames::m_frame_counter
    image,    \* TakeVideoFrames::m_frame: the frame of which run it shows
    queue,    \* the pool's queue
    busy,     \* the tasks that pool threads have taken
    files,    \* the jpeg files: [num, idx] -> image
    zip,      \* the archives: num -> (idx -> image)
    \* History.
    numOf,    \* numOf[r]: the number of intrusion r
    spoilt,   \* numbers of which files were deleted, or tasks lost
    excused,  \* numbers deleted too early, or by halves
    late,     \* numbers with tasks pending at an image of another number
    slow      \* numbers of which GetVideoFrame returned an old image

memory  == <<num, place, cmd, count, image>>
pool    == <<queue, busy>>
disk    == <<status, rows, files, zip>>
history == <<run, numOf, spoilt, excused, late, slow>>
vars    == <<memory, pool, disk, history>>

NoCmd  == -1
AllCmd == -2
Blank  == [run |-> 0, idx |-> 0]

Jpeg(n, r, i) == [job |-> "jpeg", num |-> n, run |-> r, idx |-> i]
Pack(n, r)    == [job |-> "pack", num |-> n, run |-> r, idx |-> 0]

\* The tasks that are queued or executed, and the jpeg tasks of a run: those
\* that are in m_jpeg_tasks at its end.
Pending    == {queue[i] : i \in DOMAIN queue} \cup busy
PendingNum == {t.num : t \in Pending}
JpegOf(r)  == {t \in Pending : t.job = "jpeg" /\ t.run = r}

FilesOf(n) == {f \in DOMAIN files : f.num = n}
OnDisk     == {f.num : f \in DOMAIN files} \cup DOMAIN zip

Init ==
    /\ num = 0 /\ place = "off" /\ cmd = NoCmd
    /\ count = 0 /\ image = Blank
    /\ queue = <<>> /\ busy = {}
    /\ status = NewTable /\ rows = NewTable
    /\ files = NewTable /\ zip = NewTable
    /\ run = 0 /\ numOf = <<>>
    /\ spoilt = {} /\ excused = {} /\ late = {} /\ slow = {}
-----------------------------------------------------------------------------
(* The life of the process.                                                  *)

\* InitStatePersistenceVars: CreateStatus, or ReadStatus.
Start ==
    /\ place = "off"
    /\ IF NumberItems(status) = 0
       THEN num' = 0 /\ status' = InsertItem(status, STATUS_ID, 0)
       ELSE num' = GetItem(status, STATUS_ID) /\ UNCHANGED status
    /\ place' = "idle"
    /\ UNCHANGED <<cmd, count, image, pool, rows, files, zip, history>>

\* Memory is lost, and with it the tasks in gone.  A row may be there whose
\* package was not queued, a reset may have deleted rows and not the files.
Lose(gone) ==
    /\ num' = 0 /\ cmd' = NoCmd /\ count' = 0
    /\ spoilt' = spoilt \cup {t.num : t \in gone}
                        \cup IF place = "package" THEN {num} ELSE {}
    /\ excused' = excused \cup IF cmd = AllCmd THEN OnDisk \cup PendingNum
                               ELSE {}
    /\ UNCHANGED <<disk, run, numOf, late, slow>>

Crash ==
    /\ place # "off"
    /\ place' = "off"
    /\ queue' = <<>> /\ busy' = {} /\ image' = Blank
    /\ Lose(Pending)

\* Alarm::Term, then the pool's destructor: what is queued is dropped, what
\* the threads have taken is finished.
Terminate ==
    /\ place \in {"idle", "open"} /\ cmd = NoCmd
    /\ place' = "ending"
    /\ queue' = <<>>
    /\ Lose(Pending \ busy)
    /\ UNCHANGED <<busy, image>>

End ==
    /\ place = "ending" /\ busy = {}
    /\ place' = "off"
    /\ UNCHANGED <<num, cmd, count, image, pool, disk, history>>
-----------------------------------------------------------------------------
(* The detection threads and the observer.                                   *)

DetGoto(from, to) == place = from /\ place' = to

IntrusionStarted ==
    /\ run < MaxRun
    /\ DetGoto("idle", "open")
    /\ run' = run + 1
    /\ numOf' = Append(numOf, num)
    /\ count' = 0
    /\ spoilt' = IF num \in DOMAIN rows THEN spoilt ELSE spoilt \ {num}
    /\ UNCHANGED <<num, cmd, image, pool, disk, excused, late, slow>>

\* Mutant: the task is queued before the image is there.
FrameBeforeImage ==
    /\ place = "open" /\ count < MaxFrame
    /\ IF count = 0 THEN UNCHANGED image
       ELSE image' = [run |-> run, idx |-> count - 1]
    /\ queue' = Append(queue, Jpeg(num, run, count))
    /\ count' = count + 1
    /\ late' = late \cup (PendingNum \ {num})
    /\ UNCHANGED <<num, place, cmd, busy, disk, run, numOf, spoilt, excused,
                   slow>>

\* TakeVideoFrames::ExecutionCycle: the frame is filled, or stays as it is when
\* GetVideoFrame has waited in vain; IntrusionFrame queues a task that refers
\* to it.
IntrusionFrame ==
    /\ place = "open" /\ count < MaxFrame
    /\ \/ /\ image' = [run |-> run, idx |-> count]
          /\ late' = late \cup (PendingNum \ {num})
          /\ UNCHANGED slow
       \/ /\ num \in MaySlow
          /\ slow' = slow \cup {num}
          /\ UNCHANGED <<image, late>>
    /\ queue' = Append(queue, Jpeg(num, run, count))
    /\ count' = count + 1
    /\ UNCHANGED <<num, place, cmd, busy, disk, run, numOf, spoilt, excused>>

\* Detection::Stop in the middle of an intrusion: IntrusionStopped is never
\* called, and the number stays.
StopDetection ==
    /\ DetGoto("open", "idle")
    /\ UNCHANGED <<num, cmd, count, image, pool, disk, history>>

\* IntrusionStopped inserts the row, unless the number is in use ...
InsertDetection ==
    /\ DetGoto("open", "package")
    /\ rows' = InsertItem(rows, num, count)
    /\ UNCHANGED <<num, cmd, count, image, pool, status, files, zip, history>>

\* Mutant: no package is queued.
QueuePackageForgotten ==
    /\ DetGoto("package", "increment")
    /\ UNCHANGED <<num, cmd, count, image, pool, disk, history>>

\* ... queues the package ...
QueuePackage ==
    /\ DetGoto("package", "increment")
    /\ queue' = Append(queue, Pack(num, run))
    /\ UNCHANGED <<num, cmd, count, image, busy, disk, history>>

\* Mutant: STATUS is not written.
IncrementInMemory ==
    /\ DetGoto("increment", "idle")
    /\ num' = num + 1
    /\ UNCHANGED <<cmd, count, image, pool, disk, history>>

\* ... and goes on to the next number, in memory and in STATUS.
Increment ==
    /\ DetGoto("increment", "idle")
    /\ num' = num + 1
    /\ status' = SetItem(status, STATUS_ID, num + 1)
    /\ UNCHANGED <<cmd, count, image, pool, rows, files, zip, history>>

Observer == \/ IntrusionStarted \/ IntrusionFrame \/ StopDetection
            \/ InsertDetection \/ QueuePackage \/ Increment
-----------------------------------------------------------------------------
(* The pool.                                                                 *)

Take ==
    /\ queue # <<>> /\ Cardinality(busy) < Workers
    /\ busy' = busy \cup {Head(queue)}
    /\ queue' = Tail(queue)
    /\ UNCHANGED <<memory, disk, history>>

\* What is new replaces what has the same name.
Over(new, old) ==
    [k \in DOMAIN new \cup DOMAIN old |->
        IF k \in DOMAIN new THEN new[k] ELSE old[k]]

\* SaveToJpegTask: the frame is saved as it is now.
SaveToJpeg(t) ==
    /\ t.job = "jpeg"
    /\ files' = Over([f \in {[num |-> t.num, idx |-> t.idx]} |-> image], files)
    /\ busy' = busy \ {t}
    /\ UNCHANGED <<memory, queue, status, rows, zip, history>>

\* Mutant: the jpeg tasks are not joined.
CreateTarbalEarly(t) ==
    /\ t.job = "pack"
    /\ LET old == IF t.num \in DOMAIN zip THEN zip[t.num] ELSE NewTable
           new == [i \in {f.idx : f \in FilesOf(t.num)} |->
                        files[[num |-> t.num, idx |-> i]]]
       IN zip' = IF FilesOf(t.num) = {} THEN zip
                 ELSE Over([n \in {t.num} |-> Over(new, old)], zip)
    /\ busy' = busy \ {t}
    /\ UNCHANGED <<memory, queue, status, rows, files, history>>

\* CreateDetectionTarbalTask: with the jpeg tasks of the intrusion done, the
\* files of its number are packed.  zip adds to an archive that is there, and
\* makes none of nothing.
CreateTarbal(t) ==
    /\ t.job = "pack" /\ JpegOf(t.run) = {}
    /\ LET old == IF t.num \in DOMAIN zip THEN zip[t.num] ELSE NewTable
           new == [i \in {f.idx : f \in FilesOf(t.num)} |->
                        files[[num |-> t.num, idx |-> i]]]
       IN zip' = IF FilesOf(t.num) = {} THEN zip
                 ELSE Over([n \in {t.num} |-> Over(new, old)], zip)
    /\ busy' = busy \ {t}
    /\ UNCHANGED <<memory, queue, status, rows, files, history>>

Execute == \E t \in busy : SaveToJpeg(t) \/ CreateTarbal(t)
-----------------------------------------------------------------------------
(* The commands.                                                             *)

Without(table, keys) == [k \in DOMAIN table \ keys |-> table[k]]

\* Mutant: the archive is forgotten.
DeleteFilesOnly(id) ==
    /\ place \notin {"off", "ending"} /\ cmd = NoCmd
    /\ files' = Without(files, FilesOf(id))
    /\ cmd' = id
    /\ spoilt' = spoilt \cup {id}
    /\ excused' = IF id >= num \/ id \in PendingNum THEN excused \cup {id}
                  ELSE excused
    /\ UNCHANGED <<num, place, count, image, pool, status, rows, zip, run,
                   numOf, late, slow>>

\* DeleteDetection removes the files of any number it is given ...
DeleteFiles(id) ==
    /\ place \notin {"off", "ending"} /\ cmd = NoCmd
    /\ files' = Without(files, FilesOf(id))
    /\ zip' = Without(zip, {id})
    /\ cmd' = id
    /\ spoilt' = spoilt \cup {id}
    /\ excused' = IF id >= num \/ id \in PendingNum THEN excused \cup {id}
                  ELSE excused
    /\ UNCHANGED <<num, place, count, image, pool, status, rows, run, numOf,
                   late, slow>>

\* ... and then the row.
DeleteRow ==
    /\ cmd >= 0
    /\ rows' = DeleteItem(rows, cmd)
    /\ cmd' = NoCmd
    /\ UNCHANGED <<num, place, count, image, pool, status, files, zip, history>>

\* ResetDetection removes all rows ...
ResetRows ==
    /\ place \notin {"off", "ending"} /\ cmd = NoCmd
    /\ rows' = DeleteAllItems(rows)
    /\ cmd' = AllCmd
    /\ UNCHANGED <<num, place, count, image, pool, status, files, zip, history>>

\* ... and then all files.
ResetFiles ==
    /\ cmd = AllCmd
    /\ files' = NewTable /\ zip' = NewTable
    /\ cmd' = NoCmd
    /\ spoilt' = spoilt \cup DOMAIN rows \cup PendingNum \cup {num}
    /\ excused' = excused \cup PendingNum \cup {num}
    /\ UNCHANGED <<num, place, count, image, pool, status, rows, run, numOf,
                   late, slow>>

\* The last number is never used.
Used    == 0 .. MaxRun - 1
Command == ResetRows \/ \E id \in Used : DeleteFiles(id)
Finish  == DeleteRow \/ ResetFiles
-----------------------------------------------------------------------------
Next == \/ Start \/ Crash \/ Terminate \/ End
        \/ Observer \/ Take \/ Execute \/ Command \/ Finish

\* The pool's threads run, and IntrusionStopped returns.
Fairness == WF_vars(Take) /\ WF_vars(Execute) /\ WF_vars(QueuePackage)

Spec == Init /\ [][Next]_vars /\ Fairness
-----------------------------------------------------------------------------
Image == [run : 0 .. MaxRun, idx : 0 .. MaxFrame]

TypeOK ==
    /\ num \in 0 .. MaxRun
    /\ place \in {"off", "idle", "open", "package", "increment", "ending"}
    /\ DOMAIN status \subseteq {STATUS_ID}
    /\ \A k \in DOMAIN status : status[k] \in 0 .. MaxRun
    /\ place \in {"idle", "open", "package"} => status[STATUS_ID] = num
    /\ DOMAIN rows \subseteq 0 .. MaxRun
    /\ cmd \in {NoCmd, AllCmd} \cup 0 .. MaxRun
    /\ count \in 0 .. MaxFrame /\ image \in Image
    /\ Cardinality(busy) <= Workers
    /\ \A t \in Pending : t.run \in 1 .. run /\ numOf[t.run] = t.num
    /\ \A f \in DOMAIN files : files[f] \in Image

\* Nothing is left to be done for detection n.
Settled(n) == n \notin PendingNum /\ ~(place = "package" /\ num = n)

\* alarm.cpp:59-67, 823-876: when nothing is left to be done for a detection,
\* its archive has all its frames, unless files of it were deleted or tasks
\* were lost meanwhile.
ArchiveComplete ==
    \A n \in DOMAIN rows \ spoilt :
        Settled(n) /\ rows[n] > 0 =>
            n \in DOMAIN zip /\ 0 .. rows[n] - 1 \subseteq DOMAIN zip[n]

NotBefore(m, r, i) == r < m.run \/ (r = m.run /\ i <= m.idx)

\* Image m may be what is saved as frame i of detection n.
Fits(m, n, i) ==
    n \notin slow =>
        /\ \E r \in 1 .. run : numOf[r] = n /\ NotBefore(m, r, i)
        /\ n \notin late => numOf[m.run] = n

\* alarm.cpp:867-876, detection.cpp:181-187: because the tasks share one
\* frame, a file may hold a later image than its own.  Unless GetVideoFrame
\* timed out in its detection, it never holds an earlier one, and it holds one
\* of its own detection if no image of another came while its tasks were
\* pending.
ImagesFit ==
    /\ \A f \in DOMAIN files : Fits(files[f], f.num, f.idx)
    /\ \A n \in DOMAIN zip : \A i \in DOMAIN zip[n] : Fits(zip[n][i], n, i)

\* alarm.cpp:420-476: files belong to a row or to the detection that is being
\* recorded, or that was broken off, unless their detection was deleted
\* before its tasks were done, or a reset was interrupted by a crash.
NoOrphanFiles ==
    \A n \in OnDisk :
        \/ n \in DOMAIN rows \/ n \in excused
        \/ n = num \/ n = status[STATUS_ID]
        \/ cmd = AllCmd

\* alarm.cpp:839-863: a detection with frames gets its archive, unless it is
\* deleted or its tasks are lost.
RowGetsArchive ==
    \A n \in Used :
        (n \in DOMAIN rows /\ rows[n] > 0)
            ~> (n \in DOMAIN zip \/ n \notin DOMAIN rows \/ n \in spoilt)
=============================================================================
