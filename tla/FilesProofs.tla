----------------------------- MODULE FilesProofs -----------------------------
(***************************************************************************)
(* Theorems about IntrusionFiles, for any number of intrusions, frames and *)
(* pool threads: types and bounds, that files belong to a row but for what *)
(* NoOrphanFiles excepts, what the images in files and archives can show,  *)
(* and that archives are complete.  The invariant has a part for each: who *)
(* may still write files (Orphans), what the shared image can be while     *)
(* tasks wait for it (TasksFit), and which frames are in files or pending  *)
(* until the package is made (Archives).                                   *)
(***************************************************************************)
EXTENDS IntrusionFiles, FiniteSetTheorems, TLAPS

Task == [job : {"jpeg", "pack"}, num : Nat, run : Nat, idx : Nat]
File == [num : Nat, idx : Nat]

On == {"idle", "open", "package", "increment"}

\* The types that the other parts need, without bounds.
Types ==
    /\ num \in Nat /\ count \in Nat
    /\ cmd \in {NoCmd, AllCmd} \cup Nat
    /\ queue \in Seq(Task) /\ busy \subseteq Task
    /\ image \in [run : Nat, idx : Nat]
    /\ run \in Nat
    /\ numOf \in Seq(Nat) /\ Len(numOf) = run
    /\ DOMAIN files \subseteq File
    /\ place \in {"off", "ending"} \cup On
    /\ place = "off" => queue = <<>> /\ busy = {}
    /\ place = "ending" => queue = <<>>

\* STATUS holds the number, whenever the process runs.
StatusRow ==
    /\ DOMAIN status = {} \/ DOMAIN status = {STATUS_ID}
    /\ STATUS_ID \in DOMAIN status => status[STATUS_ID] \in Nat
    /\ place \in On => STATUS_ID \in DOMAIN status /\ status[STATUS_ID] = num

LEMMA TaskTypes ==
    ASSUME Types, NEW j \in {"jpeg", "pack"}, NEW i \in Nat
    PROVE  [job |-> j, num |-> num, run |-> run, idx |-> i] \in Task
  BY DEF Types, Task

\* A task that is queued is pending, one that is taken stays so, and nothing
\* else becomes so.
LEMMA PendingAppend ==
    ASSUME Types, NEW t \in Task, queue' = Append(queue, t), busy' = busy
    PROVE  Pending' = Pending \cup {t}
<1>1. queue \in Seq(Task)
  BY DEF Types
<1>2. /\ DOMAIN queue' = 1 .. Len(queue) + 1 /\ DOMAIN queue = 1 .. Len(queue)
      /\ Len(queue) \in Nat
      /\ \A i \in 1 .. Len(queue) : queue'[i] = queue[i]
      /\ queue'[Len(queue) + 1] = t
  BY <1>1
<1>3. {queue'[i] : i \in DOMAIN queue'} = {queue[i] : i \in DOMAIN queue} \cup {t}
  BY <1>2
<1> QED
  BY <1>3 DEF Pending

LEMMA PendingTake == Types /\ Take => Pending' \subseteq Pending
<1> SUFFICES ASSUME Types, Take PROVE Pending' \subseteq Pending
  OBVIOUS
<1>1. /\ queue \in Seq(Task) /\ queue # <<>>
      /\ busy' = busy \cup {Head(queue)} /\ queue' = Tail(queue)
  BY DEF Types, Take
<1>2. /\ Len(queue) \in Nat \ {0} /\ DOMAIN queue = 1 .. Len(queue)
      /\ Head(queue) = queue[1]
      /\ DOMAIN queue' = 1 .. Len(queue) - 1
      /\ \A i \in 1 .. Len(queue) - 1 : queue'[i] = queue[i + 1]
  BY <1>1
<1>3. Head(queue) \in {queue[i] : i \in DOMAIN queue}
  BY <1>2
<1>4. {queue'[i] : i \in DOMAIN queue'} \subseteq {queue[i] : i \in DOMAIN queue}
  BY <1>2
<1> QED
  BY <1>1, <1>3, <1>4 DEF Pending

LEMMA PendingTypes == Types => Pending \subseteq Task
  BY DEF Types, Pending

LEMMA PendingEmpty ==
    ASSUME queue' = <<>> PROVE Pending' = busy'
<1>1. DOMAIN queue' = {}
  BY DEF Pending
<1> QED
  BY <1>1 DEF Pending
-----------------------------------------------------------------------------
LEMMA TypesStep == Types /\ StatusRow /\ [Next]_vars => Types'
<1> SUFFICES ASSUME Types, StatusRow, [Next]_vars PROVE Types'
  OBVIOUS
<1> USE DEF Types, On, memory, pool, disk, history, NoCmd, AllCmd
<1>1. CASE UNCHANGED vars
  BY <1>1 DEF vars
<1>2. CASE Start
  <2>1. num' \in Nat
    BY <1>2, FS_EmptySet DEF Start, GetItem, NumberItems, StatusRow, STATUS_ID
  <2> QED
    BY <1>2, <2>1 DEF Start
<1>3. CASE Crash
  BY <1>3 DEF Crash, Lose, Blank
<1>4. CASE Terminate
  BY <1>4 DEF Terminate, Lose
<1>5. CASE End
  BY <1>5 DEF End
<1>6. CASE Observer
  <2>1. CASE IntrusionStarted
    <3>1. /\ numOf' \in Seq(Nat) /\ Len(numOf') = run + 1
      BY <2>1 DEF IntrusionStarted
    <3> QED
      BY <2>1, <3>1 DEF IntrusionStarted, DetGoto
  <2>2. CASE IntrusionFrame
    <3>1. queue' \in Seq(Task)
      <4>1. Jpeg(num, run, count) \in Task
        BY TaskTypes DEF Jpeg
      <4> QED
        BY <2>2, <4>1 DEF IntrusionFrame
    <3>2. image' \in [run : Nat, idx : Nat] /\ count' \in Nat
      BY <2>2 DEF IntrusionFrame
    <3> QED
      BY <2>2, <3>1, <3>2 DEF IntrusionFrame
  <2>3. CASE StopDetection \/ InsertDetection \/ Increment
    BY <2>3 DEF StopDetection, InsertDetection, Increment, DetGoto
  <2>4. CASE QueuePackage
    <3>1. queue' \in Seq(Task)
      <4>1. Pack(num, run) \in Task
        BY TaskTypes DEF Pack
      <4> QED
        BY <2>4, <4>1 DEF QueuePackage
    <3> QED
      BY <2>4, <3>1 DEF QueuePackage, DetGoto
  <2> QED
    BY <1>6, <2>1, <2>2, <2>3, <2>4 DEF Observer
<1>7. CASE Take
  <2>1. Head(queue) \in Task /\ Tail(queue) \in Seq(Task)
    BY <1>7 DEF Take
  <2> QED
    BY <1>7, <2>1 DEF Take
<1>8. CASE Execute
  <2> PICK t \in busy : SaveToJpeg(t) \/ CreateTarbal(t)
    BY <1>8 DEF Execute
  <2>1. DOMAIN files' \subseteq File
    <3>1. [num |-> t.num, idx |-> t.idx] \in File
      BY DEF Task, File
    <3> QED
      BY <3>1 DEF SaveToJpeg, CreateTarbal, Over
  <2>2. busy' \subseteq busy
    BY DEF SaveToJpeg, CreateTarbal
  <2> QED
    BY <2>1, <2>2 DEF SaveToJpeg, CreateTarbal
<1>9. CASE Command
  <2>1. CASE ResetRows
    BY <2>1 DEF ResetRows
  <2>2. ASSUME NEW id \in Used, DeleteFiles(id) PROVE Types'
    BY <2>2, FilesAssumption DEF DeleteFiles, Without, Used
  <2> QED
    BY <1>9, <2>1, <2>2 DEF Command
<1>10. CASE Finish
  BY <1>10 DEF Finish, DeleteRow, ResetFiles, NewTable
<1> QED
  BY <1>1, <1>2, <1>3, <1>4, <1>5, <1>6, <1>7, <1>8, <1>9, <1>10 DEF Next

LEMMA StatusStep == Types /\ StatusRow /\ [Next]_vars => StatusRow'
<1> SUFFICES ASSUME Types, StatusRow, [Next]_vars PROVE StatusRow'
  OBVIOUS
<1> USE DEF StatusRow, On, STATUS_ID
<1>1. CASE UNCHANGED <<status, num>> /\ (place' \in On => place \in On)
  BY <1>1
<1>2. CASE Start
  <2>1. CASE NumberItems(status) = 0
    <3>1. status' = InsertItem(status, 0, 0) /\ num' = 0
      BY <1>2, <2>1 DEF Start
    <3>2. DOMAIN status = {}
      <4>1. Cardinality({0}) = 1
        BY FS_Singleton
      <4> QED
        BY <2>1, <4>1 DEF NumberItems
    <3>3. DOMAIN status' = {0} /\ status'[0] = 0
      BY <3>1, <3>2 DEF InsertItem
    <3> QED
      BY <3>1, <3>3
  <2>2. CASE NumberItems(status) # 0
    <3>1. DOMAIN status # {}
      BY <2>2, FS_EmptySet DEF NumberItems
    <3> QED
      BY <1>2, <2>2, <3>1 DEF Start, GetItem
  <2> QED
    BY <2>1, <2>2
<1>3. CASE Crash
  BY <1>3 DEF Crash, Lose, disk
<1>4. CASE Terminate
  BY <1>4 DEF Terminate, Lose, disk
<1>5. CASE Increment
  <2>1. 0 \in DOMAIN status /\ num + 1 \in Nat
    BY <1>5 DEF Increment, DetGoto, Types
  <2> QED
    BY <1>5, <2>1 DEF Increment, DetGoto, SetItem
<1>6. CASE End \/ Take \/ Execute \/ Command \/ Finish \/ UNCHANGED vars
  BY <1>1, <1>6 DEF End, Take, Execute, SaveToJpeg, CreateTarbal, Command,
     ResetRows, DeleteFiles, Finish, DeleteRow, ResetFiles, vars, memory, disk
<1>7. CASE \/ IntrusionStarted \/ IntrusionFrame \/ StopDetection
           \/ InsertDetection \/ QueuePackage
  BY <1>1, <1>7 DEF IntrusionStarted, IntrusionFrame, StopDetection,
     InsertDetection, QueuePackage, DetGoto, disk
<1> QED
  BY <1>2, <1>3, <1>4, <1>5, <1>6, <1>7 DEF Next, Observer
-----------------------------------------------------------------------------
(* Files without a row.                                                      *)

\* The numbers of which there are files, or soon will be.
Left == OnDisk \cup PendingNum

Covered(n) ==
    \/ n \in DOMAIN rows \/ n \in excused
    \/ STATUS_ID \in DOMAIN status /\ n = status[STATUS_ID]

Orphans ==
    /\ cmd # AllCmd => \A n \in Left : Covered(n)
    /\ cmd \in Nat => cmd \in excused \/ (cmd < num /\ cmd \notin Left)
    /\ place \in {"package", "increment"} =>
         num \in DOMAIN rows \/ num \in excused \/ cmd = AllCmd
    /\ place \notin On => cmd = NoCmd

LEMMA QueueLeft ==
    ASSUME Types, NEW t \in Task, t.num = num,
           queue' = Append(queue, t), busy' = busy, UNCHANGED <<files, zip>>
    PROVE  Left' \subseteq Left \cup {num}
<1>1. Pending' = Pending \cup {t}
  BY PendingAppend
<1> QED
  BY <1>1 DEF Left, OnDisk, PendingNum

LEMMA FewerLeft ==
    ASSUME Pending' \subseteq Pending, DOMAIN files' \subseteq DOMAIN files,
           DOMAIN zip' \subseteq DOMAIN zip
    PROVE  Left' \subseteq Left
  BY DEF Left, OnDisk, PendingNum

LEMMA ExecuteLeft == Types /\ Execute => Left' \subseteq Left
<1> SUFFICES ASSUME Types, NEW t \in busy, SaveToJpeg(t) \/ CreateTarbal(t)
             PROVE  Left' \subseteq Left
  BY DEF Execute
<1>1. t \in Pending /\ t.num \in PendingNum
  BY DEF Pending, PendingNum
<1>2. PendingNum' \subseteq PendingNum
  <2>1. queue' = queue /\ busy' \subseteq busy
    BY DEF SaveToJpeg, CreateTarbal, memory
  <2> QED
    BY <2>1 DEF Pending, PendingNum
<1>3. OnDisk' \subseteq OnDisk \cup {t.num}
  <2>1. CASE SaveToJpeg(t)
    <3>1. DOMAIN files' = DOMAIN files \cup {[num |-> t.num, idx |-> t.idx]}
      BY <2>1 DEF SaveToJpeg, Over
    <3> QED
      BY <2>1, <3>1 DEF SaveToJpeg, OnDisk
  <2>2. CASE CreateTarbal(t)
    <3>1. DOMAIN zip' \subseteq DOMAIN zip \cup {t.num}
      BY <2>2 DEF CreateTarbal, Over
    <3> QED
      BY <2>2, <3>1 DEF CreateTarbal, OnDisk
  <2> QED
    BY <2>1, <2>2
<1> QED
  BY <1>1, <1>2, <1>3 DEF Left

LEMMA OrphansStep ==
    Types /\ StatusRow /\ Orphans /\ [Next]_vars => Orphans'
<1> SUFFICES ASSUME Types, StatusRow, Orphans, [Next]_vars PROVE Orphans'
  OBVIOUS
<1> USE DEF Orphans, Covered, On, NoCmd, AllCmd, disk, history, memory, STATUS_ID
<1>1. ASSUME UNCHANGED <<num, cmd, rows, excused>>,
             UNCHANGED status \/ DOMAIN status = {},
             place' \in {"package", "increment"} => place' = place,
             place' \notin On => place \notin On \/ cmd = NoCmd,
             Left' \subseteq Left
      PROVE  Orphans'
  BY <1>1
<1>2. ASSUME UNCHANGED <<num, cmd, rows, excused, status>>, place \in On,
             place' = place \/ (place = "package" /\ place' = "increment"),
             Left' \subseteq Left \cup {num}
      PROVE  Orphans'
  BY <1>2 DEF StatusRow
<1>3. CASE Start
  <2>1. Left' \subseteq Left
    BY <1>3, FewerLeft DEF Start, pool, Pending
  <2>2. status' = status \/ DOMAIN status = {}
    <3>1. Cardinality({0}) = 1
      BY FS_Singleton
    <3> QED
      BY <1>3, <3>1 DEF Start, StatusRow, NumberItems
  <2>3. /\ cmd = NoCmd /\ cmd' = NoCmd /\ place' = "idle"
        /\ UNCHANGED <<rows, excused>>
    BY <1>3 DEF Start
  <2> QED
    BY <2>1, <2>2, <2>3
<1>4. CASE Crash
  <2>1. Left' \subseteq OnDisk
    BY <1>4, PendingEmpty DEF Crash, Lose, Left, OnDisk, PendingNum
  <2>2. cmd = AllCmd => Left \subseteq excused'
    BY <1>4 DEF Crash, Lose, Left
  <2>3. UNCHANGED <<rows, status>> /\ excused \subseteq excused'
    BY <1>4 DEF Crash, Lose
  <2>4. cmd' = NoCmd /\ place' = "off"
    BY <1>4 DEF Crash, Lose
  <2> QED
    BY <2>1, <2>2, <2>3, <2>4 DEF Left
<1>5. CASE Terminate
  <2>1. Left' \subseteq Left
    BY <1>5, PendingEmpty DEF Terminate, Lose, Left, OnDisk, PendingNum, Pending
  <2>2. /\ cmd = NoCmd /\ cmd' = NoCmd /\ place' = "ending"
        /\ UNCHANGED <<rows, status, excused>>
    BY <1>5 DEF Terminate, Lose
  <2> QED
    BY <2>1, <2>2
<1>6. CASE End \/ UNCHANGED vars
  <2>1. Left' \subseteq Left
    BY <1>6, FewerLeft DEF End, vars, pool, Pending
  <2> QED
    BY <1>1, <1>6, <2>1 DEF End, vars
<1>7. CASE IntrusionStarted \/ StopDetection
  <2>1. Left' \subseteq Left
    BY <1>7, FewerLeft DEF IntrusionStarted, StopDetection, pool, Pending
  <2> QED
    BY <1>1, <1>7, <2>1 DEF IntrusionStarted, StopDetection, DetGoto
<1>8. CASE IntrusionFrame
  <2>1. Left' \subseteq Left \cup {num}
    <3>1. Jpeg(num, run, count) \in Task
      BY TaskTypes DEF Jpeg, Types
    <3> QED
      BY <1>8, <3>1, QueueLeft DEF IntrusionFrame, Jpeg
  <2> QED
    BY <1>2, <1>8, <2>1 DEF IntrusionFrame
<1>9. CASE QueuePackage
  <2>1. Left' \subseteq Left \cup {num}
    <3>1. Pack(num, run) \in Task
      BY TaskTypes DEF Pack
    <3> QED
      BY <1>9, <3>1, QueueLeft DEF QueuePackage, Pack
  <2> QED
    BY <1>2, <1>9, <2>1 DEF QueuePackage, DetGoto
<1>10. CASE InsertDetection
  <2>1. Left' \subseteq Left
    BY <1>10, FewerLeft DEF InsertDetection, pool, Pending
  <2>2. DOMAIN rows' = DOMAIN rows \cup {num}
    BY <1>10 DEF InsertDetection, InsertItem
  <2> QED
    BY <1>10, <2>1, <2>2 DEF InsertDetection, DetGoto
<1>11. CASE Increment
  <2>1. Left' \subseteq Left
    BY <1>11, FewerLeft DEF Increment, pool, Pending
  <2>2. num \in DOMAIN rows \/ num \in excused \/ cmd = AllCmd
    BY <1>11 DEF Increment, DetGoto
  <2>3. num' = num + 1 /\ num \in Nat /\ place' = "idle" /\ status[0] = num
    BY <1>11 DEF Increment, DetGoto, Types, StatusRow
  <2>4. UNCHANGED <<cmd, rows, excused>>
    BY <1>11 DEF Increment
  <2>5. cmd \in Nat /\ cmd < num => cmd < num'
    BY <2>3
  <2> QED
    BY <2>1, <2>2, <2>3, <2>4, <2>5
<1>12. CASE Take
  <2>1. Left' \subseteq Left
    BY <1>12, PendingTake, FewerLeft DEF Take
  <2> QED
    BY <1>1, <1>12, <2>1 DEF Take
<1>13. CASE Execute
  <2>1. Left' \subseteq Left
    BY <1>13, ExecuteLeft
  <2> QED
    BY <1>1, <1>13, <2>1 DEF Execute, SaveToJpeg, CreateTarbal
<1>14. ASSUME NEW id \in Used, DeleteFiles(id) PROVE Orphans'
  <2>1. Left' \subseteq Left
    BY <1>14, FewerLeft DEF DeleteFiles, Without, pool, Pending
  <2>2. id \notin OnDisk'
    BY <1>14 DEF DeleteFiles, Without, OnDisk, FilesOf
  <2>3. id \in excused' \/ (id < num /\ id \notin PendingNum)
    BY <1>14, FilesAssumption DEF DeleteFiles, Types, Used
  <2>4. PendingNum' = PendingNum
    BY <1>14 DEF DeleteFiles, PendingNum, Pending, pool
  <2>5. /\ cmd = NoCmd /\ cmd' = id /\ place' = place /\ place \in On
        /\ UNCHANGED <<num, rows, status>> /\ excused \subseteq excused'
    BY <1>14 DEF DeleteFiles, Types
  <2>6. id \in Nat
    BY FilesAssumption DEF Used
  <2> QED
    BY <2>1, <2>2, <2>3, <2>4, <2>5, <2>6 DEF Left
<1>15. CASE ResetRows
  <2>1. cmd' = AllCmd /\ place' = place /\ place \in On
    BY <1>15 DEF ResetRows, Types
  <2> QED
    BY <2>1
<1>16. CASE DeleteRow
  <2>1. Left' \subseteq Left
    BY <1>16, FewerLeft DEF DeleteRow, pool, Pending
  <2>2. cmd \in Nat /\ cmd' = NoCmd /\ DOMAIN rows' = DOMAIN rows \ {cmd}
    BY <1>16 DEF DeleteRow, DeleteItem, Types
  <2>3. UNCHANGED <<num, place, status, excused>>
    BY <1>16 DEF DeleteRow
  <2>4. cmd < num => cmd # num
    BY <2>2 DEF Types
  <2> QED
    BY <2>1, <2>2, <2>3, <2>4
<1>17. CASE ResetFiles
  <2>1. Left' \subseteq PendingNum
    BY <1>17 DEF ResetFiles, Left, OnDisk, NewTable, PendingNum, Pending, pool
  <2>2. /\ cmd' = NoCmd /\ PendingNum \cup {num} \subseteq excused'
        /\ num' = num
    BY <1>17 DEF ResetFiles
  <2> QED
    BY <2>1, <2>2
<1> QED
  BY <1>3, <1>4, <1>5, <1>6, <1>7, <1>8, <1>9, <1>10, <1>11, <1>12, <1>13,
     <1>14, <1>15, <1>16, <1>17 DEF Next, Observer, Command, Finish
-----------------------------------------------------------------------------
(* What the files show.                                                      *)

\* Image m was taken, and may be in a file of detection n at index i.
MayFit(m, n, i) == n \notin slow => m.run \in 1 .. run /\ Fits(m, n, i)

\* The image of now may be saved by each task that waits.
TasksFit ==
    /\ place \in {"open", "package"} => run > 0 /\ numOf[run] = num
    /\ \A t \in Pending :
         /\ t.run \in 1 .. run /\ numOf[t.run] = t.num
         /\ t.job = "jpeg" => MayFit(image, t.num, t.idx)
         /\ t.job = "jpeg" /\ t.run = run /\ place = "open" => t.idx < count

FilesFit == \A f \in DOMAIN files : MayFit(files[f], f.num, f.idx)
ZipFits  == \A n \in DOMAIN zip : \A i \in DOMAIN zip[n] :
                MayFit(zip[n][i], n, i)

\* What fits goes on to fit when other intrusions begin, or images of other
\* detections come.
LEMMA FitStays ==
    Types /\ [Next]_vars =>
        /\ \A r \in 1 .. run : r \in 1 .. run' /\ numOf'[r] = numOf[r]
        /\ \A m, n, i : MayFit(m, n, i) => MayFit(m, n, i)'
<1> SUFFICES ASSUME Types, [Next]_vars
             PROVE  /\ \A r \in 1 .. run : r \in 1 .. run' /\ numOf'[r] = numOf[r]
                    /\ \A m, n, i : MayFit(m, n, i) => MayFit(m, n, i)'
  OBVIOUS
<1>1. late \subseteq late' /\ slow \subseteq slow'
  BY DEF Next, vars, history, Start, Crash, Terminate, Lose, End, Observer,
     IntrusionStarted, IntrusionFrame, StopDetection, InsertDetection,
     QueuePackage, Increment, Take, Execute, SaveToJpeg, CreateTarbal, Command,
     DeleteFiles, ResetRows, Finish, DeleteRow, ResetFiles
<1>2. UNCHANGED <<run, numOf>> \/ IntrusionStarted
  <2>1. CASE Crash \/ Terminate
    BY <2>1 DEF Crash, Terminate, Lose
  <2>2. CASE Start \/ End \/ Take \/ Command \/ Finish \/ UNCHANGED vars
    BY <2>2 DEF Start, End, Take, Command, DeleteFiles, ResetRows, Finish,
       DeleteRow, ResetFiles, vars, history
  <2>3. CASE Execute
    BY <2>3 DEF Execute, SaveToJpeg, CreateTarbal, history
  <2>4. CASE Observer
    BY <2>4 DEF Observer, IntrusionFrame, StopDetection, InsertDetection,
       QueuePackage, Increment, history
  <2> QED
    BY <2>1, <2>2, <2>3, <2>4 DEF Next
<1>3. \A r \in 1 .. run : r \in 1 .. run' /\ numOf'[r] = numOf[r]
  <2>1. CASE IntrusionStarted
    <3>1. run' = run + 1 /\ numOf' = Append(numOf, num)
      BY <2>1 DEF IntrusionStarted
    <3>2. numOf \in Seq(Nat) /\ Len(numOf) = run /\ run \in Nat /\ num \in Nat
      BY DEF Types
    <3>3. \A r \in 1 .. Len(numOf) : Append(numOf, num)[r] = numOf[r]
      BY <3>2
    <3> QED
      BY <3>1, <3>2, <3>3
  <2> QED
    BY <1>2, <2>1
<1>4. ASSUME NEW m, NEW n, NEW i, MayFit(m, n, i), n \notin slow'
      PROVE  MayFit(m, n, i)'
  <2>5. n \notin slow
    BY <1>1, <1>4
  <2>1. m.run \in 1 .. run' /\ numOf'[m.run] = numOf[m.run]
    BY <1>3, <1>4, <2>5 DEF MayFit
  <2>2. PICK r \in 1 .. run : numOf[r] = n /\ NotBefore(m, r, i)
    BY <1>4, <2>5 DEF MayFit, Fits
  <2>3. r \in 1 .. run' /\ numOf'[r] = n
    BY <1>3, <2>2
  <2>4. n \notin late => numOf[m.run] = n
    BY <1>4, <2>5 DEF MayFit, Fits
  <2> QED
    BY <1>1, <2>1, <2>2, <2>3, <2>4 DEF MayFit, Fits, NotBefore
<1>5. \A m, n, i : n \in slow' => MayFit(m, n, i)'
  BY DEF MayFit
<1> QED
  BY <1>3, <1>4, <1>5

LEMMA TasksFitStep == Types /\ TasksFit /\ [Next]_vars => TasksFit'
<1> SUFFICES ASSUME Types, TasksFit, [Next]_vars PROVE TasksFit'
  OBVIOUS
<1>1. /\ \A r \in 1 .. run : r \in 1 .. run' /\ numOf'[r] = numOf[r]
      /\ \A m, n, i : MayFit(m, n, i) => MayFit(m, n, i)'
  BY FitStays
<1>2. ASSUME Pending' \subseteq Pending, UNCHANGED <<run, numOf, image, num, count>>,
             place' = "open" => place = "open",
             place' = "package" => place \in {"open", "package"}
      PROVE  TasksFit'
  BY <1>1, <1>2 DEF TasksFit
<1>3. ASSUME Pending' = {}, place' \notin {"open", "package"} PROVE TasksFit'
  BY <1>3 DEF TasksFit
<1>4. CASE Start
  BY <1>3, <1>4, PendingEmpty DEF Start, Types, pool
<1>5. CASE Crash
  BY <1>3, <1>5, PendingEmpty DEF Crash
<1>6. CASE Terminate
  <2>1. Pending' \subseteq Pending
    BY <1>6, PendingEmpty DEF Terminate, Pending
  <2> QED
    BY <1>1, <1>6, <2>1 DEF Terminate, Lose, TasksFit
<1>7. CASE End \/ StopDetection \/ InsertDetection \/ UNCHANGED vars
  BY <1>2, <1>7 DEF End, StopDetection, InsertDetection, DetGoto, vars, memory,
     pool, history, Pending
<1>8. CASE IntrusionStarted
  <2>1. Pending' = Pending
    BY <1>8 DEF IntrusionStarted, pool, Pending
  <2>2. run' = run + 1 /\ run' > 0 /\ numOf'[run'] = num /\ num' = num
    BY <1>8 DEF IntrusionStarted, Types
  <2>3. image' = image /\ \A t \in Pending : t.run \in 1 .. run
    BY <1>8 DEF IntrusionStarted, TasksFit
  <2>4. \A t \in Pending : t.run # run'
    BY <2>2, <2>3 DEF Types
  <2> QED
    BY <1>1, <2>1, <2>2, <2>3, <2>4 DEF TasksFit
<1>9. CASE IntrusionFrame
  <2> DEFINE new == Jpeg(num, run, count)
  <2>1. Pending' = Pending \cup {new}
    <3>1. new \in Task
      BY TaskTypes DEF Jpeg, Types
    <3> QED
      BY <1>9, <3>1, PendingAppend DEF IntrusionFrame
  <2>2. /\ count' = count + 1
        /\ UNCHANGED <<num, run, numOf, place>> /\ place = "open"
    BY <1>9 DEF IntrusionFrame
  <2>3. run \in 1 .. run /\ numOf[run] = num /\ count \in Nat
    BY <2>2 DEF TasksFit, Types
  <2>4. ASSUME NEW t \in Pending', t.job = "jpeg"
        PROVE  /\ t.run \in 1 .. run /\ numOf[t.run] = t.num
               /\ t.run = run => t.idx <= count
               /\ t.num \in PendingNum \/ t.num = num
    <3>1. CASE t \in Pending
      <4>1. t.idx \in Nat
        BY <3>1, PendingTypes DEF Task
      <4> QED
        BY <2>2, <2>3, <2>4, <3>1, <4>1 DEF TasksFit, PendingNum
    <3>2. CASE t = new
      BY <2>3, <3>2 DEF Jpeg
    <3> QED
      BY <2>1, <3>1, <3>2
  <2>5. ASSUME NEW t \in Pending', t.job = "jpeg"
        PROVE  MayFit(image, t.num, t.idx)'
    <3>1. CASE /\ image' = [run |-> run, idx |-> count]
               /\ late' = late \cup (PendingNum \ {num})
      <4>1. NotBefore(image', t.run, t.idx)
        BY <2>4, <2>5, <3>1 DEF NotBefore, Types
      <4>2. image'.run = run
        BY <3>1
      <4>3. t.num \in late' \/ t.num = num
        BY <2>4, <2>5, <3>1
      <4> QED
        BY <2>2, <2>3, <2>4, <2>5, <4>1, <4>2, <4>3 DEF MayFit, Fits
    <3>2. CASE slow' = slow \cup {num} /\ image' = image
      <4>1. CASE t \in Pending
        BY <1>1, <2>5, <3>2, <4>1 DEF TasksFit
      <4>2. CASE t = new
        BY <3>2, <4>2 DEF MayFit, Jpeg
      <4> QED
        BY <2>1, <4>1, <4>2
    <3> QED
      BY <1>9, <3>1, <3>2 DEF IntrusionFrame
  <2>6. ASSUME NEW t \in Pending'
        PROVE  /\ t.run \in 1 .. run /\ numOf[t.run] = t.num
               /\ t.job = "jpeg" /\ t.run = run => t.idx < count + 1
    <3>1. CASE t \in Pending
      <4>1. t.idx \in Nat
        BY <3>1, PendingTypes DEF Task
      <4> QED
        BY <2>2, <2>3, <3>1, <4>1 DEF TasksFit
    <3>2. CASE t = new
      BY <2>3, <3>2 DEF Jpeg
    <3> QED
      BY <2>1, <3>1, <3>2
  <2> QED
    BY <2>2, <2>3, <2>5, <2>6 DEF TasksFit, Types
<1>10. CASE QueuePackage
  <2> DEFINE new == Pack(num, run)
  <2>1. Pending' = Pending \cup {new}
    <3>1. new \in Task
      BY TaskTypes DEF Pack
    <3> QED
      BY <1>10, <3>1, PendingAppend DEF QueuePackage
  <2>2. UNCHANGED <<image, num, run, numOf, count, late>> /\ place' = "increment"
    BY <1>10 DEF QueuePackage, DetGoto, history
  <2>3. new.run \in 1 .. run /\ numOf[new.run] = new.num /\ new.job # "jpeg"
    BY <1>10 DEF Pack, TasksFit, QueuePackage, DetGoto, Types
  <2> QED
    BY <1>1, <2>1, <2>2, <2>3 DEF TasksFit
<1>11. CASE Increment
  <2>1. Pending' = Pending /\ UNCHANGED <<image, run, numOf>> /\ place' = "idle"
    BY <1>11 DEF Increment, DetGoto, pool, history, Pending
  <2> QED
    BY <1>1, <2>1 DEF TasksFit
<1>12. CASE Take
  BY <1>2, <1>12, PendingTake DEF Take, memory, history
<1>13. CASE Execute
  <2>1. Pending' \subseteq Pending
    BY <1>13 DEF Execute, SaveToJpeg, CreateTarbal, Pending
  <2> QED
    BY <1>2, <1>13, <2>1 DEF Execute, SaveToJpeg, CreateTarbal, memory, history
<1>14. CASE Command \/ Finish
  BY <1>2, <1>14 DEF Command, DeleteFiles, ResetRows, Finish, DeleteRow,
     ResetFiles, pool, history, Pending
<1> QED
  BY <1>4, <1>5, <1>6, <1>7, <1>8, <1>9, <1>10, <1>11, <1>12, <1>13, <1>14
     DEF Next, Observer

LEMMA FilesFitStep ==
    Types /\ TasksFit /\ FilesFit /\ [Next]_vars => FilesFit'
<1> SUFFICES ASSUME Types, TasksFit, FilesFit, [Next]_vars PROVE FilesFit'
  OBVIOUS
<1>1. \A m, n, i : MayFit(m, n, i) => MayFit(m, n, i)'
  BY FitStays
<1>2. ASSUME DOMAIN files' \subseteq DOMAIN files,
             \A f \in DOMAIN files' : files'[f] = files[f]
      PROVE  FilesFit'
  BY <1>1, <1>2 DEF FilesFit
<1>3. CASE UNCHANGED files
  BY <1>2, <1>3
<1>4. CASE Execute
  <2> PICK t \in busy : SaveToJpeg(t) \/ CreateTarbal(t)
    BY <1>4 DEF Execute
  <2>1. CASE SaveToJpeg(t)
    <3> DEFINE key == [num |-> t.num, idx |-> t.idx]
    <3>1. /\ DOMAIN files' = DOMAIN files \cup {key}
          /\ \A f \in DOMAIN files' :
                files'[f] = IF f = key THEN image ELSE files[f]
      BY <2>1 DEF SaveToJpeg, Over
    <3>2. MayFit(image, t.num, t.idx)
      BY <2>1 DEF SaveToJpeg, TasksFit, Pending
    <3>3. image' = image
      BY <2>1 DEF SaveToJpeg, memory
    <3> HIDE DEF key
    <3>4. key.num = t.num /\ key.idx = t.idx
      BY DEF key
    <3> QED
      BY <1>1, <3>1, <3>2, <3>3, <3>4 DEF FilesFit
  <2>2. CASE CreateTarbal(t)
    BY <1>3, <2>2 DEF CreateTarbal
  <2> QED
    BY <2>1, <2>2
<1>5. ASSUME NEW id \in Used, DeleteFiles(id) PROVE FilesFit'
  BY <1>2, <1>5 DEF DeleteFiles, Without
<1>6. CASE ResetFiles
  BY <1>6 DEF ResetFiles, FilesFit, NewTable
<1> QED
  BY <1>3, <1>4, <1>5, <1>6 DEF Next, Start, Crash, Terminate, Lose, End,
     Observer, IntrusionStarted, IntrusionFrame, StopDetection,
     InsertDetection, QueuePackage, Increment, Take, Command, ResetRows,
     Finish, DeleteRow, vars, disk

LEMMA ZipFitsStep ==
    Types /\ FilesFit /\ ZipFits /\ [Next]_vars => ZipFits'
<1> SUFFICES ASSUME Types, FilesFit, ZipFits, [Next]_vars PROVE ZipFits'
  OBVIOUS
<1>1. \A m, n, i : MayFit(m, n, i) => MayFit(m, n, i)'
  BY FitStays
<1>2. ASSUME DOMAIN zip' \subseteq DOMAIN zip,
             \A n \in DOMAIN zip' : zip'[n] = zip[n]
      PROVE  ZipFits'
  BY <1>1, <1>2 DEF ZipFits
<1>3. CASE UNCHANGED zip
  BY <1>2, <1>3
<1>4. CASE Execute
  <2> PICK t \in busy : SaveToJpeg(t) \/ CreateTarbal(t)
    BY <1>4 DEF Execute
  <2>1. CASE CreateTarbal(t) /\ FilesOf(t.num) # {}
    <3> DEFINE old == IF t.num \in DOMAIN zip THEN zip[t.num] ELSE NewTable
               new == [i \in {f.idx : f \in FilesOf(t.num)} |->
                         files[[num |-> t.num, idx |-> i]]]
    <3>1. zip' = Over([n \in {t.num} |-> Over(new, old)], zip)
      BY <2>1 DEF CreateTarbal
    <3>2. \A i \in DOMAIN old : MayFit(old[i], t.num, i)
      BY DEF ZipFits, NewTable
    <3>3. ASSUME NEW i \in DOMAIN new PROVE MayFit(new[i], t.num, i)
      <4>1. PICK f \in FilesOf(t.num) : f.idx = i
        BY <3>3
      <4>2. f \in DOMAIN files /\ f \in File /\ f.num = t.num
        BY DEF FilesOf, Types
      <4>3. f = [num |-> t.num, idx |-> i]
        BY <4>1, <4>2 DEF File
      <4>4. new[i] = files[f]
        BY <3>3, <4>3
      <4> QED
        BY <4>1, <4>2, <4>4 DEF FilesFit
    <3> HIDE DEF old, new
    <3>4. \A i \in DOMAIN Over(new, old) :
             MayFit(Over(new, old)[i], t.num, i)
      BY <3>2, <3>3 DEF Over
    <3>5. /\ DOMAIN zip' = DOMAIN zip \cup {t.num}
          /\ \A n \in DOMAIN zip' :
                zip'[n] = IF n = t.num THEN Over(new, old) ELSE zip[n]
      BY <3>1 DEF Over
    <3>6. ASSUME NEW n \in DOMAIN zip', NEW i \in DOMAIN zip'[n]
          PROVE  MayFit(zip'[n][i], n, i)
      <4>1. CASE n = t.num
        BY <3>4, <3>5, <3>6, <4>1
      <4>2. CASE n # t.num
        BY <3>5, <3>6, <4>2 DEF ZipFits
      <4> QED
        BY <4>1, <4>2
    <3> QED
      BY <1>1, <3>6 DEF ZipFits
  <2>2. CASE SaveToJpeg(t) \/ (CreateTarbal(t) /\ FilesOf(t.num) = {})
    BY <1>3, <2>2 DEF SaveToJpeg, CreateTarbal
  <2> QED
    BY <2>1, <2>2
<1>5. ASSUME NEW id \in Used, DeleteFiles(id) PROVE ZipFits'
  BY <1>2, <1>5 DEF DeleteFiles, Without
<1>6. CASE ResetFiles
  BY <1>6 DEF ResetFiles, ZipFits, NewTable
<1> QED
  BY <1>3, <1>4, <1>5, <1>6 DEF Next, Start, Crash, Terminate, Lose, End,
     Observer, IntrusionStarted, IntrusionFrame, StopDetection,
     InsertDetection, QueuePackage, Increment, Take, Command, ResetRows,
     Finish, DeleteRow, vars, disk
-----------------------------------------------------------------------------
(* The bounds.  A number is used by at least one intrusion.                  *)

Bounds ==
    /\ run <= MaxRun /\ num <= run /\ count <= MaxFrame
    /\ place \in {"open", "package", "increment"} => num < run
    /\ STATUS_ID \in DOMAIN status => status[STATUS_ID] <= run
    /\ DOMAIN rows \subseteq 0 .. MaxRun
    /\ cmd \in {NoCmd, AllCmd} \cup 0 .. MaxRun
    /\ image \in Image
    /\ \A f \in DOMAIN files : files[f] \in Image

Crowd == IsFiniteSet(busy) /\ Cardinality(busy) <= Workers

LEMMA BoundsStep == Types /\ StatusRow /\ Bounds /\ [Next]_vars => Bounds'
<1> SUFFICES ASSUME Types, StatusRow, Bounds, [Next]_vars PROVE Bounds'
  OBVIOUS
<1> USE FilesAssumption DEF Bounds, Types, StatusRow, On, NoCmd, AllCmd,
    STATUS_ID, memory, disk, history, DetGoto
<1>1. CASE UNCHANGED vars
  BY <1>1 DEF vars
<1>2. CASE Start
  <2>1. CASE NumberItems(status) = 0
    <3>1. DOMAIN status = {}
      <4>1. Cardinality({0}) = 1
        BY FS_Singleton
      <4> QED
        BY <2>1, <4>1 DEF NumberItems
    <3>2. num' = 0 /\ status' = InsertItem(status, 0, 0)
      BY <1>2, <2>1 DEF Start
    <3>3. DOMAIN status' = {0} /\ status'[0] = 0
      BY <3>1, <3>2 DEF InsertItem
    <3> QED
      BY <1>2, <3>2, <3>3 DEF Start
  <2>2. CASE NumberItems(status) # 0
    <3>1. DOMAIN status # {}
      BY <2>2, FS_EmptySet DEF NumberItems
    <3>2. num' = status[0] /\ status' = status
      BY <1>2, <2>2 DEF Start, GetItem
    <3> QED
      BY <1>2, <3>1, <3>2 DEF Start
  <2> QED
    BY <2>1, <2>2
<1>3. CASE Crash
  BY <1>3 DEF Crash, Lose, Blank, Image
<1>4. CASE Terminate
  BY <1>4 DEF Terminate, Lose
<1>5. CASE End \/ Take
  BY <1>5 DEF End, Take
<1>6. CASE IntrusionStarted \/ StopDetection \/ QueuePackage
  BY <1>6 DEF IntrusionStarted, StopDetection, QueuePackage
<1>7. CASE IntrusionFrame
  <2>1. image' \in Image
    BY <1>7 DEF IntrusionFrame, Image
  <2> QED
    BY <1>7, <2>1 DEF IntrusionFrame
<1>8. CASE InsertDetection
  <2>1. DOMAIN rows' = DOMAIN rows \cup {num}
    BY <1>8 DEF InsertDetection, InsertItem
  <2> QED
    BY <1>8, <2>1 DEF InsertDetection
<1>9. CASE Increment
  <2>1. DOMAIN status' = DOMAIN status /\ status'[0] = num + 1
    BY <1>9 DEF Increment, SetItem
  <2> QED
    BY <1>9, <2>1 DEF Increment
<1>10. CASE Execute
  <2> PICK t \in busy : SaveToJpeg(t) \/ CreateTarbal(t)
    BY <1>10 DEF Execute
  <2>1. CASE SaveToJpeg(t)
    <3>1. \A f \in DOMAIN files' :
             files'[f] = image \/ (f \in DOMAIN files /\ files'[f] = files[f])
      BY <2>1 DEF SaveToJpeg, Over
    <3> QED
      BY <2>1, <3>1 DEF SaveToJpeg
  <2>2. CASE CreateTarbal(t)
    BY <2>2 DEF CreateTarbal
  <2> QED
    BY <2>1, <2>2
<1>11. CASE Command
  <2>1. CASE ResetRows
    BY <2>1 DEF ResetRows, DeleteAllItems, NewTable
  <2>2. ASSUME NEW id \in Used, DeleteFiles(id) PROVE Bounds'
    <3>1. /\ DOMAIN files' \subseteq DOMAIN files
          /\ \A f \in DOMAIN files' : files'[f] = files[f]
      BY <2>2 DEF DeleteFiles, Without
    <3> QED
      BY <2>2, <3>1 DEF DeleteFiles, Used
  <2> QED
    BY <1>11, <2>1, <2>2 DEF Command
<1>12. CASE Finish
  BY <1>12 DEF Finish, DeleteRow, ResetFiles, DeleteItem, NewTable
<1> QED
  BY <1>1, <1>2, <1>3, <1>4, <1>5, <1>6, <1>7, <1>8, <1>9, <1>10, <1>11,
     <1>12 DEF Next, Observer

\* No more tasks are taken than there are threads.
LEMMA CrowdStep == Types /\ Crowd /\ [Next]_vars => Crowd'
<1> SUFFICES ASSUME Types, Crowd, [Next]_vars PROVE Crowd'
  OBVIOUS
<1> USE FilesAssumption DEF Crowd
<1>1. CASE busy' = busy
  BY <1>1
<1>2. CASE Crash
  BY <1>2, FS_EmptySet DEF Crash
<1>3. CASE Take
  <2>1. /\ IsFiniteSet(busy \cup {Head(queue)})
        /\ Cardinality(busy \cup {Head(queue)}) \in
              {Cardinality(busy), Cardinality(busy) + 1}
    BY FS_AddElement
  <2>2. Cardinality(busy) \in Nat
    BY FS_CardinalityType
  <2> QED
    BY <1>3, <2>1, <2>2 DEF Take
<1>4. CASE Execute
  <2> PICK t \in busy : SaveToJpeg(t) \/ CreateTarbal(t)
    BY <1>4 DEF Execute
  <2>1. busy' = busy \ {t}
    BY DEF SaveToJpeg, CreateTarbal
  <2>2. IsFiniteSet(busy \ {t}) /\ Cardinality(busy \ {t}) = Cardinality(busy) - 1
    BY FS_RemoveElement
  <2>3. Cardinality(busy) \in Nat
    BY FS_CardinalityType
  <2> QED
    BY <2>1, <2>2, <2>3
<1> QED
  BY <1>1, <1>2, <1>3, <1>4 DEF Next, Start, Terminate, End, Observer,
     IntrusionStarted, IntrusionFrame, StopDetection, InsertDetection,
     QueuePackage, Increment, Command, DeleteFiles, ResetRows, Finish,
     DeleteRow, ResetFiles, pool, vars
-----------------------------------------------------------------------------
(* What an archive will have.                                                *)

\* The first m frames of run r are in files of n, or will be saved.
Kept(n, r, m) ==
    \A i \in 0 .. m - 1 :
        [num |-> n, idx |-> i] \in DOMAIN files \/ Jpeg(n, r, i) \in Pending

\* The archive of n has its frames, or it will when a package that is pending,
\* or about to be queued, is made.
Zipped(n)  == n \in DOMAIN zip /\ 0 .. rows[n] - 1 \subseteq DOMAIN zip[n]
Packing(n) == \E t \in Pending : /\ t.job = "pack" /\ t.num = n
                                 /\ Kept(n, t.run, rows[n])
Coming(n)  == place = "package" /\ num = n /\ Kept(n, run, rows[n])

Archives ==
    /\ \A n \in DOMAIN rows : rows[n] \in Nat
    /\ place = "open" /\ num \notin spoilt => Kept(num, run, count)
    /\ \A n \in DOMAIN rows \ spoilt :
         rows[n] > 0 => Zipped(n) \/ Packing(n) \/ Coming(n)

\* What a step must leave of n: a jpeg task is pending until its file is
\* there, and files, archives and packages stay.
KeepsFrames(n) ==
    /\ \A t \in Pending : t.job = "jpeg" /\ t.num = n =>
         t \in Pending' \/ [num |-> n, idx |-> t.idx] \in DOMAIN files'
    /\ \A f \in DOMAIN files : f.num = n => f \in DOMAIN files'
KeepsArchive(n) ==
    /\ n \in DOMAIN zip =>
         n \in DOMAIN zip' /\ DOMAIN zip[n] \subseteq DOMAIN zip'[n]
    /\ \A t \in Pending : t.job = "pack" /\ t.num = n => t \in Pending'

LEMMA KeptStays ==
    ASSUME NEW n, NEW r, NEW m, KeepsFrames(n), Kept(n, r, m)
    PROVE  \A i \in 0 .. m - 1 :
             [num |-> n, idx |-> i] \in DOMAIN files' \/ Jpeg(n, r, i) \in Pending'
<1> SUFFICES ASSUME NEW i \in 0 .. m - 1
             PROVE  [num |-> n, idx |-> i] \in DOMAIN files' \/ Jpeg(n, r, i) \in Pending'
  OBVIOUS
<1>1. CASE [num |-> n, idx |-> i] \in DOMAIN files
  BY <1>1 DEF KeepsFrames
<1>2. CASE Jpeg(n, r, i) \in Pending
  BY <1>2 DEF KeepsFrames, Jpeg
<1> QED
  BY <1>1, <1>2 DEF Kept

\* The claim about one number outlives a step that keeps what it is about.
LEMMA NumberKeeps ==
    ASSUME NEW n, KeepsFrames(n), KeepsArchive(n), rows'[n] = rows[n],
           place = "package" /\ num = n =>
             place' = "package" /\ UNCHANGED <<num, run>>,
           Zipped(n) \/ Packing(n) \/ Coming(n)
    PROVE  (Zipped(n) \/ Packing(n) \/ Coming(n))'
<1>1. CASE Zipped(n)
  BY <1>1 DEF Zipped, KeepsArchive
<1>2. CASE Packing(n)
  <2> PICK t \in Pending : t.job = "pack" /\ t.num = n /\ Kept(n, t.run, rows[n])
    BY <1>2 DEF Packing
  <2>1. t \in Pending'
    BY DEF KeepsArchive
  <2>2. \A i \in 0 .. rows'[n] - 1 :
          [num |-> n, idx |-> i] \in DOMAIN files' \/ Jpeg(n, t.run, i) \in Pending'
    BY KeptStays
  <2> QED
    BY <2>1, <2>2 DEF Packing, Kept
<1>3. CASE Coming(n)
  <2>1. \A i \in 0 .. rows'[n] - 1 :
          [num |-> n, idx |-> i] \in DOMAIN files' \/ Jpeg(n, run, i) \in Pending'
    BY <1>3, KeptStays DEF Coming
  <2> QED
    BY <1>3, <2>1 DEF Coming, Kept
<1> QED
  BY <1>1, <1>2, <1>3

LEMMA PendingTakeKeeps == Types /\ Take => Pending \subseteq Pending'
<1> SUFFICES ASSUME Types, Take, NEW t \in Pending PROVE t \in Pending'
  OBVIOUS
<1>1. /\ queue \in Seq(Task) /\ queue # <<>>
      /\ busy' = busy \cup {Head(queue)} /\ queue' = Tail(queue)
  BY DEF Types, Take
<1>2. CASE t \in busy
  BY <1>1, <1>2 DEF Pending
<1>3. ASSUME NEW i \in DOMAIN queue, t = queue[i] PROVE t \in Pending'
  <2>1. CASE i = 1
    BY <1>1, <1>3, <2>1 DEF Pending
  <2>2. CASE i # 1
    <3>1. i - 1 \in DOMAIN queue' /\ queue'[i - 1] = t
      BY <1>1, <1>3, <2>2
    <3> QED
      BY <3>1 DEF Pending
  <2> QED
    BY <2>1, <2>2
<1> QED
  BY <1>2, <1>3 DEF Pending

\* A step that begins nothing, and removes only rows and what is spoilt.
LEMMA QuietKeeps ==
    ASSUME Archives,
           \A n \in DOMAIN rows' : n \in DOMAIN rows /\ rows'[n] = rows[n],
           spoilt \subseteq spoilt',
           \A n \in (DOMAIN rows' \cup {num}) \ spoilt' :
              /\ KeepsFrames(n) /\ KeepsArchive(n)
              /\ place = "package" /\ num = n =>
                   place' = "package" /\ UNCHANGED <<num, run>>,
           place' = "open" => UNCHANGED <<place, num, run, count>>
    PROVE  Archives'
<1>1. \A n \in DOMAIN rows' : rows'[n] \in Nat
  BY DEF Archives
<1>2. ASSUME place' = "open", num' \notin spoilt' PROVE Kept(num, run, count)'
  <2>1. Kept(num, run, count) /\ KeepsFrames(num)
    BY <1>2 DEF Archives
  <2>2. \A i \in 0 .. count - 1 :
          [num |-> num, idx |-> i] \in DOMAIN files' \/ Jpeg(num, run, i) \in Pending'
    BY <2>1, KeptStays
  <2> QED
    BY <1>2, <2>2 DEF Kept
<1>3. ASSUME NEW n \in DOMAIN rows' \ spoilt', rows'[n] > 0
      PROVE  (Zipped(n) \/ Packing(n) \/ Coming(n))'
  <2>1. Zipped(n) \/ Packing(n) \/ Coming(n)
    BY <1>3 DEF Archives
  <2> QED
    BY <1>3, <2>1, NumberKeeps
<1> QED
  BY <1>1, <1>2, <1>3 DEF Archives

LEMMA SamePending == UNCHANGED pool => Pending' = Pending
  BY DEF pool, Pending

\* The row is inserted: what was kept of the run is kept for the row.
LEMMA InsertArchives == Types /\ Archives /\ InsertDetection => Archives'
<1> SUFFICES ASSUME Types, Archives, InsertDetection PROVE Archives'
  OBVIOUS
<1>1. /\ place = "open" /\ place' = "package"
      /\ UNCHANGED <<num, count, run, files, zip, spoilt>>
      /\ Pending' = Pending
  BY SamePending DEF InsertDetection, DetGoto, memory, history
<1>2. /\ DOMAIN rows' = DOMAIN rows \cup {num}
      /\ \A n \in DOMAIN rows : rows'[n] = rows[n]
      /\ num \notin DOMAIN rows => rows'[num] = count
  BY DEF InsertDetection, InsertItem
<1>3. \A n \in DOMAIN rows' : rows'[n] \in Nat
  BY <1>2 DEF Archives, Types
<1>4. ASSUME NEW n \in DOMAIN rows' \ spoilt', rows'[n] > 0
      PROVE  (Zipped(n) \/ Packing(n) \/ Coming(n))'
  <2>1. CASE n \in DOMAIN rows
    <3>1. Zipped(n) \/ Packing(n) \/ Coming(n)
      BY <1>1, <1>2, <1>4, <2>1 DEF Archives
    <3>2. KeepsFrames(n) /\ KeepsArchive(n)
      BY <1>1 DEF KeepsFrames, KeepsArchive
    <3>3. rows'[n] = rows[n] /\ place # "package"
      BY <1>1, <1>2, <2>1
    <3> QED
      BY <3>1, <3>2, <3>3, NumberKeeps
  <2>2. CASE n \notin DOMAIN rows
    <3>1. n = num /\ rows'[n] = count
      BY <1>2, <1>4, <2>2
    <3>2. Kept(num, run, count)
      BY <1>1, <1>4, <3>1 DEF Archives
    <3> QED
      BY <1>1, <3>1, <3>2 DEF Coming, Kept
  <2> QED
    BY <2>1, <2>2
<1> QED
  BY <1>1, <1>3, <1>4 DEF Archives

\* The package is queued: what was about to come is pending.
LEMMA QueueArchives == Types /\ Archives /\ QueuePackage => Archives'
<1> SUFFICES ASSUME Types, Archives, QueuePackage PROVE Archives'
  OBVIOUS
<1>1. Pending' = Pending \cup {Pack(num, run)}
  <2>1. Pack(num, run) \in Task
    BY TaskTypes DEF Pack
  <2> QED
    BY <2>1, PendingAppend DEF QueuePackage
<1>2. /\ place = "package" /\ place' = "increment"
      /\ UNCHANGED <<rows, files, zip, spoilt>>
  BY DEF QueuePackage, DetGoto, disk, history
<1>3. ASSUME NEW n \in DOMAIN rows' \ spoilt', rows'[n] > 0
      PROVE  (Zipped(n) \/ Packing(n) \/ Coming(n))'
  <2>1. Zipped(n) \/ Packing(n) \/ Coming(n)
    BY <1>2, <1>3 DEF Archives
  <2>2. KeepsFrames(n) /\ KeepsArchive(n) /\ rows'[n] = rows[n]
    BY <1>1, <1>2 DEF KeepsFrames, KeepsArchive
  <2>3. CASE Coming(n)
    <3> DEFINE t == Pack(num, run)
    <3>1. t \in Pending' /\ t.job = "pack" /\ t.num = n /\ t.run = run
      BY <1>1, <2>3 DEF Pack, Coming
    <3>2. \A i \in 0 .. rows'[n] - 1 :
            [num |-> n, idx |-> i] \in DOMAIN files' \/ Jpeg(n, run, i) \in Pending'
      BY <2>2, <2>3, KeptStays DEF Coming
    <3>3. \E u \in Pending' : /\ u.job = "pack" /\ u.num = n
                              /\ \A i \in 0 .. rows'[n] - 1 :
                                   \/ [num |-> n, idx |-> i] \in DOMAIN files'
                                   \/ Jpeg(n, u.run, i) \in Pending'
      BY <3>1, <3>2
    <3> QED
      BY <3>3 DEF Packing, Kept
  <2>4. CASE Packing(n)
    <3> PICK t \in Pending : t.job = "pack" /\ t.num = n /\ Kept(n, t.run, rows[n])
      BY <2>4 DEF Packing
    <3>1. \A i \in 0 .. rows'[n] - 1 :
            [num |-> n, idx |-> i] \in DOMAIN files' \/ Jpeg(n, t.run, i) \in Pending'
      BY <2>2, KeptStays
    <3> QED
      BY <1>1, <3>1 DEF Packing, Kept
  <2>5. CASE Zipped(n)
    BY <1>2, <2>5 DEF Zipped
  <2> QED
    BY <2>1, <2>3, <2>4, <2>5
<1> QED
  BY <1>2, <1>3 DEF Archives

\* A frame is taken: its task is one more that will save what is kept.
LEMMA FrameArchives == Types /\ Archives /\ IntrusionFrame => Archives'
<1> SUFFICES ASSUME Types, Archives, IntrusionFrame PROVE Archives'
  OBVIOUS
<1>1. Pending' = Pending \cup {Jpeg(num, run, count)}
  <2>1. Jpeg(num, run, count) \in Task
    BY TaskTypes DEF Jpeg, Types
  <2> QED
    BY <2>1, PendingAppend DEF IntrusionFrame
<1>2. /\ place = "open" /\ place' = "open" /\ count' = count + 1
      /\ UNCHANGED <<num, run, rows, files, zip, spoilt>>
  BY DEF IntrusionFrame, disk
<1>3. \A n : KeepsFrames(n) /\ KeepsArchive(n)
  BY <1>1, <1>2 DEF KeepsFrames, KeepsArchive
<1>4. ASSUME num \notin spoilt PROVE Kept(num, run, count)'
  <2>1. Kept(num, run, count)
    BY <1>2, <1>4 DEF Archives
  <2>2. \A i \in 0 .. count - 1 :
          [num |-> num, idx |-> i] \in DOMAIN files' \/ Jpeg(num, run, i) \in Pending'
    BY <1>3, <2>1, KeptStays
  <2>3. \A i \in 0 .. count' - 1 : i \in 0 .. count - 1 \/ i = count
    BY <1>2 DEF Types
  <2> QED
    BY <1>1, <1>2, <2>2, <2>3 DEF Kept
<1>5. ASSUME NEW n \in DOMAIN rows' \ spoilt', rows'[n] > 0
      PROVE  (Zipped(n) \/ Packing(n) \/ Coming(n))'
  <2>1. Zipped(n) \/ Packing(n) \/ Coming(n)
    BY <1>2, <1>5 DEF Archives
  <2>2. rows'[n] = rows[n] /\ place # "package"
    BY <1>2
  <2> QED
    BY <1>3, <2>1, <2>2, NumberKeeps
<1> QED
  BY <1>2, <1>4, <1>5 DEF Archives

\* A package is made when none of its run's jpeg tasks is pending: the frames
\* that were kept are in files, and all of those go into the archive.
LEMMA TarbalArchives ==
    ASSUME Types, Archives, NEW t \in busy, CreateTarbal(t) PROVE Archives'
<1>1. /\ t.job = "pack" /\ JpegOf(t.run) = {}
      /\ UNCHANGED <<num, place, count, run, rows, files, spoilt>>
      /\ queue' = queue /\ busy' = busy \ {t}
  BY DEF CreateTarbal, memory, history
<1>2. \A u \in Pending : u = t \/ u \in Pending'
  BY <1>1 DEF Pending
<1>3. \A n : KeepsFrames(n)
  BY <1>1, <1>2 DEF KeepsFrames
<1>4. \A n \in DOMAIN zip :
        n \in DOMAIN zip' /\ DOMAIN zip[n] \subseteq DOMAIN zip'[n]
  BY DEF CreateTarbal, Over
<1>5. FilesOf(t.num) # {} =>
        /\ t.num \in DOMAIN zip'
        /\ {f.idx : f \in FilesOf(t.num)} \subseteq DOMAIN zip'[t.num]
  BY DEF CreateTarbal, Over
<1>6. ASSUME place = "open", num \notin spoilt PROVE Kept(num, run, count)'
  <2>1. Kept(num, run, count)
    BY <1>6 DEF Archives
  <2>2. \A i \in 0 .. count - 1 :
          [num |-> num, idx |-> i] \in DOMAIN files' \/ Jpeg(num, run, i) \in Pending'
    BY <1>3, <2>1, KeptStays
  <2> QED
    BY <1>1, <2>2 DEF Kept
<1>7. ASSUME NEW n \in DOMAIN rows' \ spoilt', rows'[n] > 0
      PROVE  (Zipped(n) \/ Packing(n) \/ Coming(n))'
  <2>0. n \in DOMAIN rows \ spoilt /\ rows[n] > 0 /\ rows[n] \in Nat
    BY <1>1, <1>7 DEF Archives
  <2>1. Zipped(n) \/ Packing(n) \/ Coming(n)
    BY <2>0 DEF Archives
  <2>2. CASE Zipped(n)
    BY <1>1, <1>4, <2>2 DEF Zipped
  <2>3. CASE Coming(n)
    <3>1. \A i \in 0 .. rows[n] - 1 :
            [num |-> n, idx |-> i] \in DOMAIN files' \/ Jpeg(n, run, i) \in Pending'
      BY <1>3, <2>3, KeptStays DEF Coming
    <3> QED
      BY <1>1, <2>3, <3>1 DEF Coming, Kept
  <2>4. CASE Packing(n)
    <3> PICK u \in Pending : u.job = "pack" /\ u.num = n /\ Kept(n, u.run, rows[n])
      BY <2>4 DEF Packing
    <3>1. CASE u # t
      <4>1. \A i \in 0 .. rows'[n] - 1 :
              [num |-> n, idx |-> i] \in DOMAIN files' \/ Jpeg(n, u.run, i) \in Pending'
        BY <1>1, <1>3, KeptStays
      <4> QED
        BY <1>2, <3>1, <4>1 DEF Packing, Kept
    <3>2. CASE u = t
      <4>1. \A i \in 0 .. rows[n] - 1 : [num |-> n, idx |-> i] \in DOMAIN files
        <5> SUFFICES ASSUME NEW i \in 0 .. rows[n] - 1,
                            Jpeg(n, t.run, i) \in Pending
                     PROVE  FALSE
          BY <3>2 DEF Kept
        <5>1. Jpeg(n, t.run, i) \in JpegOf(t.run)
          BY DEF JpegOf, Jpeg
        <5> QED
          BY <1>1, <5>1
      <4>2. \A i \in 0 .. rows[n] - 1 : i \in {f.idx : f \in FilesOf(n)}
        <5> SUFFICES ASSUME NEW i \in 0 .. rows[n] - 1
                     PROVE  i \in {f.idx : f \in FilesOf(n)}
          OBVIOUS
        <5>1. [num |-> n, idx |-> i] \in FilesOf(n)
          BY <4>1 DEF FilesOf
        <5> QED
          BY <5>1
      <4>3. 0 \in 0 .. rows[n] - 1
        BY <2>0
      <4>4. FilesOf(n) # {}
        BY <4>2, <4>3
      <4> QED
        BY <1>1, <1>5, <3>2, <4>2, <4>4 DEF Zipped
    <3> QED
      BY <3>1, <3>2
  <2> QED
    BY <2>1, <2>2, <2>3, <2>4
<1> QED
  BY <1>1, <1>6, <1>7 DEF Archives

LEMMA ArchivesStep == Types /\ Archives /\ [Next]_vars => Archives'
<1> SUFFICES ASSUME Types, Archives, [Next]_vars PROVE Archives'
  OBVIOUS
<1>1. CASE \/ Start \/ End \/ StopDetection \/ Increment
           \/ DeleteRow \/ ResetRows \/ UNCHANGED vars
  <2>1. Pending' = Pending
    BY <1>1, SamePending DEF Start, End, StopDetection, Increment, DeleteRow,
       ResetRows, vars
  <2>2. UNCHANGED <<files, zip, spoilt>>
    BY <1>1 DEF Start, End, StopDetection, Increment, DeleteRow, ResetRows,
       vars, disk, history
  <2>3. \A n \in DOMAIN rows' : n \in DOMAIN rows /\ rows'[n] = rows[n]
    BY <1>1 DEF Start, End, StopDetection, Increment, DeleteRow, ResetRows,
       vars, disk, DeleteItem, DeleteAllItems, NewTable
  <2>4. /\ place = "package" => place' = "package" /\ UNCHANGED <<num, run>>
        /\ place' = "open" => UNCHANGED <<place, num, run, count>>
    BY <1>1 DEF Start, End, StopDetection, Increment, DeleteRow, ResetRows,
       vars, memory, history, DetGoto
  <2>5. \A n : KeepsFrames(n) /\ KeepsArchive(n)
    BY <2>1, <2>2 DEF KeepsFrames, KeepsArchive
  <2> QED
    BY <2>2, <2>3, <2>4, <2>5, QuietKeeps
<1>2. CASE Crash \/ Terminate
  <2>1. /\ UNCHANGED <<files, zip, rows>>
        /\ place' # "open" /\ spoilt \subseteq spoilt'
        /\ place = "package" => num \in spoilt'
    BY <1>2 DEF Crash, Terminate, Lose, disk
  <2>2. \A t \in Pending : t.num \in spoilt' \/ t \in Pending'
    <3>1. CASE Crash
      BY <3>1 DEF Crash, Lose
    <3>2. CASE Terminate
      <4>1. busy' = busy /\ \A t \in Pending \ busy : t.num \in spoilt'
        BY <3>2 DEF Terminate, Lose
      <4> QED
        BY <4>1 DEF Pending
    <3> QED
      BY <1>2, <3>1, <3>2
  <2>3. \A n : n \notin spoilt' => KeepsFrames(n) /\ KeepsArchive(n)
    BY <2>1, <2>2 DEF KeepsFrames, KeepsArchive
  <2> QED
    BY <2>1, <2>3, QuietKeeps
<1>3. CASE IntrusionStarted
  <2>1. Pending' = Pending
    BY <1>3, SamePending DEF IntrusionStarted
  <2>2. /\ place = "idle" /\ place' = "open" /\ count' = 0
        /\ UNCHANGED <<rows, files, zip>>
        /\ DOMAIN rows \ spoilt' \subseteq DOMAIN rows \ spoilt
    BY <1>3 DEF IntrusionStarted, DetGoto, disk
  <2>3. \A n : KeepsFrames(n) /\ KeepsArchive(n)
    BY <2>1, <2>2 DEF KeepsFrames, KeepsArchive
  <2>4. Kept(num, run, count)'
    BY <2>2 DEF Kept
  <2>5. ASSUME NEW n \in DOMAIN rows' \ spoilt', rows'[n] > 0
        PROVE  (Zipped(n) \/ Packing(n) \/ Coming(n))'
    <3>1. Zipped(n) \/ Packing(n) \/ Coming(n)
      BY <2>2, <2>5 DEF Archives
    <3>2. rows'[n] = rows[n] /\ place # "package"
      BY <2>2
    <3> QED
      BY <2>3, <3>1, <3>2, NumberKeeps
  <2> QED
    BY <2>2, <2>4, <2>5 DEF Archives
<1>4. CASE IntrusionFrame \/ InsertDetection \/ QueuePackage
  BY <1>4, FrameArchives, InsertArchives, QueueArchives
<1>5. CASE Take
  <2>1. Pending \subseteq Pending' /\ UNCHANGED <<memory, disk, history>>
    BY <1>5, PendingTakeKeeps DEF Take
  <2>2. \A n : KeepsFrames(n) /\ KeepsArchive(n)
    BY <2>1 DEF KeepsFrames, KeepsArchive, disk
  <2>3. UNCHANGED <<num, place, run, count, rows, spoilt>>
    BY <2>1 DEF memory, disk, history
  <2> QED
    BY <2>2, <2>3, QuietKeeps
<1>6. CASE Execute
  <2> PICK t \in busy : SaveToJpeg(t) \/ CreateTarbal(t)
    BY <1>6 DEF Execute
  <2>1. CASE SaveToJpeg(t)
    <3>1. /\ t.job = "jpeg" /\ queue' = queue /\ busy' = busy \ {t}
          /\ UNCHANGED <<num, place, run, count, rows, zip, spoilt>>
      BY <2>1 DEF SaveToJpeg, memory, history
    <3>2. DOMAIN files' = DOMAIN files \cup {[num |-> t.num, idx |-> t.idx]}
      BY <2>1 DEF SaveToJpeg, Over
    <3>3. \A u \in Pending : u = t \/ u \in Pending'
      BY <3>1 DEF Pending
    <3>4. \A n : KeepsFrames(n) /\ KeepsArchive(n)
      BY <3>1, <3>2, <3>3 DEF KeepsFrames, KeepsArchive
    <3> QED
      BY <3>1, <3>4, QuietKeeps
  <2>2. CASE CreateTarbal(t)
    BY <2>2, TarbalArchives
  <2> QED
    BY <2>1, <2>2
<1>7. ASSUME NEW id \in Used, DeleteFiles(id) PROVE Archives'
  <2>1. /\ UNCHANGED <<num, place, run, count, rows>>
        /\ spoilt' = spoilt \cup {id} /\ Pending' = Pending
    BY <1>7, SamePending DEF DeleteFiles
  <2>2. \A n : n # id => KeepsFrames(n) /\ KeepsArchive(n)
    BY <1>7, <2>1 DEF KeepsFrames, KeepsArchive, DeleteFiles, Without, FilesOf
  <2> QED
    BY <2>1, <2>2, QuietKeeps
<1>8. CASE ResetFiles
  <2>1. /\ UNCHANGED <<num, place, run, count, rows>>
        /\ spoilt \subseteq spoilt' /\ DOMAIN rows \cup {num} \subseteq spoilt'
    BY <1>8 DEF ResetFiles
  <2> QED
    BY <2>1, QuietKeeps
<1> QED
  BY <1>1, <1>2, <1>3, <1>4, <1>5, <1>6, <1>7, <1>8
     DEF Next, Observer, Command, Finish
-----------------------------------------------------------------------------
IInv ==
    /\ Types /\ StatusRow /\ Bounds /\ Crowd
    /\ Orphans /\ TasksFit /\ FilesFit /\ ZipFits /\ Archives

LEMMA Invariance == Spec => []IInv
<1>1. Init => IInv
  <2> SUFFICES ASSUME Init PROVE IInv
    OBVIOUS
  <2> USE DEF Init, NewTable
  <2>1. Pending = {} /\ Left = {}
    BY DEF Pending, Left, OnDisk, PendingNum
  <2>2. Types
    <3>1. numOf \in Seq(Nat) /\ Len(numOf) = 0 /\ queue \in Seq(Task)
      OBVIOUS
    <3> QED
      BY <3>1 DEF Types, Blank, On
  <2>3. StatusRow /\ Orphans
    BY <2>1 DEF StatusRow, Orphans, On, STATUS_ID, NoCmd
  <2>4. TasksFit /\ FilesFit /\ ZipFits
    BY <2>1 DEF TasksFit, FilesFit, ZipFits
  <2>5. Bounds
    BY FilesAssumption DEF Bounds, Image, Blank, STATUS_ID
  <2>6. Crowd
    BY FS_EmptySet, FilesAssumption DEF Crowd
  <2>7. Archives
    BY DEF Archives
  <2> QED
    BY <2>2, <2>3, <2>4, <2>5, <2>6, <2>7 DEF IInv
<1>2. IInv /\ [Next]_vars => IInv'
  BY TypesStep, StatusStep, BoundsStep, CrowdStep, OrphansStep, TasksFitStep,
     FilesFitStep, ZipFitsStep, ArchivesStep DEF IInv
<1> QED
  BY <1>1, <1>2, PTL DEF Spec

\* Values stay in their types, STATUS holds the number while the process runs,
\* and no more tasks are taken than there are threads.
THEOREM TypeCorrect == Spec => []TypeOK
<1>1. IInv => TypeOK
  <2> SUFFICES ASSUME IInv PROVE TypeOK
    OBVIOUS
  <2>1. \A t \in Pending : t.run \in 1 .. run /\ numOf[t.run] = t.num
    BY DEF IInv, TasksFit
  <2> QED
    BY <2>1, FilesAssumption DEF IInv, Types, StatusRow, Bounds, Crowd, TypeOK,
       On, STATUS_ID
<1> QED
  BY <1>1, Invariance, PTL

\* However many intrusions, deletions and crashes there are, files have a row
\* or are of the detection that is being recorded, but for the exceptions that
\* NoOrphanFiles names.
THEOREM FilesHaveRows == Spec => []NoOrphanFiles
<1>1. IInv => NoOrphanFiles
  BY DEF IInv, Orphans, Covered, Left, NoOrphanFiles
<1> QED
  BY <1>1, Invariance, PTL

\* No file or archive shows an image that is older than its frame, and none
\* of another detection, unless one came while the task was pending, or
\* GetVideoFrame timed out in the detection.
THEOREM ImagesAreTheirOwn == Spec => []ImagesFit
<1>1. IInv => ImagesFit
  BY DEF IInv, FilesFit, ZipFits, MayFit, Fits, ImagesFit
<1> QED
  BY <1>1, Invariance, PTL

\* A detection for which nothing is left to be done has all its frames in its
\* archive, unless files of it were deleted or tasks were lost: frames are kept
\* as tasks or files until the package is made, and the package of a run waits
\* for the run's tasks.
THEOREM ArchivesAreComplete == Spec => []ArchiveComplete
<1>1. IInv => ArchiveComplete
  <2> SUFFICES ASSUME IInv, NEW n \in DOMAIN rows \ spoilt,
                      Settled(n), rows[n] > 0
               PROVE  Zipped(n)
    BY DEF ArchiveComplete, Zipped
  <2>1. Zipped(n) \/ Packing(n) \/ Coming(n)
    BY DEF IInv, Archives
  <2>2. ~Packing(n)
    BY DEF Packing, Settled, PendingNum
  <2>3. ~Coming(n)
    BY DEF Coming, Settled
  <2> QED
    BY <2>1, <2>2, <2>3
<1> QED
  BY <1>1, Invariance, PTL
=============================================================================
