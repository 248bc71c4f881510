------------------------- MODULE LogRotationProofs -------------------------
(***************************************************************************)
(* What the log files of hermod-tracer hold, for any number of connections *)
(* and names, any limits and any of the failures LogRotation knows.        *)
(***************************************************************************)
EXTENDS LogRotation, SequenceLemmas, FiniteSetTheorems

(* The handles are those of open files of their directories.               *)
Written(n) == handles[n].file

HandleInv ==
  /\ \A n \in Names : handles[n] # None => files[Written(n)].dir = DirOf[n]
  /\ \A a \in Actors : pc[a] = "linking" => files[opened].dir = DirOf[NameOf(a)]
  /\ \A w \in Writers : pc[w] = "appending" => handles[NodeOf[w]] # None

(* The batch of the task that has the mutex is the youngest of all.        *)
JobInv ==
  /\ lock \in Writers =>
       job.node = NodeOf[lock] /\ job.batch = batches /\ job.next # 0
  /\ \A w \in Writers : pc[w] \in {"opening", "linking"} => job.next = 1

(* A line is in its node's directory, and of a batch that was begun.       *)
LinesInv ==
  \A f \in Ids : \A i \in DOMAIN files[f].lines :
    /\ DirOf[files[f].lines[i].node] = files[f].dir
    /\ files[f].lines[i].batch <= batches

(* What there is of the job: its lines stand at the end of the file that   *)
(* is written to.                                                          *)
PartInv ==
  \A w \in Writers :
    lock = w =>
      \A f \in Ids : \A i \in DOMAIN files[f].lines :
        LET first == Len(files[f].lines) - (job.next - 1)
        IN  IF pc[w] = "appending" /\ f = Written(NodeOf[w])
              THEN IF i > first THEN /\ files[f].lines[i].batch = job.batch
                                     /\ files[f].lines[i].line = i - first
                                ELSE files[f].lines[i].batch # job.batch
              ELSE files[f].lines[i].batch # job.batch

(* The file that is written to, or about to be, is the youngest with lines *)
(* of its node; none is younger than the clock.                            *)
YoungestInv ==
  /\ \A f \in Ids : files[f].name <= now
  /\ \A n \in Names : handles[n] # None =>
       \A f \in Ids : \A i \in DOMAIN files[f].lines :
         files[f].lines[i].node = n => files[f].name <= files[Written(n)].name
  /\ \A a \in Actors : pc[a] = "linking" =>
       \A f \in Ids : \A i \in DOMAIN files[f].lines :
         files[f].lines[i].node = NameOf(a) => files[f].name <= files[opened].name

ContentInv ==
  HandleInv /\ JobInv /\ LinesInv /\ PartInv /\ BatchesWhole
  /\ YoungestInv /\ LogsReadInOrder /\ SymlinkFollowsWriter

(* A node's files follow each other: no two present ones have one name,    *)
(* and the older was written last before the younger was made.             *)
AgesInv ==
  /\ \A f \in Ids : files[f].name <= files[f].mtime /\ files[f].mtime <= now
  /\ \A f, g \in Ids :
       files[f].dir = files[g].dir /\ files[f].name < files[g].name =>
         files[f].mtime <= files[g].name
  /\ \A f, g \in Ids :
       /\ files[f].linked /\ files[g].linked
       /\ files[f].dir = files[g].dir /\ files[f].name = files[g].name
       => f = g

(* A file about to be removed has a younger one.                           *)
DoomedInv ==
  /\ \A f \in doomed : \E g \in Ids :
       files[g].dir = files[f].dir /\ files[f].name < files[g].name
  /\ doomed # {} => pc[Rotator] = "removing"

(* The file that is written to has none, but for the one that rotation is  *)
(* putting in its place.                                                   *)
NewestInv ==
  /\ \A n \in Names : handles[n] # None =>
       \A f \in Ids : files[f].dir = DirOf[n] =>
         \/ files[f].name <= files[Written(n)].name
         \/ opened = f /\ pc[Rotator] = "linking"
  /\ opened # 0 =>
       /\ files[opened].linked
       /\ \A f \in Ids : files[f].dir = files[opened].dir =>
            files[f].name <= files[opened].name
  /\ \A w \in Writers :
       pc[w] \in {"opening", "linking"} => handles[NodeOf[w]] = None

SuccessionInv == AgesInv /\ DoomedInv /\ NewestInv /\ WrittenFileIsLinked

(* The files of a directory that pruning spares and that are no older than *)
(* m.  Whatever was removed or is going to be has enough of them.          *)
Spared(d, m) == {g \in Present(d) \ doomed : files[g].mtime >= m}

Gone(f) == ~files[f].linked \/ f \in doomed

SparedInv ==
  \A f \in Ids : Gone(f) =>
    Cardinality(Spared(files[f].dir, files[f].mtime)) >= KeepFiles

-----------------------------------------------------------------------------
(* What the operators do                                                   *)

(* A line is appended to one file, and nothing else changes.               *)
LEMMA WithLineFacts ==
  ASSUME LogTypeOK, NEW f \in Ids, NEW line \in Line
  PROVE  /\ WithLine(f, line) \in Seq(File)
         /\ Len(WithLine(f, line)) = Len(files)
         /\ \A g \in Ids \ {f} : WithLine(f, line)[g] = files[g]
         /\ WithLine(f, line)[f] =
              [files[f] EXCEPT !.lines = Append(files[f].lines, line), !.mtime = now]
  <1> DEFINE F == WithLine(f, line)
             new == [files[f] EXCEPT !.lines = Append(files[f].lines, line), !.mtime = now]
             n == Len(files)
  <1>1. /\ n \in Nat /\ files \in [1..n -> File] /\ Ids = 1..n
        /\ files[f] \in File /\ now \in Nat
    BY SeqDef, ElementOfSeq, LenProperties DEF LogTypeOK, Ids
  <1>2. Append(files[f].lines, line) \in Seq(Line)
    BY <1>1, AppendProperties DEF File
  <1>3. new \in File
    BY <1>1, <1>2 DEF File
  <1>4. F = [files EXCEPT ![f] = new]
    BY <1>1 DEF WithLine, File
  <1> HIDE DEF F, new
  <1>5. F \in [1..n -> File] /\ F[f] = new /\ \A g \in (1..n) \ {f} : F[g] = files[g]
    BY <1>1, <1>3, <1>4
  <1>6. F \in Seq(File) /\ Len(F) = n
    BY <1>1, <1>5, IsASeq
  <1> QED
    BY <1>1, <1>5, <1>6 DEF F, new

(* A file that is created has the next number.                             *)
LEMMA CreatedFacts ==
  ASSUME LogTypeOK, NEW file \in File
  PROVE  /\ Append(files, file) \in Seq(File)
         /\ Len(Append(files, file)) = Len(files) + 1
         /\ \A g \in Ids : Append(files, file)[g] = files[g]
         /\ Append(files, file)[Len(files) + 1] = file
         /\ 1..(Len(files) + 1) = Ids \cup {Len(files) + 1}
         /\ Len(files) + 1 \notin Ids
  <1>1. files \in Seq(File) /\ Len(files) \in Nat
    BY LenProperties DEF LogTypeOK
  <1> QED
    BY <1>1, AppendProperties DEF Ids

-----------------------------------------------------------------------------
(* The invariant                                                           *)

(* At the start nothing is open.                                           *)
LEMMA LogInvInit == LogInit => LogTypeOK /\ ContentInv
  <1> SUFFICES ASSUME LogInit PROVE LogTypeOK /\ ContentInv
    OBVIOUS
  <1>1. files \in Seq(File) /\ Len(files) = 0 /\ Ids = {}
    BY EmptySeq DEF LogInit, Ids
  <1>2. \A a \in Actors : pc[a] \notin Holding /\ a # None
    BY LogAssumption DEF LogInit, Actors, Holding
  <1>3. LogTypeOK
    <2>1. /\ pc \in [Actors -> WriterPc \cup RotationPc]
          /\ pc[Rotator] \in RotationPc /\ \A w \in Writers : pc[w] \in WriterPc
      BY LogAssumption DEF LogInit, Actors, WriterPc, RotationPc
    <2>2. \A a \in Actors : lock = a <=> pc[a] \in Holding
      BY <1>2 DEF LogInit
    <2>3. \A a \in Actors : pc[a] # "linking"
      BY <1>2 DEF Holding
    <2>4. job \in Job /\ wakeAt \in Nat
      BY LogAssumption DEF LogInit, Job, NoJob
    <2>5. handles \in [Names -> {None} \cup [file : Ids, bytes : Nat]]
      BY DEF LogInit
    <2>6. symlink \in [Dirs -> {None} \cup Nat]
      BY DEF LogInit
    <2>7. pc[Rotator] = "sleeping"
      BY DEF LogInit, Actors
    <2>8. /\ {wakeAt, now, batches} \subseteq Nat /\ opened = 0 /\ doomed \subseteq Ids
          /\ lock \in Actors \cup {None} /\ visit \subseteq Writers
          /\ target \in Names \cup {None}
      BY <2>4 DEF LogInit
    <2>9. crashed \in BOOLEAN
      BY DEF LogInit
    <2> QED
      BY <1>1, <2>1, <2>2, <2>3, <2>4, <2>5, <2>6, <2>7, <2>8, <2>9 DEF LogTypeOK
  <1>4. lock \notin Writers
    BY <1>2 DEF LogInit, Actors
  <1>5. ContentInv
    BY <1>1, <1>2, <1>4, LogAssumption
       DEF ContentInv, LogInit, HandleInv, JobInv, LinesInv, PartInv, BatchesWhole,
           YoungestInv, LogsReadInOrder, SymlinkFollowsWriter, Holding, Actors, NoJob
  <1> QED
    BY <1>3, <1>5

(* Steps of rotation, and of the clock, change no file's name or content   *)
(* and touch neither a handle nor a batch.                                 *)
LEMMA ContentKept ==
  ASSUME LogTypeOK, ContentInv,
         UNCHANGED <<handles, symlink, opened, job, batches>>,
         Len(files') = Len(files),
         \A f \in Ids : /\ files'[f].dir = files[f].dir /\ files'[f].name = files[f].name
                        /\ files'[f].lines = files[f].lines,
         now' \in Nat, now' >= now,
         \A w \in Writers : pc'[w] = pc[w] /\ (lock' = w <=> lock = w),
         pc'[Rotator] = "linking" => pc[Rotator] = "linking" /\ target' = target
  PROVE  ContentInv'
  <1>1. Ids' = Ids /\ \A n \in Names : handles[n] # None => Written(n) \in Ids /\ Written(n)' = Written(n)
    BY DEF Ids, LogTypeOK, Written
  <1>2. \A a \in Actors : pc'[a] = "linking" =>
          /\ pc[a] = "linking" /\ NameOf(a)' = NameOf(a)
          /\ opened \in Ids
    BY DEF Actors, NameOf, LogTypeOK
  <1>3. HandleInv'
    BY <1>1, <1>2 DEF ContentInv, HandleInv
  <1>4. JobInv'
    BY DEF ContentInv, JobInv
  <1>5. LinesInv'
    BY <1>1 DEF ContentInv, LinesInv
  <1>6. PartInv'
    BY <1>1 DEF ContentInv, PartInv, Written
  <1>7. BatchesWhole'
    <2>1. Ids' = Ids /\ \A f \in Ids : files'[f].lines = files[f].lines
      BY <1>1
    <2>2. BatchesWhole
      BY DEF ContentInv
    <2> DEFINE Whole(s) ==
          \A i, j \in DOMAIN s : i < j /\ s[i].batch = s[j].batch =>
            \A k \in i..j : s[k].batch = s[i].batch /\ s[k].line \in {0, s[i].line + k - i}
    <2>3. \A f \in Ids' : Whole(files'[f].lines)
      <3>1. \A f \in Ids : Whole(files[f].lines)
        BY ONLY <2>2 DEF BatchesWhole
      <3> HIDE DEF Whole
      <3> QED
        BY ONLY <2>1, <3>1
    <2>4. \A f, g \in Ids' : f # g =>
            \A i \in DOMAIN files'[f].lines, j \in DOMAIN files'[g].lines :
              files'[f].lines[i].batch # files'[g].lines[j].batch
      BY ONLY <2>1, <2>2 DEF BatchesWhole
    <2> QED
      BY ONLY <2>3, <2>4 DEF BatchesWhole
  <1>8. LogsReadInOrder'
    <2>1. /\ Ids' = Ids
          /\ \A f \in Ids : /\ files'[f].dir = files[f].dir /\ files'[f].name = files[f].name
                            /\ files'[f].lines = files[f].lines
      BY <1>1
    <2>2. LogsReadInOrder
      BY DEF ContentInv
    <2> QED
      BY ONLY <2>1, <2>2 DEF LogsReadInOrder
  <1>9. SymlinkFollowsWriter'
    BY <1>1 DEF ContentInv, SymlinkFollowsWriter, Written
  <1>10. YoungestInv'
    <2>1. \A f \in Ids : files[f].name \in Nat /\ now \in Nat
      <3>1. files \in Seq(File) /\ \A f \in Ids : files[f] \in File
        BY ElementOfSeq DEF Ids, LogTypeOK
      <3> QED
        BY <3>1 DEF LogTypeOK, File
    <2>2. \A f \in Ids : files'[f].name <= now'
      BY <2>1 DEF ContentInv, YoungestInv
    <2>3. \A n \in Names : handles'[n] # None =>
            \A f \in Ids : \A i \in DOMAIN files'[f].lines :
              files'[f].lines[i].node = n => files'[f].name <= files'[Written(n)'].name
      BY <1>1 DEF ContentInv, YoungestInv
    <2>4. \A a \in Actors : pc'[a] = "linking" =>
            \A f \in Ids : \A i \in DOMAIN files'[f].lines :
              files'[f].lines[i].node = NameOf(a)' => files'[f].name <= files'[opened'].name
      BY <1>2 DEF ContentInv, YoungestInv
    <2> QED
      BY <1>1, <2>2, <2>3, <2>4 DEF YoungestInv
  <1> QED
    BY <1>3, <1>4, <1>5, <1>6, <1>7, <1>8, <1>9, <1>10 DEF ContentInv

-----------------------------------------------------------------------------
(* The types and the mutex                                                 *)

(* Where the tasks may be.                                                 *)
PcOK ==
  /\ pc \in [Actors -> WriterPc \cup RotationPc]
  /\ pc[Rotator] \in RotationPc /\ \A w \in Writers : pc[w] \in WriterPc
  /\ lock \in Actors \cup {None}
  /\ \A a \in Actors : lock = a <=> pc[a] \in Holding

Linking == \E a \in Actors : pc[a] = "linking"

(* A task that goes in takes a free mutex, one that comes out frees it.    *)
LEMMA ActorMoves ==
  ASSUME PcOK, NEW a \in Actors, NEW x \in IF a = Rotator THEN RotationPc ELSE WriterPc,
         pc' = [pc EXCEPT ![a] = x],
         \/ x \in Holding /\ (lock = None \/ pc[a] \in Holding) /\ lock' = a
         \/ x \notin Holding /\ pc[a] \in Holding /\ lock' = None
         \/ x \notin Holding /\ pc[a] \notin Holding /\ lock' = lock
  PROVE  /\ PcOK'
         /\ x \in Holding \/ pc[a] \in Holding => (Linking' <=> x = "linking")
         /\ x \notin Holding /\ pc[a] \notin Holding => (Linking' <=> Linking)
  <1>1. /\ \A b \in Actors : pc'[b] = IF b = a THEN x ELSE pc[b]
        /\ pc' \in [Actors -> WriterPc \cup RotationPc]
    BY DEF PcOK, Actors
  <1>2. None \notin Actors
    BY LogAssumption DEF Actors
  <1>3. \A b \in Actors : lock' = b <=> pc'[b] \in Holding
    BY <1>1, <1>2 DEF PcOK
  <1>4. PcOK'
    <2>1. pc'[Rotator] \in RotationPc /\ \A w \in Writers : pc'[w] \in WriterPc
      BY <1>1, LogAssumption DEF PcOK, Actors
    <2>2. lock' \in Actors \cup {None}
      BY DEF PcOK
    <2> QED
      BY <1>1, <1>3, <2>1, <2>2 DEF PcOK
  <1>5. x \in Holding \/ pc[a] \in Holding => \A b \in Actors \ {a} : pc'[b] \notin Holding
    BY <1>1, <1>2, <1>3 DEF PcOK
  <1> QED
    BY <1>1, <1>4, <1>5 DEF Linking, Holding

(* The types, in parts.                                                    *)
LEMMA TypesInParts ==
  LogTypeOK <=>
    /\ PcOK
    /\ job \in Job
    /\ files \in Seq(File)
    /\ handles \in [Names -> {None} \cup [file : Ids, bytes : Nat]]
    /\ symlink \in [Dirs -> {None} \cup Nat]
    /\ opened \in {0} \cup Ids
    /\ opened # 0 <=> Linking
    /\ visit \subseteq Writers
    /\ target \in Names \cup {None}
    /\ pc[Rotator] \notin {"sleeping", "visiting"} => target \in Names
    /\ doomed \subseteq Ids
    /\ wakeAt \in Nat /\ now \in Nat /\ batches \in Nat
    /\ crashed \in BOOLEAN
  BY DEF LogTypeOK, PcOK, Linking

(* Steps of the clock and of rotation that leave the files alone.          *)
LEMMA QuietTypes ==
  ASSUME LogTypeOK,
         \/ Tick \/ StartPass \/ EndPass \/ ScanFiles \/ EndPrune
         \/ \E w \in Writers : Visit(w)
  PROVE  LogTypeOK'
  <1> USE LogAssumption
  <1>1. /\ UNCHANGED <<handles, files, symlink, opened, job, batches>>
        /\ now' \in Nat /\ wakeAt' \in Nat /\ visit' \subseteq Writers
        /\ target' \in Names \cup {None}
        /\ crashed' = crashed
    BY DEF Tick, StartPass, EndPass, ScanFiles, EndPrune, Visit, writerVars, rotationVars, LogTypeOK
  <1>2. /\ PcOK' /\ (Linking' <=> Linking)
        /\ pc'[Rotator] \notin {"sleeping", "visiting"} => target' \in Names
    <2> Rotator \in Actors
      BY DEF Actors
    <2> USE TypesInParts
    <2>1. CASE Tick
      BY <2>1 DEF Tick, PcOK, Linking, rotationVars
    <2>2. CASE StartPass
      <3>1. pc[Rotator] = "sleeping" /\ pc' = [pc EXCEPT ![Rotator] = "visiting"] /\ lock' = lock
        BY <2>2 DEF StartPass
      <3> QED
        <4>1. "visiting" \in RotationPc /\ "visiting" \notin Holding /\ pc[Rotator] \notin Holding
          BY <3>1 DEF Holding, RotationPc
        <4>2. PcOK' /\ (Linking' <=> Linking)
          BY <3>1, <4>1, ActorMoves
        <4> QED
          BY <3>1, <4>2 DEF PcOK
    <2>3. CASE EndPass
      <3>1. pc[Rotator] = "visiting" /\ pc' = [pc EXCEPT ![Rotator] = "sleeping"] /\ lock' = lock
        BY <2>3 DEF EndPass
      <3> QED
        <4>1. "sleeping" \in RotationPc /\ "sleeping" \notin Holding /\ pc[Rotator] \notin Holding
          BY <3>1 DEF Holding, RotationPc
        <4>2. PcOK' /\ (Linking' <=> Linking)
          BY <3>1, <4>1, ActorMoves
        <4> QED
          BY <3>1, <4>2 DEF PcOK
    <2>4. CASE ScanFiles
      <3>1. /\ pc[Rotator] = "scanning" /\ pc' = [pc EXCEPT ![Rotator] = "removing"]
            /\ lock' = lock /\ target' = target
        BY <2>4 DEF ScanFiles
      <3> QED
        BY <3>1, ActorMoves DEF Holding, RotationPc, PcOK
    <2>5. CASE EndPrune
      <3>1. /\ pc[Rotator] = "removing" /\ pc' = [pc EXCEPT ![Rotator] = "visiting"]
            /\ lock' = lock /\ target' = target
        BY <2>5 DEF EndPrune, rotationVars
      <3> QED
        BY <3>1, ActorMoves DEF Holding, RotationPc, PcOK
    <2>6. ASSUME NEW w \in Writers, Visit(w) PROVE <1>2
      <3>1. pc[Rotator] = "visiting" /\ lock = None /\ target' = NodeOf[w] /\ target' \in Names
        BY <2>6 DEF Visit
      <3>2. \A a \in Actors : pc[a] \notin Holding
        BY <3>1 DEF PcOK, Actors
      <3>3. CASE pc' = [pc EXCEPT ![Rotator] = "opening"] /\ lock' = Rotator
        <4>1. PcOK' /\ ~Linking'
          BY <3>1, <3>3, ActorMoves DEF Holding, RotationPc
        <4> QED
          BY <3>1, <3>2, <4>1 DEF Holding, Linking
      <3>4. CASE pc' = [pc EXCEPT ![Rotator] = "scanning"] /\ lock' = lock
        BY <3>1, <3>4, ActorMoves DEF Holding, RotationPc, PcOK
      <3> QED
        BY <2>6, <3>3, <3>4 DEF Visit, Resume
    <2> QED
      BY <2>1, <2>2, <2>3, <2>4, <2>5, <2>6
  <1>3. doomed' \subseteq Ids
    <2>1. CASE ScanFiles
      BY <2>1 DEF ScanFiles, Present
    <2>2. CASE ~ScanFiles
      BY <2>2 DEF Tick, StartPass, EndPass, EndPrune, Visit, rotationVars, LogTypeOK
    <2> QED
      BY <2>1, <2>2
  <1>4. Ids' = Ids
    BY <1>1 DEF Ids
  <1> QED
    BY <1>1, <1>2, <1>3, <1>4 DEF LogTypeOK, PcOK, Linking

(* What is known of a file.                                                *)
LEMMA FileTypes ==
  ASSUME LogTypeOK, NEW f \in Ids
  PROVE  /\ files[f] \in File
         /\ files[f].dir \in Dirs /\ files[f].name \in Nat /\ files[f].mtime \in Nat
         /\ files[f].lines \in Seq(Line)
         /\ Len(files[f].lines) \in Nat
         /\ DOMAIN files[f].lines = 1..Len(files[f].lines)
         /\ \A i \in DOMAIN files[f].lines :
              /\ files[f].lines[i] \in Line
              /\ files[f].lines[i].node \in Names /\ files[f].lines[i].batch \in Nat
  <1>1. files[f] \in File
    BY ElementOfSeq DEF LogTypeOK, Ids
  <1>2. files[f].lines \in Seq(Line)
    BY <1>1 DEF File
  <1>3. /\ Len(files[f].lines) \in Nat /\ DOMAIN files[f].lines = 1..Len(files[f].lines)
        /\ \A i \in 1..Len(files[f].lines) : files[f].lines[i] \in Line
    BY <1>2, LenProperties, ElementOfSeq
  <1> QED
    BY <1>1, <1>2, <1>3 DEF File, Line

(* Removing a file unlinks it and changes nothing else of it.              *)
LEMMA RemoveFileFacts ==
  ASSUME LogTypeOK, NEW f \in doomed, RemoveFile(f)
  PROVE  /\ f \in Ids /\ files' \in Seq(File) /\ Len(files') = Len(files)
         /\ \A g \in Ids : /\ files'[g].dir = files[g].dir /\ files'[g].name = files[g].name
                           /\ files'[g].lines = files[g].lines
                           /\ files'[g].mtime = files[g].mtime
                           /\ g # f => files'[g].linked = files[g].linked
  <1> DEFINE n == Len(files)
             new == [files[f] EXCEPT !.linked = FALSE]
  <1>1. f \in Ids /\ Ids = 1..n /\ files \in Seq(File)
    BY DEF LogTypeOK, Ids
  <1>2. n \in Nat /\ files \in [1..n -> File] /\ files[f] \in File
    BY <1>1, LenProperties, ElementOfSeq
  <1>3. new \in File
    BY <1>2 DEF File
  <1>4. files' = files \/ files' = [files EXCEPT ![f] = new]
    BY <1>1, <1>2 DEF RemoveFile, File
  <1>5. new.dir = files[f].dir /\ new.name = files[f].name /\ new.lines = files[f].lines
        /\ new.mtime = files[f].mtime
    BY <1>2 DEF File
  <1> HIDE DEF new
  <1>6. files' \in [1..n -> File]
    BY <1>2, <1>3, <1>4
  <1>7. files' \in Seq(File) /\ Len(files') = n
    BY <1>2, <1>6, IsASeq
  <1> QED
    BY <1>1, <1>2, <1>4, <1>5, <1>7

(* The steps between those of writing.                                     *)
LEMMA StepQuiet ==
  ASSUME LogTypeOK, ContentInv,
         \/ Tick \/ StartPass \/ EndPass \/ ScanFiles \/ EndPrune
         \/ \E w \in Writers : Visit(w)
         \/ \E f \in doomed : RemoveFile(f)
  PROVE  LogTypeOK' /\ ContentInv'
  <1> USE LogAssumption
  <1>1. CASE \E f \in doomed : RemoveFile(f)
    <2>1. PICK f \in doomed : RemoveFile(f)
      BY <1>1
    <2>2. /\ f \in Ids /\ files' \in Seq(File) /\ Len(files') = Len(files)
          /\ \A g \in Ids : /\ files'[g].dir = files[g].dir /\ files'[g].name = files[g].name
                            /\ files'[g].lines = files[g].lines
      BY <2>1, RemoveFileFacts
    <2>3. /\ UNCHANGED <<pc, lock, handles, symlink, opened, job, batches,
                         visit, target, wakeAt, now, crashed>>
          /\ doomed' \subseteq doomed
      BY <2>1 DEF RemoveFile
    <2>4. LogTypeOK'
      <3>1. Ids' = Ids
        BY <2>2 DEF Ids
      <3> QED
        BY <2>2, <2>3, <3>1 DEF LogTypeOK
    <2>5. ContentInv'
      BY <2>2, <2>3, ContentKept DEF LogTypeOK
    <2> QED
      BY <2>4, <2>5
  <1>2. CASE \/ Tick \/ StartPass \/ EndPass \/ ScanFiles \/ EndPrune
             \/ \E w \in Writers : Visit(w)
    <2>1. LogTypeOK'
      BY <1>2, QuietTypes
    <2>2. /\ UNCHANGED <<handles, files, symlink, opened, job, batches>>
          /\ now' \in Nat /\ now' >= now
      BY <1>2 DEF Tick, StartPass, EndPass, ScanFiles, EndPrune, Visit, writerVars, LogTypeOK
    <2>3. \A w \in Writers : pc'[w] = pc[w]
      BY <1>2 DEF Tick, StartPass, EndPass, ScanFiles, EndPrune, Visit, Resume, LogTypeOK, Actors
    <2>4. \A w \in Writers : lock' = w <=> lock = w
      BY <1>2 DEF Tick, StartPass, EndPass, ScanFiles, EndPrune, Visit
    <2>5. pc'[Rotator] = "linking" => pc[Rotator] = "linking" /\ target' = target
      BY <1>2 DEF Tick, StartPass, EndPass, ScanFiles, EndPrune, Visit, Resume, LogTypeOK, Actors,
                  rotationVars
    <2> QED
      BY <2>1, <2>2, <2>3, <2>4, <2>5, ContentKept
  <1> QED
    BY <1>1, <1>2

(* Nobody is left inside LogWriter.                                        *)
LEMMA ContentReleased ==
  ASSUME LogTypeOK, ContentInv,
         UNCHANGED <<files, symlink, batches, now>>,
         \A n \in Names : handles'[n] = handles[n] \/ \A m \in Names : handles'[m] = None,
         \A a \in Actors : pc'[a] \notin Holding, lock' = None
  PROVE  ContentInv'
  <1> USE LogAssumption
  <1>1. Ids' = Ids /\ \A a \in Actors : pc'[a] \notin {"opening", "linking", "appending"}
    BY DEF Ids, Holding
  <1>2. \A w \in Writers : lock' # w
    OBVIOUS
  <1>3. \A n \in Names : handles'[n] # None => handles[n] # None /\ Written(n)' = Written(n)
    BY DEF Written
  <1>4. HandleInv' /\ JobInv' /\ PartInv' /\ YoungestInv'
    BY <1>1, <1>2, <1>3 DEF ContentInv, HandleInv, JobInv, PartInv, YoungestInv, Actors
  <1>5. LinesInv' /\ BatchesWhole' /\ LogsReadInOrder'
    BY <1>1 DEF ContentInv, LinesInv, BatchesWhole, LogsReadInOrder
  <1>6. SymlinkFollowsWriter'
    BY <1>1, <1>3 DEF ContentInv, SymlinkFollowsWriter, Written
  <1> QED
    BY <1>4, <1>5, <1>6 DEF ContentInv

-----------------------------------------------------------------------------
(* Writing a batch                                                         *)

(* A task that appends holds the mutex and a handle.                       *)
LEMMA AppenderFacts ==
  ASSUME LogTypeOK, ContentInv, NEW w \in Writers, pc[w] = "appending"
  PROVE  /\ lock = w /\ w # Rotator /\ w \in Actors
         /\ \A a \in Actors : pc[a] # "linking"
         /\ Written(NodeOf[w]) \in Ids
         /\ handles[NodeOf[w]] \in [file : Ids, bytes : Nat]
         /\ files[Written(NodeOf[w])].dir = DirOf[NodeOf[w]]
         /\ job.node = NodeOf[w] /\ job.batch = batches /\ job.next \in Nat \ {0}
         /\ NodeOf[w] \in Names
  <1> USE LogAssumption
  <1>1. w \in Actors /\ w # Rotator /\ lock = w
    BY DEF LogTypeOK, Actors, Holding
  <1>2. \A a \in Actors : pc[a] # "linking"
    BY <1>1 DEF LogTypeOK, Holding
  <1>3. NodeOf[w] \in Names /\ handles[NodeOf[w]] # None
    BY DEF ContentInv, HandleInv
  <1>4. handles[NodeOf[w]] \in [file : Ids, bytes : Nat]
    BY <1>3 DEF LogTypeOK
  <1>5. job.node = NodeOf[w] /\ job.batch = batches /\ job.next \in Nat \ {0}
    BY <1>1 DEF ContentInv, JobInv, LogTypeOK, Job
  <1> QED
    BY <1>1, <1>2, <1>3, <1>4, <1>5 DEF Written, ContentInv, HandleInv

(* The next line of the job, or the beginning of it, is written.           *)
LEMMA LineAdded ==
  ASSUME LogTypeOK, ContentInv, NEW w \in Writers, pc[w] = "appending",
         NEW line \in Line, line.node = job.node, line.batch = job.batch,
         line.line \in {0, job.next},
         files' = WithLine(Written(NodeOf[w]), line),
         UNCHANGED <<symlink, batches, now>>,
         \A n \in Names : /\ handles'[n] # None <=> handles[n] # None
                          /\ handles[n] # None => Written(n)' = Written(n)
  PROVE  /\ Ids' = Ids /\ files' \in Seq(File)
         /\ \A n \in Names : handles'[n] # None => files'[Written(n)'].dir = DirOf[n]
         /\ LinesInv' /\ BatchesWhole' /\ LogsReadInOrder' /\ SymlinkFollowsWriter'
         /\ \A f \in Ids : files'[f].name <= now
         /\ \A n \in Names : handles'[n] # None =>
              \A f \in Ids : \A i \in DOMAIN files'[f].lines :
                files'[f].lines[i].node = n => files'[f].name <= files'[Written(n)'].name
         /\ \A f \in Ids : \A i \in DOMAIN files'[f].lines :
              LET first == Len(files'[f].lines) - job.next
              IN  IF f = Written(NodeOf[w])
                    THEN IF i > first
                           THEN /\ files'[f].lines[i].batch = job.batch
                                /\ line.line = job.next => files'[f].lines[i].line = i - first
                           ELSE files'[f].lines[i].batch # job.batch
                    ELSE files'[f].lines[i].batch # job.batch
  <1> DEFINE h == Written(NodeOf[w])
             s == files[h].lines
             t == files'[h].lines
             n == Len(s)
  <1>1. /\ lock = w /\ h \in Ids /\ files[h].dir = DirOf[NodeOf[w]]
        /\ job.node = NodeOf[w] /\ job.batch = batches /\ job.next \in Nat \ {0}
        /\ NodeOf[w] \in Names /\ handles[NodeOf[w]] # None
    BY AppenderFacts DEF ContentInv, HandleInv
  <1>2. s \in Seq(Line) /\ n \in Nat /\ DOMAIN s = 1..n
    BY <1>1, FileTypes
  <1>3. /\ files' \in Seq(File) /\ Len(files') = Len(files)
        /\ \A g \in Ids \ {h} : files'[g] = files[g]
        /\ files'[h] = [files[h] EXCEPT !.lines = Append(s, line), !.mtime = now]
    BY <1>1, WithLineFacts
  <1>4. /\ files'[h].dir = files[h].dir /\ files'[h].name = files[h].name
        /\ t = Append(s, line)
    <2>1. files[h] \in File
      BY <1>1, FileTypes
    <2> QED
      BY <1>3, <2>1 DEF File
  <1>5. /\ Len(t) = n + 1 /\ DOMAIN t = 1..(n + 1)
        /\ \A i \in 1..n : t[i] = s[i]
        /\ t[n + 1] = line
    BY <1>2, <1>4, AppendProperties, LenProperties
  <1>6. Ids' = Ids /\ \A g \in Ids : files'[g].dir = files[g].dir /\ files'[g].name = files[g].name
    BY <1>3, <1>4 DEF Ids
  <1>7. \A g \in Ids \ {h} : files'[g].lines = files[g].lines
    BY <1>3
  <1>8. /\ \A i \in 1..n : IF i > n - (job.next - 1)
                             THEN s[i].batch = job.batch /\ s[i].line = i - (n - (job.next - 1))
                             ELSE s[i].batch # job.batch
        /\ \A g \in Ids \ {h} : \A i \in DOMAIN files[g].lines :
             files[g].lines[i].batch # job.batch
    BY <1>1, <1>2 DEF ContentInv, PartInv
  <1>9. /\ \A i \in 1..n : DirOf[s[i].node] = files[h].dir /\ s[i].batch <= batches
        /\ \A g \in Ids \ {h} : \A i \in DOMAIN files[g].lines :
             DirOf[files[g].lines[i].node] = files[g].dir /\ files[g].lines[i].batch <= batches
    BY <1>1, <1>2 DEF ContentInv, LinesInv
  <1> HIDE DEF h, s, t, n
  <1>10. \A i \in 1..(n + 1) : i \in 1..n \/ i = n + 1
    BY <1>2
  <1>11. batches \in Nat
    BY DEF LogTypeOK
  <1>12. LinesInv'
    <2>1. \A i \in DOMAIN t : DirOf[t[i].node] = files[h].dir /\ t[i].batch <= batches
      BY <1>1, <1>5, <1>9, <1>10, <1>11
    <2> QED
      BY <1>6, <1>7, <1>9, <2>1 DEF LinesInv, t
  <1>13. \A i \in 1..(n + 1) :
           IF i > n + 1 - job.next
             THEN /\ t[i].batch = job.batch
                  /\ i <= n => t[i].line = i - (n + 1 - job.next)
             ELSE t[i].batch # job.batch
    <2>1. \A i \in 1..n : i > n - (job.next - 1) <=> i > n + 1 - job.next
      BY <1>1, <1>2
    <2>2. \A i \in 1..n : i - (n - (job.next - 1)) = i - (n + 1 - job.next)
      BY <1>1, <1>2
    <2>3. n + 1 > n + 1 - job.next /\ ~(n + 1 <= n)
      BY <1>1, <1>2
    <2> QED
      BY <1>5, <1>8, <1>10, <2>1, <2>2, <2>3
  <1>14. BatchesWhole'
    <2>1. ASSUME NEW i \in 1..(n + 1), NEW j \in 1..(n + 1), i < j, t[i].batch = t[j].batch,
                 NEW k \in i..j
          PROVE  t[k].batch = t[i].batch /\ t[k].line \in {0, t[i].line + (k - i)}
      <3>1. CASE j \in 1..n
        <4>1. i \in 1..n /\ k \in 1..n
          BY <1>2, <2>1, <3>1
        <4>2. s[k].batch = s[i].batch /\ s[k].line \in {0, s[i].line + (k - i)}
          BY <1>1, <1>2, <1>5, <2>1, <3>1, <4>1 DEF ContentInv, BatchesWhole, s
        <4> QED
          BY <1>5, <4>1, <4>2
      <3>2. CASE j = n + 1
        <4>1. t[i].batch = job.batch
          BY <1>5, <2>1, <3>2
        <4>2. i > n + 1 - job.next /\ i <= n /\ k \in 1..(n + 1) /\ k > n + 1 - job.next
          BY <1>1, <1>2, <1>13, <2>1, <3>2, <4>1
        <4>3. t[i].line = i - (n + 1 - job.next)
          BY <1>13, <4>2
        <4>4. k <= n => t[k].line = t[i].line + (k - i)
          <5>1. k <= n => t[k].line = k - (n + 1 - job.next)
            BY <1>13, <4>2
          <5> QED
            BY <1>1, <1>2, <4>2, <4>3, <5>1
        <4>5. k = n + 1 => job.next = t[i].line + (k - i)
          BY <1>1, <1>2, <4>3
        <4>6. k = n + 1 => t[k].line \in {0, job.next}
          BY <1>5
        <4>7. k <= n \/ k = n + 1
          BY <1>2, <4>2
        <4> QED
          BY <1>13, <4>1, <4>2, <4>4, <4>5, <4>6, <4>7
      <3> QED
        BY <1>10, <3>1, <3>2
    <2>2. \A g \in Ids \ {h} : \A i \in DOMAIN files[g].lines : \A j \in 1..(n + 1) :
            files[g].lines[i].batch # t[j].batch
      BY <1>1, <1>2, <1>5, <1>8, <1>10 DEF ContentInv, BatchesWhole, s
    <2>3. \A f, g \in Ids \ {h} : f # g =>
            \A i \in DOMAIN files[f].lines, j \in DOMAIN files[g].lines :
              files[f].lines[i].batch # files[g].lines[j].batch
      BY DEF ContentInv, BatchesWhole
    <2>4. \A f \in Ids \ {h} : \A i, j \in DOMAIN files[f].lines :
            i < j /\ files[f].lines[i].batch = files[f].lines[j].batch =>
              \A k \in i..j : /\ files[f].lines[k].batch = files[f].lines[i].batch
                              /\ files[f].lines[k].line \in {0, files[f].lines[i].line + (k - i)}
      BY DEF ContentInv, BatchesWhole
    <2>5. \A f \in Ids : \A i, j \in DOMAIN files'[f].lines :
            i < j /\ files'[f].lines[i].batch = files'[f].lines[j].batch =>
              \A k \in i..j : /\ files'[f].lines[k].batch = files'[f].lines[i].batch
                              /\ files'[f].lines[k].line \in {0, files'[f].lines[i].line + (k - i)}
      <3>1. SUFFICES ASSUME NEW f \in Ids, NEW i \in DOMAIN files'[f].lines,
                            NEW j \in DOMAIN files'[f].lines, NEW k \in i..j,
                            i < j, files'[f].lines[i].batch = files'[f].lines[j].batch
                     PROVE  /\ files'[f].lines[k].batch = files'[f].lines[i].batch
                            /\ files'[f].lines[k].line \in {0, files'[f].lines[i].line + (k - i)}
        OBVIOUS
      <3>2. CASE f = h
        <4>1. files'[f].lines = t /\ i \in 1..(n + 1) /\ j \in 1..(n + 1)
          BY <1>5, <3>2 DEF t
        <4>2. t[i].batch = t[j].batch
          BY <3>1, <4>1
        <4>3. t[k].batch = t[i].batch /\ t[k].line \in {0, t[i].line + (k - i)}
          BY <2>1, <3>1, <4>1, <4>2
        <4> QED
          BY <4>1, <4>3
      <3>3. CASE f # h
        <4>1. f \in Ids \ {h} /\ files'[f].lines = files[f].lines
          BY <1>7, <3>3
        <4> QED
          BY <2>4, <3>1, <4>1
      <3> QED
        BY <3>2, <3>3
    <2>6. \A f, g \in Ids : f # g =>
            \A i \in DOMAIN files'[f].lines, j \in DOMAIN files'[g].lines :
              files'[f].lines[i].batch # files'[g].lines[j].batch
      <3> SUFFICES ASSUME NEW f \in Ids, NEW g \in Ids, f # g,
                          NEW i \in DOMAIN files'[f].lines, NEW j \in DOMAIN files'[g].lines
                   PROVE  files'[f].lines[i].batch # files'[g].lines[j].batch
        OBVIOUS
      <3>1. files'[h].lines = t /\ DOMAIN t = 1..(n + 1)
        BY <1>5 DEF t
      <3>2. CASE f = h
        <4>1. g \in Ids \ {h} /\ files'[g].lines = files[g].lines
          BY <1>7, <3>2
        <4>2. files'[f].lines = t /\ i \in 1..(n + 1) /\ j \in DOMAIN files[g].lines
          BY <3>1, <3>2, <4>1
        <4> QED
          BY <2>2, <4>1, <4>2
      <3>3. CASE g = h
        <4>1. f \in Ids \ {h} /\ files'[f].lines = files[f].lines
          BY <1>7, <3>3
        <4>2. files'[g].lines = t /\ j \in 1..(n + 1) /\ i \in DOMAIN files[f].lines
          BY <3>1, <3>3, <4>1
        <4> QED
          BY <2>2, <4>1, <4>2
      <3>4. CASE f # h /\ g # h
        BY <1>7, <2>3, <3>4
      <3> QED
        BY <3>2, <3>3, <3>4
    <2> QED
      BY <1>6, <2>5, <2>6 DEF BatchesWhole
  <1>15. LogsReadInOrder'
    <2>1. ASSUME NEW g \in Ids \ {h}, files[g].dir = files[h].dir,
                 NEW i \in DOMAIN files[g].lines, NEW j \in 1..(n + 1),
                 files[g].lines[i].node = t[j].node
          PROVE  /\ files[g].name < files[h].name => files[g].lines[i].batch < t[j].batch
                 /\ ~(files[h].name < files[g].name /\ j = n + 1)
                 /\ files[h].name < files[g].name => t[j].batch < files[g].lines[i].batch
      <3>1. files[h].name \in Nat /\ files[g].name \in Nat /\ files[g].lines[i].batch \in Nat
        BY <1>1, <2>1, FileTypes
      <3>2. CASE j \in 1..n
        BY SMTT(60), <1>1, <1>2, <1>5, <2>1, <3>2 DEF ContentInv, LogsReadInOrder, s
      <3>3. CASE j = n + 1
        <4>1. files[g].lines[i].batch < t[j].batch
          BY SMTT(60), <1>1, <1>5, <1>8, <1>9, <1>11, <3>1, <3>3
        <4>2. files[g].name <= files[h].name
          BY <1>1, <1>5, <2>1, <3>3 DEF ContentInv, YoungestInv, h
        <4> QED
          BY <3>1, <4>1, <4>2
      <3> QED
        BY <1>10, <3>2, <3>3
    <2>2. ASSUME NEW f \in Ids, NEW g \in Ids,
                 files'[f].dir = files'[g].dir, files'[f].name < files'[g].name,
                 NEW i \in DOMAIN files'[f].lines, NEW j \in DOMAIN files'[g].lines,
                 files'[f].lines[i].node = files'[g].lines[j].node
          PROVE  files'[f].lines[i].batch < files'[g].lines[j].batch
      <3>1. files[f].dir = files[g].dir /\ files[f].name < files[g].name /\ f # g
        <4>1. files[f].name \in Nat
          BY FileTypes
        <4> QED
          BY <1>6, <2>2, <4>1
      <3>2. CASE f # h /\ g # h
        BY <1>7, <2>2, <3>1, <3>2 DEF ContentInv, LogsReadInOrder
      <3>3. CASE f = h
        BY SMTT(60), <1>5, <1>7, <2>1, <2>2, <3>1, <3>3 DEF t
      <3>4. CASE g = h
        BY SMTT(60), <1>5, <1>7, <2>1, <2>2, <3>1, <3>4 DEF t
      <3> QED
        BY <3>2, <3>3, <3>4
    <2> QED
      BY <1>6, <2>2 DEF LogsReadInOrder
  <1>16. \A m \in Names : handles'[m] # None =>
           /\ handles[m] # None /\ handles'[m].file = Written(m) /\ Written(m) \in Ids
    BY DEF Written, LogTypeOK
  <1>17. SymlinkFollowsWriter'
    <2>1. \A m \in Names : handles[m] # None =>
            /\ handles'[m] # None
            /\ files'[handles'[m].file].name = files[handles[m].file].name
      BY <1>6, <1>16 DEF Written
    <2> QED
      BY <1>16, <2>1 DEF ContentInv, SymlinkFollowsWriter
  <1>18. \A m \in Names : handles'[m] # None =>
           \A f \in Ids : \A i \in DOMAIN files'[f].lines :
             files'[f].lines[i].node = m => files'[f].name <= files'[Written(m)'].name
    <2>1. ASSUME NEW m \in Names, handles'[m] # None, NEW f \in Ids,
                 NEW i \in DOMAIN files'[f].lines, files'[f].lines[i].node = m
          PROVE  files'[f].name <= files'[Written(m)'].name
      <3>1. handles[m] # None /\ Written(m)' = Written(m) /\ Written(m) \in Ids
        BY <1>16, <2>1 DEF Written
      <3>2. CASE \E j \in DOMAIN files[f].lines : files[f].lines[j].node = m
        BY <1>6, <3>1, <3>2 DEF ContentInv, YoungestInv
      <3>3. CASE ~\E j \in DOMAIN files[f].lines : files[f].lines[j].node = m
        <4>1. f = h /\ i = n + 1 /\ m = NodeOf[w]
          BY <1>1, <1>2, <1>5, <1>7, <1>10, <2>1, <3>3 DEF s, t
        <4>2. files[h].name \in Nat
          BY <1>1, FileTypes
        <4> QED
          BY <1>6, <3>1, <4>1, <4>2 DEF h
      <3> QED
        BY <3>2, <3>3
    <2> QED
      BY <2>1
  <1>19. \A f \in Ids : \A i \in DOMAIN files'[f].lines :
           LET first == Len(files'[f].lines) - job.next
           IN  IF f = h
                 THEN IF i > first
                        THEN /\ files'[f].lines[i].batch = job.batch
                             /\ line.line = job.next => files'[f].lines[i].line = i - first
                        ELSE files'[f].lines[i].batch # job.batch
                 ELSE files'[f].lines[i].batch # job.batch
    <2>1. line.line = job.next => t[n + 1].line = (n + 1) - (n + 1 - job.next)
      BY <1>1, <1>2, <1>5
    <2>2. \A i \in 1..(n + 1) : i <= n \/ i = n + 1
      BY <1>2
    <2>3. ASSUME NEW i \in 1..(n + 1)
          PROVE  IF i > n + 1 - job.next
                   THEN /\ t[i].batch = job.batch
                        /\ line.line = job.next => t[i].line = i - (n + 1 - job.next)
                   ELSE t[i].batch # job.batch
      BY <1>13, <2>1, <2>2
    <2>4. \A f \in Ids \ {h} : \A i \in DOMAIN files'[f].lines :
            files'[f].lines[i].batch # job.batch
      BY <1>7, <1>8
    <2>5. \A i \in DOMAIN t :
            IF i > Len(t) - job.next
              THEN /\ t[i].batch = job.batch
                   /\ line.line = job.next => t[i].line = i - (Len(t) - job.next)
              ELSE t[i].batch # job.batch
      <3>1. Len(t) - job.next = n + 1 - job.next
        BY <1>1, <1>2, <1>5
      <3> QED
        BY <1>5, <2>3, <3>1
    <2> QED
      BY <2>4, <2>5 DEF t
  <1>20. \A m \in Names : handles'[m] # None => files'[Written(m)'].dir = DirOf[m]
    BY <1>6, <1>16 DEF ContentInv, HandleInv, Written
  <1>21. \A f \in Ids : files'[f].name <= now
    BY <1>6 DEF ContentInv, YoungestInv
  <1> QED
    BY <1>3, <1>6, <1>12, <1>14, <1>15, <1>17, <1>18, <1>19, <1>20, <1>21 DEF h

(* One more line of the job.                                               *)
LEMMA StepAppendLine ==
  ASSUME LogTypeOK, ContentInv, NEW w \in Writers, AppendLine(w)
  PROVE  LogTypeOK' /\ ContentInv'
  <1> USE LogAssumption
  <1> DEFINE line == [node |-> job.node, batch |-> job.batch, line |-> job.next]
             h == Written(NodeOf[w])
  <1>1. /\ pc[w] = "appending" /\ job.next <= job.size
        /\ files' = WithLine(h, line)
        /\ handles' = [handles EXCEPT ![NodeOf[w]].bytes = @ + 1]
        /\ job' = [job EXCEPT !.next = @ + 1]
        /\ UNCHANGED <<pc, lock, symlink, opened, batches, rotationVars, now, crashed>>
    BY DEF AppendLine, Written
  <1>2. /\ lock = w /\ w \in Actors /\ \A a \in Actors : pc[a] # "linking"
        /\ h \in Ids /\ handles[NodeOf[w]] \in [file : Ids, bytes : Nat]
        /\ job.node = NodeOf[w] /\ job.batch = batches /\ job.next \in Nat \ {0}
        /\ NodeOf[w] \in Names
    BY <1>1, AppenderFacts
  <1>3. job \in Job /\ batches \in Nat
    BY DEF LogTypeOK
  <1>4. /\ job' \in Job /\ job'.node = job.node /\ job'.batch = job.batch
        /\ job'.next = job.next + 1 /\ line \in Line
        /\ line.node = job.node /\ line.batch = job.batch /\ line.line = job.next
    BY <1>1, <1>2, <1>3 DEF Job, Line
  <1>5. /\ handles' \in [Names -> {None} \cup [file : Ids, bytes : Nat]]
        /\ \A n \in Names : /\ handles'[n] # None <=> handles[n] # None
                            /\ handles[n] # None => Written(n)' = Written(n)
    <2> DEFINE new == [handles[NodeOf[w]] EXCEPT !.bytes = @ + 1]
    <2>1. /\ handles \in [Names -> {None} \cup [file : Ids, bytes : Nat]]
          /\ handles' = [handles EXCEPT ![NodeOf[w]] = new]
      BY <1>1 DEF LogTypeOK
    <2>2. new \in [file : Ids, bytes : Nat] /\ new.file = handles[NodeOf[w]].file
      BY <1>2
    <2>3. None \notin [file : Ids, bytes : Nat]
      BY DEF Ids
    <2> HIDE DEF new
    <2> QED
      BY <1>2, <2>1, <2>2, <2>3 DEF Written
  <1> HIDE DEF line, h
  <1>6. /\ Ids' = Ids /\ files' \in Seq(File)
        /\ \A n \in Names : handles'[n] # None => files'[Written(n)'].dir = DirOf[n]
        /\ LinesInv' /\ BatchesWhole' /\ LogsReadInOrder' /\ SymlinkFollowsWriter'
        /\ \A f \in Ids : files'[f].name <= now
        /\ \A n \in Names : handles'[n] # None =>
             \A f \in Ids : \A i \in DOMAIN files'[f].lines :
               files'[f].lines[i].node = n => files'[f].name <= files'[Written(n)'].name
        /\ \A f \in Ids : \A i \in DOMAIN files'[f].lines :
             LET first == Len(files'[f].lines) - job.next
             IN  IF f = h
                   THEN IF i > first
                          THEN /\ files'[f].lines[i].batch = job.batch
                               /\ line.line = job.next => files'[f].lines[i].line = i - first
                          ELSE files'[f].lines[i].batch # job.batch
                   ELSE files'[f].lines[i].batch # job.batch
    <2>1. /\ files' = WithLine(Written(NodeOf[w]), line) /\ pc[w] = "appending"
          /\ UNCHANGED <<symlink, batches, now>>
          /\ line.line \in {0, job.next}
      BY <1>1, <1>4 DEF h, rotationVars
    <2> QED
      BY <1>4, <1>5, <2>1, LineAdded DEF h
  <1>7. LogTypeOK'
    BY <1>1, <1>4, <1>5, <1>6 DEF LogTypeOK, rotationVars
  <1>8. HandleInv' /\ JobInv'
    <2>1. \A v \in Writers : pc'[v] \notin {"opening", "linking"}
      BY <1>1, <1>2 DEF LogTypeOK, Holding, Actors
    <2>2. \A a \in Actors : pc'[a] # "linking"
      BY <1>1, <1>2
    <2>3. \A v \in Writers : pc'[v] = "appending" => handles'[NodeOf[v]] # None
      BY <1>1, <1>5 DEF ContentInv, HandleInv
    <2>4. job'.next # 0
      BY <1>2, <1>4
    <2> QED
      BY <1>1, <1>2, <1>4, <1>6, <2>1, <2>2, <2>3, <2>4 DEF HandleInv, JobInv
  <1>9. YoungestInv'
    BY <1>1, <1>2, <1>6 DEF YoungestInv
  <1>10. PartInv'
    <2>1. job'.next - 1 = job.next /\ h' = h /\ pc'[w] = "appending"
      BY <1>1, <1>2, <1>4, <1>5 DEF h, ContentInv, HandleInv
    <2>2. \A v \in Writers : lock' = v => v = w
      BY <1>1, <1>2
    <2> QED
      BY <1>4, <1>6, <2>1, <2>2 DEF PartInv, h
  <1> QED
    BY <1>6, <1>7, <1>8, <1>9, <1>10 DEF ContentInv

(* A task leaves LogWriter and another may enter.                          *)
LEMMA ActorLeaves ==
  ASSUME LogTypeOK, NEW a \in Actors, pc[a] \in Holding, pc' = Resume(a), lock' = None
  PROVE  /\ PcOK' /\ ~Linking' /\ \A b \in Actors : pc'[b] \notin Holding
         /\ pc'[Rotator] \notin {"sleeping", "visiting"} =>
              a = Rotator \/ pc[Rotator] \notin {"sleeping", "visiting"}
  <1> DEFINE x == IF a = Rotator THEN "scanning" ELSE "idle"
  <1>1. pc' = [pc EXCEPT ![a] = x] /\ x \notin Holding /\ x # "linking"
    BY DEF Resume, Holding
  <1>2. x \in IF a = Rotator THEN RotationPc ELSE WriterPc
    BY DEF RotationPc, WriterPc
  <1>3. PcOK
    BY TypesInParts
  <1> HIDE DEF x
  <1>4. PcOK' /\ ~Linking'
    BY <1>1, <1>2, <1>3, ActorMoves
  <1>5. \A b \in Actors : pc'[b] \notin Holding
    BY <1>4, LogAssumption DEF PcOK, Actors
  <1> QED
    BY <1>1, <1>3, <1>4, <1>5 DEF PcOK, Actors

(* A batch ends, with its last line or with an error.                      *)
LEMMA StepLeave ==
  ASSUME LogTypeOK, ContentInv, NEW a \in Actors,
         (a \in Writers /\ EndBatch(a)) \/ OpenFails(a)
  PROVE  LogTypeOK' /\ ContentInv'
  <1> USE LogAssumption
  <1>1. /\ pc[a] \in Holding /\ pc' = Resume(a) /\ lock' = None /\ job' = NoJob
        /\ UNCHANGED <<handles, files, symlink, batches, rotationVars, now, crashed>>
        /\ \/ opened' = opened /\ pc[a] = "appending"
           \/ opened' = 0
    BY DEF EndBatch, OpenFails, Holding
  <1>2. /\ PcOK' /\ ~Linking' /\ \A b \in Actors : pc'[b] \notin Holding
        /\ pc'[Rotator] \notin {"sleeping", "visiting"} =>
             a = Rotator \/ pc[Rotator] \notin {"sleeping", "visiting"}
    BY <1>1, ActorLeaves
  <1>3. opened' = 0
    <2>1. pc[a] = "appending" => ~Linking
      BY <1>1 DEF LogTypeOK, Linking, Holding
    <2> QED
      BY <1>1, <2>1, TypesInParts
  <1>4. job' \in Job
    BY <1>1 DEF Job, NoJob
  <1>5. Ids' = Ids
    BY <1>1 DEF Ids
  <1>6. pc'[Rotator] \notin {"sleeping", "visiting"} => target' \in Names
    BY <1>1, <1>2 DEF LogTypeOK, rotationVars, Holding
  <1>7. LogTypeOK'
    BY <1>1, <1>2, <1>3, <1>4, <1>5, <1>6 DEF LogTypeOK, PcOK, Linking, rotationVars
  <1>8. ContentInv'
    BY <1>1, <1>2, ContentReleased
  <1> QED
    BY <1>7, <1>8

(* A write fails, perhaps after a part of the line.                        *)
LEMMA StepAppendFails ==
  ASSUME LogTypeOK, ContentInv, NEW w \in Writers, AppendFails(w)
  PROVE  LogTypeOK' /\ ContentInv'
  <1> USE LogAssumption
  <1> DEFINE line == [node |-> job.node, batch |-> job.batch, line |-> 0]
             h == Written(NodeOf[w])
  <1>1. /\ pc[w] = "appending" /\ pc' = Resume(w) /\ lock' = None /\ job' = NoJob
        /\ \/ files' = WithLine(h, line)
           \/ files' = files
        /\ UNCHANGED <<handles, symlink, opened, batches, rotationVars, now, crashed>>
    BY DEF AppendFails, Written
  <1>2. /\ lock = w /\ w \in Actors /\ w # Rotator /\ \A a \in Actors : pc[a] # "linking"
        /\ job.node = NodeOf[w] /\ job.batch = batches /\ NodeOf[w] \in Names
    BY <1>1, AppenderFacts
  <1>3. line \in Line /\ line.node = job.node /\ line.batch = job.batch /\ line.line = 0
    BY <1>2 DEF Line, LogTypeOK
  <1>4. /\ PcOK' /\ ~Linking' /\ \A b \in Actors : pc'[b] \notin Holding
        /\ pc'[Rotator] \notin {"sleeping", "visiting"} => pc[Rotator] \notin {"sleeping", "visiting"}
    BY <1>1, <1>2, ActorLeaves DEF Holding
  <1> HIDE DEF line, h
  <1>5. /\ Ids' = Ids /\ files' \in Seq(File)
        /\ LinesInv' /\ BatchesWhole' /\ LogsReadInOrder' /\ SymlinkFollowsWriter'
        /\ \A n \in Names : handles'[n] # None => files'[Written(n)'].dir = DirOf[n]
        /\ \A f \in Ids : files'[f].name <= now
        /\ \A n \in Names : handles'[n] # None =>
             \A f \in Ids : \A i \in DOMAIN files'[f].lines :
               files'[f].lines[i].node = n => files'[f].name <= files'[Written(n)'].name
    <2>1. \A n \in Names : /\ handles'[n] # None <=> handles[n] # None
                           /\ handles[n] # None => Written(n)' = Written(n)
      BY <1>1 DEF Written
    <2>2. CASE files' = WithLine(h, line)
      BY <1>1, <1>3, <2>1, <2>2, LineAdded DEF h
    <2>3. CASE files' = files
      <3>1. ContentInv'
        BY <1>1, <1>4, <2>3, ContentReleased
      <3> QED
        BY <1>1, <2>3, <3>1 DEF ContentInv, HandleInv, YoungestInv, LogTypeOK, Ids
    <2> QED
      BY <1>1, <2>2, <2>3
  <1>6. job' \in Job
    BY <1>1 DEF Job, NoJob
  <1>7. opened' = 0
    BY <1>1, <1>2 DEF LogTypeOK
  <1>8. LogTypeOK'
    BY <1>1, <1>4, <1>5, <1>6, <1>7 DEF LogTypeOK, PcOK, Linking, rotationVars
  <1>9. HandleInv' /\ JobInv' /\ PartInv' /\ YoungestInv'
    <2>1. \A a \in Actors : pc'[a] \notin {"opening", "linking", "appending"}
      BY <1>4 DEF Holding
    <2>2. \A v \in Writers : lock' # v
      BY <1>1
    <2>3. HandleInv' /\ JobInv'
      BY <1>5, <2>1, <2>2 DEF HandleInv, JobInv, Actors
    <2>4. PartInv'
      BY <2>2 DEF PartInv
    <2>5. YoungestInv'
      BY <1>1, <1>5, <2>1 DEF YoungestInv
    <2> QED
      BY <2>3, <2>4, <2>5
  <1> QED
    BY <1>5, <1>8, <1>9 DEF ContentInv

(* A task gets the mutex for its batch, the next in number.                *)
LEMMA StepStartBatch ==
  ASSUME LogTypeOK, ContentInv, NEW w \in Writers, StartBatch(w)
  PROVE  LogTypeOK' /\ ContentInv'
  <1> USE LogAssumption
  <1> DEFINE x == IF handles[NodeOf[w]] = None THEN "opening" ELSE "appending"
  <1>1. /\ pc[w] = "idle" /\ lock = None /\ lock' = w /\ batches' = batches + 1
        /\ pc' = [pc EXCEPT ![w] = x]
        /\ UNCHANGED <<handles, files, symlink, opened, rotationVars, now, crashed>>
    BY DEF StartBatch
  <1>2. PICK size \in BatchSizes :
          job' = [node |-> NodeOf[w], batch |-> batches + 1, size |-> size, next |-> 1]
    BY DEF StartBatch
  <1>3. w \in Actors /\ w # Rotator /\ x \in WriterPc /\ x \in Holding /\ x # "linking"
    BY DEF Actors, WriterPc, Holding
  <1>4. PcOK /\ batches \in Nat /\ batches' \in Nat
    BY <1>1 DEF LogTypeOK, PcOK
  <1> HIDE DEF x
  <1>5. PcOK' /\ ~Linking' /\ \A a \in Actors \ {w} : pc'[a] \notin Holding
    <2>1. PcOK' /\ ~Linking'
      BY <1>1, <1>3, <1>4, ActorMoves
    <2> QED
      BY <1>1, <2>1 DEF PcOK
  <1>6. ~Linking /\ opened = 0
    <2>1. ~Linking
      BY <1>1 DEF LogTypeOK, Linking, Holding, Actors
    <2> QED
      BY <2>1, TypesInParts
  <1>7. /\ job' \in Job /\ job'.node = NodeOf[w] /\ job'.batch = batches' /\ job'.next = 1
    BY <1>1, <1>2, <1>4 DEF Job
  <1>8. Ids' = Ids /\ \A n \in Names : Written(n)' = Written(n)
    BY <1>1 DEF Ids, Written
  <1>9. LogTypeOK'
    <2>1. pc'[Rotator] = pc[Rotator]
      BY <1>1, <1>3, <1>4 DEF PcOK, Actors
    <2> QED
      BY <1>1, <1>4, <1>5, <1>6, <1>7, <1>8, <2>1 DEF LogTypeOK, PcOK, Linking, rotationVars
  <1>10. HandleInv'
    <2>1. \A v \in Writers : pc'[v] = "appending" => handles'[NodeOf[v]] # None
      BY <1>1, <1>4, <1>5 DEF PcOK, Actors, Holding, x
    <2> QED
      BY <1>1, <1>5, <1>8, <2>1 DEF ContentInv, HandleInv, Linking
  <1>11. JobInv'
    BY <1>1, <1>7 DEF JobInv
  <1>12. LinesInv'
    <2>1. ASSUME NEW f \in Ids, NEW i \in DOMAIN files[f].lines
          PROVE  /\ DirOf[files[f].lines[i].node] = files[f].dir
                 /\ files[f].lines[i].batch <= batches + 1
                 /\ files[f].lines[i].batch # batches + 1
      <3>1. files[f].lines[i].batch \in Nat
        BY FileTypes
      <3> QED
        BY <1>4, <3>1 DEF ContentInv, LinesInv
    <2> QED
      BY <1>1, <1>8, <2>1 DEF LinesInv
  <1>13. PartInv'
    <2>1. ASSUME NEW f \in Ids, NEW i \in DOMAIN files[f].lines
          PROVE  files[f].lines[i].batch # job'.batch /\ ~(i > Len(files[f].lines) - (job'.next - 1))
      <3>1. files[f].lines[i].batch \in Nat /\ i \in 1..Len(files[f].lines) /\ Len(files[f].lines) \in Nat
        BY FileTypes
      <3>2. files[f].lines[i].batch <= batches
        BY DEF ContentInv, LinesInv
      <3> QED
        BY <1>1, <1>4, <1>7, <3>1, <3>2
    <2> QED
      BY <1>1, <1>8, <2>1 DEF PartInv
  <1>14. YoungestInv'
    BY <1>1, <1>5, <1>8 DEF ContentInv, YoungestInv, Linking
  <1>15. BatchesWhole' /\ LogsReadInOrder' /\ SymlinkFollowsWriter'
    BY <1>1, <1>8 DEF ContentInv, BatchesWhole, LogsReadInOrder, SymlinkFollowsWriter
  <1> QED
    BY <1>9, <1>10, <1>11, <1>12, <1>13, <1>14, <1>15 DEF ContentInv

(* The process is killed and started again.                                *)
LEMMA StepCrash ==
  ASSUME LogTypeOK, ContentInv, Crash
  PROVE  LogTypeOK' /\ ContentInv'
  <1> USE LogAssumption
  <1>1. /\ pc' = [a \in Actors |-> IF a = Rotator THEN "sleeping" ELSE "idle"]
        /\ lock' = None /\ job' = NoJob /\ handles' = [n \in Names |-> None]
        /\ opened' = 0 /\ visit' = {} /\ target' = None /\ doomed' = {}
        /\ wakeAt' = now + Frequency
        /\ UNCHANGED <<files, symlink, batches, now>>
        /\ Ids' = Ids
    BY DEF Crash, Ids
  <1>2. \A a \in Actors : pc'[a] \notin Holding /\ lock' # a
    BY <1>1 DEF Actors, Holding
  <1>3. LogTypeOK'
    <2>1. PcOK' /\ ~Linking' /\ pc'[Rotator] = "sleeping"
      BY <1>1, <1>2 DEF PcOK, Linking, Holding, Actors, WriterPc, RotationPc
    <2>2. job' \in Job /\ wakeAt' \in Nat
      BY <1>1 DEF Job, NoJob, LogTypeOK
    <2>3. handles' \in [Names -> {None} \cup [file : Ids', bytes : Nat]]
      BY <1>1
    <2>4. crashed' \in BOOLEAN
      BY DEF Crash
    <2> QED
      BY <1>1, <2>1, <2>2, <2>3, <2>4 DEF LogTypeOK, PcOK, Linking
  <1>4. ContentInv'
    BY <1>1, <1>2, ContentReleased
  <1> QED
    BY <1>3, <1>4

-----------------------------------------------------------------------------
(* Opening a file                                                          *)

(* A task that opens a file holds the mutex and has a name to open it for. *)
LEMMA OpenerFacts ==
  ASSUME LogTypeOK, ContentInv, NEW a \in Actors, pc[a] \in {"opening", "linking"}
  PROVE  /\ lock = a /\ \A b \in Actors : pc[b] \in Holding => b = a
         /\ NameOf(a) \in Names /\ DirOf[NameOf(a)] \in Dirs
         /\ a \in Writers => NameOf(a) = NodeOf[a] /\ job.node = NodeOf[a] /\ job.next = 1
         /\ \A w \in Writers : lock = w =>
              \A f \in Ids : \A i \in DOMAIN files[f].lines :
                files[f].lines[i].batch # job.batch
  <1> USE LogAssumption
  <1>1. lock = a /\ \A b \in Actors : pc[b] \in Holding => b = a
    BY DEF LogTypeOK, Holding
  <1>2. a \in Writers => NameOf(a) = NodeOf[a] /\ NodeOf[a] \in Names
    BY DEF NameOf
  <1>3. a = Rotator => NameOf(a) \in Names
    BY DEF NameOf, LogTypeOK
  <1>4. \A w \in Writers : lock = w =>
          \A f \in Ids : \A i \in DOMAIN files[f].lines :
            files[f].lines[i].batch # job.batch
    BY <1>1 DEF ContentInv, PartInv
  <1>5. a \in Writers => job.node = NodeOf[a] /\ job.next = 1
    BY <1>1 DEF ContentInv, JobInv
  <1> QED
    BY <1>1, <1>2, <1>3, <1>4, <1>5 DEF Actors

(* Of the files a present one of this second is opened again, or one is    *)
(* created.                                                                *)
LEMMA OpenFileFacts ==
  ASSUME LogTypeOK, ContentInv, NEW a \in Actors, OpenFile(a)
  PROVE  /\ files' \in Seq(File) /\ Ids \subseteq Ids' /\ opened' \in Ids' /\ opened' # 0
         /\ \A f \in Ids : files'[f] = files[f]
         /\ \A f \in Ids' \ Ids : /\ f = opened' /\ DOMAIN files'[f].lines = {}
                                  /\ files'[f].mtime = now
         /\ files'[opened'].dir = DirOf[NameOf(a)] /\ files'[opened'].name = now
         /\ files'[opened'].linked
         /\ opened' \notin Ids =>
              \A f \in Present(DirOf[NameOf(a)]) : files[f].name # now
  <1> DEFINE d == DirOf[NameOf(a)]
             same == {f \in Present(d) : files[f].name = now}
             new == [dir |-> d, name |-> now, lines |-> << >>, mtime |-> now, linked |-> TRUE]
  <1>1. d \in Dirs
    BY OpenerFacts DEF OpenFile
  <1>2. Len(files) \in Nat /\ Ids = 1..Len(files)
    BY LenProperties DEF LogTypeOK, Ids
  <1>3. CASE opened' \in same /\ UNCHANGED files
    <2>1. files[opened'].linked
      BY <1>3 DEF Present
    <2> QED
      BY <1>2, <1>3, <2>1 DEF Ids, Present, LogTypeOK
  <1>4. CASE same = {} /\ files' = Append(files, new) /\ opened' = Len(files) + 1
    <2>1. << >> \in Seq(Line) /\ DOMAIN << >> = {}
      BY EmptySeq
    <2>2. new \in File
      BY <1>1, <2>1 DEF File, LogTypeOK
    <2>3. /\ files' \in Seq(File) /\ Len(files') = Len(files) + 1
          /\ \A g \in Ids : files'[g] = files[g]
          /\ files'[Len(files) + 1] = new
          /\ 1..(Len(files) + 1) = Ids \cup {Len(files) + 1}
          /\ Len(files) + 1 \notin Ids
      BY <1>4, <2>2, CreatedFacts
    <2>4. Ids' = Ids \cup {opened'}
      BY <1>4, <2>3 DEF Ids
    <2>5. opened' # 0
      BY <1>2, <1>4
    <2> QED
      BY <1>2, <1>4, <2>1, <2>3, <2>4, <2>5
  <1> QED
    BY <1>3, <1>4 DEF OpenFile

(* A file is opened for the holder of the mutex.                           *)
LEMMA StepOpenFile ==
  ASSUME LogTypeOK, ContentInv, NEW a \in Actors, OpenFile(a)
  PROVE  LogTypeOK' /\ ContentInv'
  <1> USE LogAssumption
  <1>1. /\ pc[a] = "opening" /\ pc' = [pc EXCEPT ![a] = "linking"]
        /\ UNCHANGED <<lock, handles, symlink, job, batches, rotationVars, now, crashed>>
    BY DEF OpenFile
  <1>2. /\ files' \in Seq(File) /\ Ids \subseteq Ids' /\ opened' \in Ids' /\ opened' # 0
        /\ \A f \in Ids : files'[f] = files[f]
        /\ \A f \in Ids' \ Ids : f = opened' /\ DOMAIN files'[f].lines = {}
        /\ files'[opened'].dir = DirOf[NameOf(a)] /\ files'[opened'].name = now
    BY OpenFileFacts
  <1>3. /\ lock = a /\ \A b \in Actors : pc[b] \in Holding => b = a
        /\ NameOf(a) \in Names
        /\ \A w \in Writers : lock = w =>
             \A f \in Ids : \A i \in DOMAIN files[f].lines :
               files[f].lines[i].batch # job.batch
    BY <1>1, OpenerFacts
  <1>4. PcOK' /\ Linking' /\ \A b \in Actors : pc'[b] \in Holding => b = a
    <2>1. PcOK /\ "linking" \in IF a = Rotator THEN RotationPc ELSE WriterPc
      BY TypesInParts DEF RotationPc, WriterPc
    <2>2. PcOK' /\ Linking'
      BY <1>1, <1>3, <2>1, ActorMoves DEF Holding
    <2> QED
      BY <1>1, <1>3, <2>2 DEF PcOK
  <1>5. \A b \in Actors : pc'[b] = "linking" => b = a /\ NameOf(b)' = NameOf(a)
    BY <1>1, <1>4 DEF Holding, NameOf, rotationVars
  <1>6. \A b \in Actors : pc'[b] # "appending"
    BY <1>1, <1>4 DEF Holding, LogTypeOK
  <1>7. \A n \in Names : /\ Written(n)' = Written(n)
                         /\ handles[n] # None => Written(n) \in Ids
    BY <1>1 DEF Written, LogTypeOK
  <1>8. LogTypeOK'
    <2>1. pc'[Rotator] \notin {"sleeping", "visiting"} => target' \in Names
      BY <1>1 DEF LogTypeOK, Actors, rotationVars
    <2>2. handles' \in [Names -> {None} \cup [file : Ids', bytes : Nat]]
      <3>1. handles \in [Names -> {None} \cup [file : Ids, bytes : Nat]]
        BY DEF LogTypeOK
      <3>2. [file : Ids, bytes : Nat] \subseteq [file : Ids', bytes : Nat]
        BY <1>2
      <3> HIDE DEF Ids
      <3> QED
        BY <1>1, <3>1, <3>2
    <2>3. doomed' \subseteq Ids'
      BY <1>1, <1>2 DEF LogTypeOK, rotationVars
    <2> QED
      BY <1>1, <1>2, <1>4, <2>1, <2>2, <2>3 DEF LogTypeOK, PcOK, Linking, rotationVars
  <1>9. HandleInv'
    BY <1>1, <1>2, <1>5, <1>6, <1>7 DEF ContentInv, HandleInv, Actors
  <1>10. JobInv'
    <2>1. \A w \in Writers : pc'[w] \in {"opening", "linking"} => pc[w] \in {"opening", "linking"}
      BY <1>1, <1>4 DEF Holding, Actors
    <2> QED
      BY <1>1, <2>1 DEF ContentInv, JobInv
  <1>11. LinesInv'
    BY <1>1, <1>2 DEF ContentInv, LinesInv
  <1>12. PartInv'
    BY <1>1, <1>2, <1>3, <1>6 DEF PartInv, Actors
  <1>13. BatchesWhole'
    <2>1. \A f \in Ids' : (f \in Ids /\ files'[f] = files[f]) \/ DOMAIN files'[f].lines = {}
      BY <1>2
    <2>2. /\ \A f \in Ids : \A i, j \in DOMAIN files[f].lines :
               LET s == files[f].lines
               IN  i < j /\ s[i].batch = s[j].batch =>
                     \A k \in i..j : /\ s[k].batch = s[i].batch
                                     /\ s[k].line \in {0, s[i].line + (k - i)}
          /\ \A f, g \in Ids : f # g =>
               \A i \in DOMAIN files[f].lines, j \in DOMAIN files[g].lines :
                 files[f].lines[i].batch # files[g].lines[j].batch
      BY DEF ContentInv, BatchesWhole
    <2>3. ASSUME NEW f \in Ids', NEW i \in DOMAIN files'[f].lines
          PROVE  f \in Ids /\ files'[f] = files[f]
      BY <2>1, <2>3
    <2>4. \A f \in Ids' : \A i, j \in DOMAIN files'[f].lines :
            LET s == files'[f].lines
            IN  i < j /\ s[i].batch = s[j].batch =>
                  \A k \in i..j : /\ s[k].batch = s[i].batch
                                  /\ s[k].line \in {0, s[i].line + (k - i)}
      BY <2>2, <2>3
    <2>5. \A f, g \in Ids' : f # g =>
            \A i \in DOMAIN files'[f].lines, j \in DOMAIN files'[g].lines :
              files'[f].lines[i].batch # files'[g].lines[j].batch
      BY <2>2, <2>3
    <2> QED
      BY <2>4, <2>5 DEF BatchesWhole
  <1>14. LogsReadInOrder'
    BY <1>2 DEF ContentInv, LogsReadInOrder
  <1>15. SymlinkFollowsWriter'
    <2>1. \A n \in Names : handles[n] # None => files'[handles[n].file].name = files[handles[n].file].name
      BY <1>2, <1>7 DEF Written
    <2> QED
      BY <1>1, <2>1 DEF ContentInv, SymlinkFollowsWriter
  <1>16. YoungestInv'
    <2>1. \A f \in Ids' : files'[f].name <= now
      BY SMTT(60), <1>2 DEF ContentInv, YoungestInv, LogTypeOK
    <2>2. \A n \in Names : handles'[n] # None =>
            \A f \in Ids' : \A i \in DOMAIN files'[f].lines :
              files'[f].lines[i].node = n => files'[f].name <= files'[Written(n)'].name
      BY <1>1, <1>2, <1>7 DEF ContentInv, YoungestInv
    <2> QED
      BY <1>1, <1>2, <1>5, <2>1, <2>2 DEF YoungestInv
  <1> QED
    BY <1>8, <1>9, <1>10, <1>11, <1>12, <1>13, <1>14, <1>15, <1>16 DEF ContentInv

(* The symlink and the handle move to the opened file together.            *)
LEMMA StepLinkFile ==
  ASSUME LogTypeOK, ContentInv, NEW a \in Actors, LinkFile(a)
  PROVE  LogTypeOK' /\ ContentInv'
  <1> USE LogAssumption
  <1> DEFINE n == NameOf(a)
             new == [file |-> opened, bytes |-> 0]
             x == IF a = Rotator THEN "scanning" ELSE "appending"
  <1>1. /\ pc[a] = "linking" /\ pc' = [pc EXCEPT ![a] = x]
        /\ symlink' = [symlink EXCEPT ![DirOf[n]] = files[opened].name]
        /\ handles' = [handles EXCEPT ![n] = new]
        /\ opened' = 0
        /\ lock' = IF a = Rotator THEN None ELSE lock
        /\ UNCHANGED <<files, job, batches, rotationVars, now, crashed>>
    BY DEF LinkFile, Resume
  <1>2. /\ lock = a /\ \A b \in Actors : pc[b] \in Holding => b = a
        /\ n \in Names /\ DirOf[n] \in Dirs
        /\ a \in Writers => n = NodeOf[a] /\ job.node = NodeOf[a] /\ job.next = 1
        /\ \A w \in Writers : lock = w =>
             \A f \in Ids : \A i \in DOMAIN files[f].lines :
               files[f].lines[i].batch # job.batch
    BY <1>1, OpenerFacts
  <1>3. opened \in Ids /\ files[opened].dir = DirOf[n] /\ files[opened].name \in Nat
    <2>1. opened \in Ids
      BY <1>1 DEF LogTypeOK
    <2> QED
      BY <1>1, <2>1, FileTypes DEF ContentInv, HandleInv
  <1>4. /\ new \in [file : Ids, bytes : Nat] /\ new # None /\ new.file = opened
        /\ handles'[n] = new
    <2>1. Ids \subseteq Nat
      BY DEF Ids
    <2> QED
      BY <1>1, <1>2, <1>3, <2>1 DEF LogTypeOK
  <1>5. Ids' = Ids
    BY <1>1 DEF Ids
  <1>6. PcOK' /\ ~Linking' /\ \A b \in Actors : pc'[b] \in Holding => b = a
    <2>1. PcOK /\ x \in IF a = Rotator THEN RotationPc ELSE WriterPc
      BY TypesInParts DEF RotationPc, WriterPc
    <2>2. PcOK' /\ ~Linking'
      BY <1>1, <1>2, <2>1, ActorMoves DEF Holding
    <2> QED
      BY <1>1, <1>2, <2>2 DEF PcOK
  <1> HIDE DEF n, new, x
  <1>7. \A m \in Names : handles'[m] = IF m = n THEN new ELSE handles[m]
    BY <1>1, <1>2 DEF LogTypeOK
  <1>8. LogTypeOK'
    <2>1. handles' \in [Names -> {None} \cup [file : Ids, bytes : Nat]]
      BY <1>1, <1>4 DEF LogTypeOK
    <2>2. symlink' \in [Dirs -> {None} \cup Nat]
      BY <1>1, <1>3 DEF LogTypeOK
    <2>3. pc'[Rotator] \notin {"sleeping", "visiting"} => target' \in Names
      BY <1>1 DEF LogTypeOK, Actors, rotationVars
    <2> QED
      BY <1>1, <1>5, <1>6, <2>1, <2>2, <2>3 DEF LogTypeOK, PcOK, Linking, rotationVars
  <1>9. HandleInv'
    <2>1. \A w \in Writers : pc'[w] = "appending" => handles'[NodeOf[w]] # None
      BY <1>2, <1>4, <1>6 DEF Holding, Actors
    <2>2. \A m \in Names : handles'[m] # None => files'[Written(m)'].dir = DirOf[m]
      BY <1>1, <1>3, <1>4, <1>7 DEF ContentInv, HandleInv, Written
    <2> QED
      BY <1>6, <2>1, <2>2 DEF HandleInv, Linking
  <1>10. JobInv'
    <2>1. \A w \in Writers : /\ pc'[w] \notin {"opening", "linking"}
                             /\ lock' = w => lock = w
      BY <1>1, <1>2, <1>6 DEF Holding, Actors, PcOK, x, LogTypeOK
    <2> QED
      BY <1>1, <2>1 DEF ContentInv, JobInv
  <1>11. LinesInv' /\ BatchesWhole' /\ LogsReadInOrder'
    BY <1>1, <1>5 DEF ContentInv, LinesInv, BatchesWhole, LogsReadInOrder
  <1>12. PartInv'
    <2>1. ASSUME NEW w \in Writers, lock' = w, NEW f \in Ids, NEW i \in DOMAIN files[f].lines
          PROVE  /\ files[f].lines[i].batch # job.batch
                 /\ ~(i > Len(files[f].lines) - (job.next - 1))
      <3>1. lock = w /\ a = w /\ job.next = 1
        BY <1>1, <1>2, <2>1
      <3>2. i \in 1..Len(files[f].lines) /\ Len(files[f].lines) \in Nat
        BY FileTypes
      <3> QED
        BY <1>2, <3>1, <3>2
    <2> QED
      BY <1>1, <1>5, <2>1 DEF PartInv
  <1>13. SymlinkFollowsWriter'
    <2>1. ASSUME NEW m \in Names, handles'[m] # None
          PROVE  \E k \in Names : /\ DirOf[k] = DirOf[m] /\ handles'[k] # None
                                  /\ symlink'[DirOf[m]] = files'[handles'[k].file].name
      <3>1. CASE DirOf[m] = DirOf[n]
        <4>1. symlink'[DirOf[m]] = files[opened].name
          BY <1>1, <1>2, <3>1 DEF LogTypeOK
        <4> QED
          BY <1>1, <1>2, <1>4, <3>1, <4>1
      <3>2. CASE DirOf[m] # DirOf[n]
        <4>1. symlink'[DirOf[m]] = symlink[DirOf[m]]
          BY <1>1, <3>2 DEF LogTypeOK
        <4>2. handles[m] # None
          BY <1>7, <2>1, <3>2
        <4>3. PICK k \in Names : /\ DirOf[k] = DirOf[m] /\ handles[k] # None
                                 /\ symlink[DirOf[m]] = files[handles[k].file].name
          BY <4>2 DEF ContentInv, SymlinkFollowsWriter
        <4> QED
          BY <1>1, <1>7, <3>2, <4>1, <4>3
      <3> QED
        BY <3>1, <3>2
    <2> QED
      BY <2>1 DEF SymlinkFollowsWriter
  <1>14. YoungestInv'
    <2>1. ASSUME NEW m \in Names, handles'[m] # None, NEW f \in Ids,
                 NEW i \in DOMAIN files[f].lines, files[f].lines[i].node = m
          PROVE  files[f].name <= files[Written(m)'].name
      <3>1. CASE m = n
        BY <1>1, <1>4, <2>1, <3>1 DEF ContentInv, YoungestInv, Written, n
      <3>2. CASE m # n
        BY <1>7, <2>1, <3>2 DEF ContentInv, YoungestInv, Written
      <3> QED
        BY <3>1, <3>2
    <2>2. \A f \in Ids : files[f].name <= now
      BY DEF ContentInv, YoungestInv
    <2> QED
      BY <1>1, <1>5, <1>6, <2>1, <2>2 DEF YoungestInv, Linking
  <1> QED
    BY <1>8, <1>9, <1>10, <1>11, <1>12, <1>13, <1>14 DEF ContentInv

(* Every step keeps the types and the content.                             *)
LEMMA LogInvStep == LogTypeOK /\ ContentInv /\ [LogNext]_logVars => LogTypeOK' /\ ContentInv'
  <1> SUFFICES ASSUME LogTypeOK, ContentInv, [LogNext]_logVars
               PROVE  LogTypeOK' /\ ContentInv'
    OBVIOUS
  <1>1. ASSUME NEW w \in Writers, WriterStep(w)
        PROVE  LogTypeOK' /\ ContentInv'
    BY <1>1, StepStartBatch, StepAppendLine, StepAppendFails, StepLeave DEF WriterStep, Actors
  <1>2. ASSUME NEW a \in Actors, OpenStep(a)
        PROVE  LogTypeOK' /\ ContentInv'
    BY <1>2, StepOpenFile, StepLinkFile, StepLeave DEF OpenStep
  <1>3. CASE RotationStep \/ Tick
    BY <1>3, StepQuiet DEF RotationStep
  <1>4. CASE Crash
    BY <1>4, StepCrash
  <1>5. CASE UNCHANGED logVars
    <2> USE <1>5 DEF logVars, writerVars, rotationVars
    <2>1. LogTypeOK'
      BY DEF LogTypeOK, Ids
    <2>2. ContentInv'
      BY ContentKept DEF LogTypeOK
    <2> QED
      BY <2>1, <2>2
  <1> QED
    BY <1>1, <1>2, <1>3, <1>4, <1>5 DEF LogNext

(* The types and the content hold throughout.                              *)
LEMMA LogInvCorrect == LogSpec => [](LogTypeOK /\ ContentInv)
  BY LogInvInit, LogInvStep, PTL DEF LogSpec

-----------------------------------------------------------------------------
(* What the logs hold                                                      *)

(* Exactly the task that holds LogWriter's mutex is inside it, and every   *)
(* variable has its type: any number of trace tasks write, the rotation    *)
(* task opens and prunes, calls fail and the process restarts.             *)
THEOREM LogTypesAndMutex == LogSpec => []LogTypeOK
  BY LogInvCorrect, PTL

(* A batch stands in one file, together and in order.  What there is of    *)
(* the job of the mutex's holder is the end of the file it writes to, and  *)
(* no other file has a line of it: so it stays while the task goes on, and *)
(* when an error, a rotation or a restart cuts it short nobody adds to it. *)
THEOREM LogBatchesAreWhole == LogSpec => []BatchesWhole
  <1>1. ContentInv => BatchesWhole
    BY DEF ContentInv
  <1> QED
    BY <1>1, LogInvCorrect, PTL

(* A node's files read by name give its batches in the order in which they *)
(* were logged: the file that is written to is the youngest with lines of  *)
(* its node.                                                               *)
THEOREM LogsReadAsWritten == LogSpec => []LogsReadInOrder
  <1>1. ContentInv => LogsReadInOrder
    BY DEF ContentInv
  <1> QED
    BY <1>1, LogInvCorrect, PTL

(* The symlink names a file some handle of its directory writes to,        *)
(* although an error may come between the parts of open_new_file.          *)
THEOREM LogSymlinkIsCurrent == LogSpec => []SymlinkFollowsWriter
  <1>1. ContentInv => SymlinkFollowsWriter
    BY DEF ContentInv
  <1> QED
    BY <1>1, LogInvCorrect, PTL

-----------------------------------------------------------------------------
(* Writing, pruning and sets of files                                      *)

(* A line touches the file's mtime and lines only.                         *)
LEMMA LineWrittenFacts ==
  ASSUME LogTypeOK, ContentInv, NEW w \in Writers, AppendLine(w) \/ AppendFails(w)
  PROVE  /\ Ids' = Ids
         /\ \A g \in Ids : /\ files'[g].dir = files[g].dir /\ files'[g].name = files[g].name
                           /\ files'[g].linked = files[g].linked
                           /\ \/ files'[g].mtime = files[g].mtime
                              \/ g = Written(NodeOf[w]) /\ files'[g].mtime = now
  <1> DEFINE h == Written(NodeOf[w])
  <1>1. /\ pc[w] = "appending"
        /\ \/ UNCHANGED files
           \/ \E l \in {0, job.next} :
                files' = WithLine(h, [node |-> job.node, batch |-> job.batch, line |-> l])
    BY DEF AppendLine, AppendFails, Written
  <1>2. /\ h \in Ids /\ job.node = NodeOf[w] /\ NodeOf[w] \in Names
        /\ job.next \in Nat /\ job.batch \in Nat
    BY <1>1, AppenderFacts DEF LogTypeOK
  <1>3. files[h] \in File
    BY <1>2, FileTypes
  <1> HIDE DEF h
  <1>4. CASE UNCHANGED files
    BY <1>4 DEF Ids
  <1>5. ASSUME NEW l \in {0, job.next},
               files' = WithLine(h, [node |-> job.node, batch |-> job.batch, line |-> l])
        PROVE  /\ Ids' = Ids
               /\ \A g \in Ids : /\ files'[g].dir = files[g].dir /\ files'[g].name = files[g].name
                                 /\ files'[g].linked = files[g].linked
                                 /\ \/ files'[g].mtime = files[g].mtime
                                    \/ g = h /\ files'[g].mtime = now
    <2> DEFINE line == [node |-> job.node, batch |-> job.batch, line |-> l]
    <2>1. line \in Line
      BY <1>2 DEF Line
    <2> HIDE DEF line
    <2>2. /\ Len(files') = Len(files)
          /\ \A g \in Ids \ {h} : files'[g] = files[g]
          /\ files'[h] = [files[h] EXCEPT !.lines = Append(files[h].lines, line), !.mtime = now]
      BY <1>2, <1>5, <2>1, WithLineFacts DEF line
    <2>3. /\ files'[h].dir = files[h].dir /\ files'[h].name = files[h].name
          /\ files'[h].linked = files[h].linked /\ files'[h].mtime = now
      BY <1>3, <2>2 DEF File
    <2> QED
      BY <2>2, <2>3 DEF Ids
  <1> QED
    BY <1>1, <1>4, <1>5 DEF h

(* The smaller of two numbers.                                             *)
LEMMA MinOfTwo ==
  ASSUME NEW a \in Nat, NEW b \in Nat
  PROVE  Min({a, b}) = IF a <= b THEN a ELSE b
  BY DEF Min

(* Sets of files are finite.                                               *)
LEMMA FilesFinite ==
  ASSUME LogTypeOK, NEW S \in SUBSET Ids
  PROVE  /\ IsFiniteSet(S) /\ Cardinality(S) \in Nat
         /\ \A T \in SUBSET S : IsFiniteSet(T) /\ Cardinality(T) <= Cardinality(S)
                                /\ Cardinality(T) \in Nat
                                /\ (Cardinality(T) = Cardinality(S) => T = S)
  <1>1. Len(files) \in Nat
    BY LenProperties DEF LogTypeOK
  <1>2. IsFiniteSet(Ids)
    BY <1>1, FS_Interval DEF Ids
  <1>3. IsFiniteSet(S)
    BY <1>2, FS_Subset
  <1> QED
    BY <1>3, FS_Subset, FS_CardinalityType

-----------------------------------------------------------------------------
(* The file that is written to                                             *)

(* A directory is one name's, two files are kept, none is removed for its  *)
(* age, and the symlink can always be made.                                *)
OneWriterPerDir ==
  /\ \A m, n \in Names : DirOf[m] = DirOf[n] => m = n
  /\ KeepFiles >= 2 /\ MaxAge = 0
  /\ "link" \notin Failures

(* Of two spared files that are no older than one that is removed, one is  *)
(* its successor.                                                          *)
LEMMA ScanSparesSuccessor ==
  ASSUME LogTypeOK, AgesInv, OneWriterPerDir, ScanFiles, NEW f \in doomed'
  PROVE  \E g \in Ids : files[g].dir = files[f].dir /\ files[f].name < files[g].name
  <1> DEFINE S == Present(DirOf[target])
  <1>1. PICK K \in SUBSET S : Newest(S, K) /\ f \in S \ K
    BY DEF ScanFiles, OneWriterPerDir, TooOld
  <1>2. /\ S \subseteq Ids
        /\ \A g, h \in S : files[g].dir = files[h].dir /\ files[g].linked /\ files[h].linked
    BY DEF Present
  <1> HIDE DEF S
  <1>3. /\ IsFiniteSet(K) /\ Cardinality(S) \in Nat /\ Cardinality(K) \in Nat
        /\ Cardinality(K) <= Cardinality(S) /\ Cardinality(K) # Cardinality(S)
    <2>1. /\ Cardinality(S) \in Nat
          /\ \A T \in SUBSET S : IsFiniteSet(T) /\ Cardinality(T) <= Cardinality(S)
                                 /\ Cardinality(T) \in Nat
                                 /\ (Cardinality(T) = Cardinality(S) => T = S)
      BY <1>2, FilesFinite
    <2>2. K # S
      BY <1>1
    <2> QED
      BY <1>1, <2>1, <2>2
  <1>4. Cardinality(K) >= 2
    <2>1. Cardinality(K) = Min({KeepFiles, Cardinality(S)}) /\ KeepFiles \in Nat
      BY <1>1, LogAssumption DEF Newest
    <2> QED
      BY <1>3, <2>1, MinOfTwo DEF OneWriterPerDir
  <1>5. \E g, h \in K : g # h
    <2>1. Cardinality(K) # 0 /\ Cardinality(K) # 1
      BY <1>3, <1>4
    <2>2. PICK g \in K : TRUE
      BY <1>3, <2>1, FS_EmptySet
    <2>3. K # {g}
      BY <2>1, FS_Singleton
    <2> QED
      BY <2>2, <2>3
  <1>6. PICK g \in K, h \in K : g # h
    BY <1>5
  <1>7. /\ f \in Ids /\ g \in Ids /\ h \in Ids /\ f # g /\ f # h
        /\ files[f].mtime <= files[g].mtime /\ files[f].mtime <= files[h].mtime
        /\ files[g].dir = files[f].dir /\ files[h].dir = files[f].dir
        /\ files[f].linked /\ files[g].linked /\ files[h].linked
    BY <1>1, <1>2 DEF Newest
  <1>8. /\ files[f].name \in Nat /\ files[g].name \in Nat /\ files[h].name \in Nat
        /\ files[f].mtime \in Nat /\ files[g].mtime \in Nat /\ files[h].mtime \in Nat
    BY <1>7, FileTypes
  <1>9. /\ files[f].name # files[g].name /\ files[f].name # files[h].name
        /\ files[g].name # files[h].name
        /\ files[f].name <= files[f].mtime
        /\ files[g].name < files[h].name => files[g].mtime <= files[h].name
        /\ files[h].name < files[g].name => files[h].mtime <= files[g].name
    BY <1>6, <1>7 DEF AgesInv
  <1>10. files[f].name < files[g].name \/ files[f].name < files[h].name
    BY <1>7, <1>8, <1>9
  <1> QED
    BY <1>7, <1>10

(* The files keep following each other.                                    *)
LEMMA AgesStep ==
  ASSUME LogTypeOK, ContentInv, SuccessionInv, [LogNext]_logVars
  PROVE  AgesInv'
  <1> USE LogAssumption
  <1>1. ASSUME NEW w \in Writers, AppendLine(w) \/ AppendFails(w)
        PROVE  AgesInv'
    <2> DEFINE h == Written(NodeOf[w])
    <2>1. /\ Ids' = Ids /\ now' = now
          /\ \A g \in Ids : /\ files'[g].dir = files[g].dir /\ files'[g].name = files[g].name
                            /\ files'[g].linked = files[g].linked
                            /\ \/ files'[g].mtime = files[g].mtime
                               \/ g = h /\ files'[g].mtime = now
      BY <1>1, LineWrittenFacts DEF AppendLine, AppendFails
    <2>2. /\ h \in Ids /\ files[h].dir = DirOf[NodeOf[w]] /\ NodeOf[w] \in Names
          /\ handles[NodeOf[w]] # None /\ pc[Rotator] # "linking"
      BY <1>1, AppenderFacts DEF AppendLine, AppendFails, Actors, ContentInv, HandleInv
    <2>3. \A g \in Ids : files[g].dir = files[h].dir => files[g].name <= files[h].name
      BY <2>2 DEF SuccessionInv, NewestInv
    <2>4. \A g \in Ids : files[g].name \in Nat /\ files[g].mtime \in Nat /\ now \in Nat
      BY FileTypes DEF LogTypeOK
    <2> HIDE DEF h
    <2>5. \A f, g \in Ids : files[f].dir = files[g].dir /\ files[f].name < files[g].name =>
            files'[f].mtime <= files[g].name
      <3>1. \A g \in Ids : files[h].dir = files[g].dir => ~(files[h].name < files[g].name)
        BY <2>2, <2>3, <2>4
      <3> QED
        BY <2>1, <3>1 DEF SuccessionInv, AgesInv
    <2>6. \A f \in Ids : files'[f].name <= files'[f].mtime /\ files'[f].mtime <= now
      BY <2>1, <2>4 DEF SuccessionInv, AgesInv
    <2> QED
      BY <2>1, <2>5, <2>6 DEF SuccessionInv, AgesInv
  <1>2. ASSUME NEW a \in Actors, OpenFile(a)
        PROVE  AgesInv'
    <2>1. /\ Ids \subseteq Ids' /\ opened' \in Ids' /\ now' = now
          /\ \A f \in Ids : files'[f] = files[f]
          /\ \A f \in Ids' \ Ids : f = opened' /\ files'[f].mtime = now
          /\ files'[opened'].dir = DirOf[NameOf(a)] /\ files'[opened'].name = now
          /\ opened' \notin Ids =>
               \A f \in Present(DirOf[NameOf(a)]) : files[f].name # now
      BY <1>2, OpenFileFacts DEF OpenFile
    <2>2. \A g \in Ids : files[g].name \in Nat /\ files[g].mtime \in Nat /\ now \in Nat
      BY FileTypes DEF LogTypeOK
    <2>3. now \in Nat
      BY DEF LogTypeOK
    <2>4. \A f \in Ids : files[f].name <= now /\ files[f].mtime <= now
      BY <2>2 DEF SuccessionInv, AgesInv
    <2>5. CASE opened' \in Ids
      <3>1. Ids' = Ids
        BY <2>1, <2>5
      <3> QED
        BY <2>1, <3>1 DEF SuccessionInv, AgesInv
    <2>6. CASE opened' \notin Ids
      <3>1. Ids' = Ids \cup {opened'} /\ files'[opened'].mtime = now
        BY <2>1, <2>6
      <3>2. \A f \in Ids' : files'[f].name <= files'[f].mtime /\ files'[f].mtime <= now
        BY <2>1, <2>3, <3>1 DEF SuccessionInv, AgesInv
      <3>3. \A f, g \in Ids' :
              files'[f].dir = files'[g].dir /\ files'[f].name < files'[g].name =>
                files'[f].mtime <= files'[g].name
        <4>1. \A g \in Ids' : ~(now < files'[g].name)
          BY <2>1, <2>2, <2>3, <2>4, <3>1
        <4> QED
          BY <2>1, <2>4, <3>1, <4>1 DEF SuccessionInv, AgesInv
      <3>4. \A f \in Ids : files[f].linked /\ files[f].dir = files'[opened'].dir =>
              files[f].name # now
        BY <2>1, <2>6 DEF Present
      <3>5. \A f, g \in Ids' :
              /\ files'[f].linked /\ files'[g].linked
              /\ files'[f].dir = files'[g].dir /\ files'[f].name = files'[g].name
              => f = g
        BY <2>1, <3>1, <3>4 DEF SuccessionInv, AgesInv
      <3> QED
        BY <2>1, <3>2, <3>3, <3>5 DEF AgesInv
    <2> QED
      BY <2>5, <2>6
  <1>3. ASSUME NEW f \in doomed, RemoveFile(f)
        PROVE  AgesInv'
    <2>1. /\ Ids' = Ids /\ now' = now
          /\ \A g \in Ids : /\ files'[g].dir = files[g].dir /\ files'[g].name = files[g].name
                            /\ files'[g].mtime = files[g].mtime
                            /\ g # f => files'[g].linked = files[g].linked
      BY <1>3, RemoveFileFacts DEF Ids, RemoveFile
    <2>2. files'[f].linked => files[f].linked
      <3>1. f \in Ids /\ files[f] \in File
        BY FileTypes DEF LogTypeOK
      <3>2. CASE UNCHANGED files
        BY <3>2
      <3>3. CASE files' = [files EXCEPT ![f].linked = FALSE]
        <4> DEFINE unlinked == [files[f] EXCEPT !.linked = FALSE]
        <4>1. unlinked.linked = FALSE
          BY <3>1 DEF File
        <4>2. files' = [files EXCEPT ![f] = unlinked] /\ f \in DOMAIN files
          BY <3>1, <3>3 DEF Ids, LogTypeOK
        <4> HIDE DEF unlinked
        <4> QED
          BY <4>1, <4>2
      <3> QED
        BY <1>3, <3>2, <3>3 DEF RemoveFile
    <2> QED
      BY <2>1, <2>2 DEF SuccessionInv, AgesInv
  <1>4. CASE Tick
    <2>1. \A f \in Ids : files[f].mtime \in Nat /\ now \in Nat
      BY FileTypes DEF LogTypeOK
    <2> QED
      BY <1>4, <2>1 DEF Tick, writerVars, Ids, SuccessionInv, AgesInv
  <1>5. CASE UNCHANGED <<files, now>>
    BY <1>5 DEF Ids, SuccessionInv, AgesInv
  <1>6. ASSUME NEW w \in Writers, StartBatch(w) \/ EndBatch(w) \/ Visit(w)
        PROVE  UNCHANGED <<files, now>>
    BY <1>6 DEF StartBatch, EndBatch, Visit, writerVars
  <1>7. ASSUME NEW a \in Actors, LinkFile(a) \/ OpenFails(a)
        PROVE  UNCHANGED <<files, now>>
    BY <1>7 DEF LinkFile, OpenFails
  <1>8. CASE StartPass \/ EndPass \/ ScanFiles \/ EndPrune \/ Crash \/ UNCHANGED logVars
    BY <1>5, <1>8 DEF StartPass, EndPass, ScanFiles, EndPrune, Crash, logVars, writerVars
  <1> QED
    BY <1>1, <1>2, <1>3, <1>4, <1>5, <1>6, <1>7, <1>8 DEF LogNext, WriterStep, OpenStep, RotationStep

(* A file keeps its name for good, and its entry unless it is removed.     *)
LEMMA FilesStay ==
  ASSUME LogTypeOK, ContentInv, [LogNext]_logVars
  PROVE  /\ Ids \subseteq Ids'
         /\ \A f \in Ids : /\ files'[f].dir = files[f].dir /\ files'[f].name = files[f].name
                           /\ files[f].linked /\ ~(f \in doomed /\ RemoveFile(f)) => files'[f].linked
  <1>1. ASSUME UNCHANGED files
        PROVE  Ids \subseteq Ids' /\ \A f \in Ids : files'[f] = files[f]
    BY <1>1 DEF Ids
  <1>2. ASSUME NEW w \in Writers, WriterStep(w)
        PROVE  /\ Ids \subseteq Ids'
               /\ \A f \in Ids : /\ files'[f].dir = files[f].dir /\ files'[f].name = files[f].name
                                 /\ files'[f].linked = files[f].linked
    BY <1>1, <1>2, LineWrittenFacts DEF WriterStep, StartBatch, EndBatch
  <1>3. ASSUME NEW a \in Actors, OpenStep(a)
        PROVE  Ids \subseteq Ids' /\ \A f \in Ids : files'[f] = files[f]
    BY <1>1, <1>3, OpenFileFacts DEF OpenStep, LinkFile, OpenFails
  <1>4. ASSUME NEW f \in doomed, RemoveFile(f)
        PROVE  /\ Ids' = Ids
               /\ \A g \in Ids : /\ files'[g].dir = files[g].dir /\ files'[g].name = files[g].name
                                 /\ g # f => files'[g].linked = files[g].linked
    BY <1>4, RemoveFileFacts DEF Ids
  <1>5. CASE \/ StartPass \/ EndPass \/ ScanFiles \/ EndPrune \/ Tick \/ Crash
             \/ UNCHANGED logVars \/ \E w \in Writers : Visit(w)
    BY <1>1, <1>5 DEF StartPass, EndPass, ScanFiles, EndPrune, Tick, Crash, Visit, logVars, writerVars
  <1> QED
    BY <1>2, <1>3, <1>4, <1>5 DEF LogNext, RotationStep

(* Only a scan dooms files, and each of them has a successor.              *)
LEMMA DoomedStep ==
  ASSUME OneWriterPerDir, LogTypeOK, ContentInv, SuccessionInv, [LogNext]_logVars
  PROVE  DoomedInv'
  <1> USE LogAssumption
  <1>1. /\ Ids \subseteq Ids'
        /\ \A f \in Ids : files'[f].dir = files[f].dir /\ files'[f].name = files[f].name
    BY FilesStay
  <1>2. ASSUME doomed' \subseteq doomed, doomed' # {} => pc'[Rotator] = pc[Rotator]
        PROVE  DoomedInv'
    <2>1. doomed \subseteq Ids
      BY DEF LogTypeOK
    <2>2. ASSUME NEW f \in doomed'
          PROVE  \E g \in Ids' : files'[g].dir = files'[f].dir /\ files'[f].name < files'[g].name
      <3>1. f \in doomed /\ f \in Ids
        BY <1>2, <2>1
      <3>2. PICK g \in Ids : files[g].dir = files[f].dir /\ files[f].name < files[g].name
        BY <3>1 DEF SuccessionInv, DoomedInv
      <3> QED
        BY <1>1, <3>1, <3>2
    <2>3. doomed' # {} => pc'[Rotator] = "removing"
      BY <1>2 DEF SuccessionInv, DoomedInv
    <2> QED
      BY <2>2, <2>3 DEF DoomedInv
  <1>3. CASE ScanFiles
    <2>1. \A f \in doomed' : f \in Ids /\ \E g \in Ids :
            files[g].dir = files[f].dir /\ files[f].name < files[g].name
      <3>1. doomed' \subseteq Ids
        BY <1>3 DEF ScanFiles, Present
      <3> QED
        BY <1>3, <3>1, ScanSparesSuccessor DEF SuccessionInv
    <2>2. pc'[Rotator] = "removing"
      BY <1>3 DEF ScanFiles, LogTypeOK, Actors
    <2> QED
      BY <1>1, <2>1, <2>2 DEF DoomedInv
  <1>4. ASSUME NEW w \in Writers, WriterStep(w)
        PROVE  doomed' = doomed /\ pc'[Rotator] = pc[Rotator]
    BY <1>4 DEF WriterStep, StartBatch, AppendLine, AppendFails, EndBatch, Resume, rotationVars,
                LogTypeOK, Actors
  <1>5. ASSUME NEW a \in Actors, OpenStep(a)
        PROVE  doomed' = doomed /\ (doomed # {} => pc'[Rotator] = pc[Rotator])
    <2>1. doomed' = doomed /\ pc[a] \in {"opening", "linking"}
      BY <1>5 DEF OpenStep, OpenFile, LinkFile, OpenFails, rotationVars
    <2>2. doomed # {} => a # Rotator
      BY <2>1 DEF SuccessionInv, DoomedInv
    <2>3. \E x \in WriterPc \cup RotationPc : pc' = [pc EXCEPT ![a] = x]
      BY <1>5 DEF OpenStep, OpenFile, LinkFile, OpenFails, Resume, WriterPc, RotationPc
    <2> QED
      BY <2>1, <2>2, <2>3 DEF LogTypeOK, Actors
  <1>6. CASE \E f \in doomed : RemoveFile(f)
    BY <1>2, <1>6 DEF RemoveFile
  <1>7. CASE StartPass \/ EndPass \/ \E w \in Writers : Visit(w)
    <2>1. doomed = {} /\ doomed' = doomed
      BY <1>7 DEF StartPass, EndPass, Visit, SuccessionInv, DoomedInv
    <2> QED
      BY <1>2, <2>1
  <1>8. CASE EndPrune
    BY <1>2, <1>8 DEF EndPrune, rotationVars
  <1>9. CASE Tick \/ Crash \/ UNCHANGED logVars
    BY <1>2, <1>9 DEF Tick, Crash, logVars, rotationVars
  <1> QED
    BY <1>2, <1>3, <1>4, <1>5, <1>6, <1>7, <1>8, <1>9 DEF LogNext, RotationStep

(* The file that is written to stays the youngest of its directory until   *)
(* rotation has put the next one in its place.                             *)
LEMMA NewestStep ==
  ASSUME OneWriterPerDir, LogTypeOK, ContentInv, SuccessionInv, [LogNext]_logVars
  PROVE  NewestInv' /\ WrittenFileIsLinked'
  <1> USE LogAssumption
  <1>1. /\ Ids \subseteq Ids'
        /\ \A f \in Ids : /\ files'[f].dir = files[f].dir /\ files'[f].name = files[f].name
                          /\ files[f].linked /\ ~(f \in doomed /\ RemoveFile(f)) => files'[f].linked
    BY FilesStay
  <1>2. \A n \in Names : handles[n] # None => Written(n) \in Ids /\ files[Written(n)].linked
    BY DEF Written, LogTypeOK, SuccessionInv, WrittenFileIsLinked
  <1>3. opened # 0 => opened \in Ids
    BY DEF LogTypeOK
  <1>4. ASSUME Ids' = Ids,
               \A n \in Names : handles'[n] # None => handles[n] # None /\ Written(n)' = Written(n),
               \/ opened' = 0
               \/ opened' = opened,
               pc[Rotator] = "linking" =>
                 \/ pc'[Rotator] = "linking" /\ opened' = opened
                 \/ \A n \in Names : handles'[n] = None,
               \A w \in Writers : pc'[w] \in {"opening", "linking"} => handles'[NodeOf[w]] = None,
               \A f \in Ids : files[f].linked /\ ((f = opened /\ opened # 0)
                                \/ \E n \in Names : handles[n] # None /\ f = Written(n)) =>
                                files'[f].linked
        PROVE  NewestInv' /\ WrittenFileIsLinked'
    <2>1. WrittenFileIsLinked'
      BY <1>2, <1>4 DEF WrittenFileIsLinked, Written
    <2>2. \A n \in Names : handles'[n] # None =>
            \A f \in Ids' : files'[f].dir = DirOf[n] =>
              \/ files'[f].name <= files'[Written(n)'].name
              \/ opened' = f /\ pc'[Rotator] = "linking"
      BY <1>1, <1>2, <1>4 DEF SuccessionInv, NewestInv
    <2>3. opened' # 0 =>
            /\ files'[opened'].linked
            /\ \A f \in Ids' : files'[f].dir = files'[opened'].dir =>
                 files'[f].name <= files'[opened'].name
      BY <1>1, <1>3, <1>4 DEF SuccessionInv, NewestInv
    <2> QED
      BY <1>4, <2>1, <2>2, <2>3 DEF NewestInv
  <1>5. ASSUME NEW w \in Writers, WriterStep(w)
        PROVE  NewestInv' /\ WrittenFileIsLinked'
    <2>1. /\ Ids' = Ids /\ opened' = opened /\ pc'[Rotator] = pc[Rotator]
          /\ \A v \in Writers : v # w => pc'[v] = pc[v]
      <3>1. CASE AppendLine(w) \/ AppendFails(w)
        <4>1. Ids' = Ids
          BY <3>1, LineWrittenFacts
        <4> QED
          BY <3>1, <4>1 DEF AppendLine, AppendFails, Resume, LogTypeOK, Actors
      <3>2. CASE StartBatch(w) \/ EndBatch(w)
        BY <3>2 DEF StartBatch, EndBatch, Ids, Resume, LogTypeOK, Actors
      <3> QED
        BY <1>5, <3>1, <3>2 DEF WriterStep
    <2>2. \A n \in Names : /\ handles'[n] # None <=> handles[n] # None
                           /\ handles[n] # None => Written(n)' = Written(n)
      <3>1. CASE AppendLine(w)
        <4> DEFINE k == NodeOf[w]
                   new == [handles[k] EXCEPT !.bytes = @ + 1]
        <4>1. k \in Names /\ handles[k] \in [file : Ids, bytes : Nat]
          BY <3>1, AppenderFacts DEF AppendLine
        <4>2. handles' = [handles EXCEPT ![k] = new]
          BY <3>1, <4>1 DEF AppendLine, LogTypeOK
        <4>3. new \in [file : Nat, bytes : Nat] /\ new.file = handles[k].file /\ handles[k] # None
          <5>1. Ids \subseteq Nat
            BY DEF Ids
          <5> QED
            BY <4>1, <5>1
        <4> HIDE DEF k, new
        <4> QED
          BY <4>1, <4>2, <4>3 DEF LogTypeOK, Written
      <3>2. CASE ~AppendLine(w)
        BY <1>5, <3>2 DEF WriterStep, StartBatch, AppendFails, EndBatch, Written
      <3> QED
        BY <3>1, <3>2
    <2>3. pc'[w] \in {"opening", "linking"} => handles'[NodeOf[w]] = None
      BY <1>5 DEF WriterStep, StartBatch, AppendLine, AppendFails, EndBatch, Resume, LogTypeOK, Actors
    <2>4. \A v \in Writers : pc'[v] \in {"opening", "linking"} => handles'[NodeOf[v]] = None
      <3>1. \A v \in Writers : NodeOf[v] \in Names
        OBVIOUS
      <3> QED
        BY <2>1, <2>2, <2>3, <3>1 DEF SuccessionInv, NewestInv
    <2>5. \A f \in Ids : files[f].linked => files'[f].linked
      <3>1. CASE AppendLine(w) \/ AppendFails(w)
        BY <3>1, LineWrittenFacts
      <3>2. CASE StartBatch(w) \/ EndBatch(w)
        BY <3>2 DEF StartBatch, EndBatch
      <3> QED
        BY <1>5, <3>1, <3>2 DEF WriterStep
    <2> QED
      BY <1>4, <2>1, <2>2, <2>4, <2>5
  <1>6. ASSUME NEW a \in Actors, OpenFile(a)
        PROVE  NewestInv' /\ WrittenFileIsLinked'
    <2> DEFINE d == DirOf[NameOf(a)]
    <2>1. /\ pc[a] = "opening" /\ pc' = [pc EXCEPT ![a] = "linking"]
          /\ UNCHANGED <<lock, handles, now, rotationVars>>
      BY <1>6 DEF OpenFile
    <2>2. /\ opened' \in Ids' /\ opened' # 0
          /\ \A f \in Ids : files'[f] = files[f]
          /\ \A f \in Ids' \ Ids : f = opened'
          /\ files'[opened'].dir = d /\ files'[opened'].name = now
          /\ files'[opened'].linked
      BY <1>6, OpenFileFacts
    <2>3. lock = a /\ (\A b \in Actors : pc[b] \in Holding => b = a) /\ NameOf(a) \in Names
      BY <2>1, OpenerFacts
    <2>4. \A f \in Ids : files[f].name \in Nat /\ files[f].name <= now
      BY FileTypes DEF ContentInv, YoungestInv
    <2>5. now \in Nat
      BY DEF LogTypeOK
    <2> HIDE DEF d
    <2>6. WrittenFileIsLinked'
      BY <1>2, <2>1, <2>2 DEF WrittenFileIsLinked, Written
    <2>7. \A f \in Ids' : files'[f].name <= now
      BY <2>2, <2>4, <2>5
    <2>8. ASSUME NEW w \in Writers, pc'[w] \in {"opening", "linking"}
          PROVE  handles'[NodeOf[w]] = None
      BY <2>1, <2>8 DEF SuccessionInv, NewestInv, LogTypeOK, Actors
    <2>9. ASSUME NEW n \in Names, handles'[n] # None, NEW f \in Ids', files'[f].dir = DirOf[n]
          PROVE  \/ files'[f].name <= files'[Written(n)'].name
                 \/ opened' = f /\ pc'[Rotator] = "linking"
      <3>1. Written(n)' = Written(n) /\ Written(n) \in Ids /\ handles[n] # None
        BY <1>2, <2>1, <2>9 DEF Written
      <3>2. CASE a = Rotator
        <4>1. pc[Rotator] # "linking" /\ pc'[Rotator] = "linking"
          BY <2>1, <3>2 DEF LogTypeOK
        <4> QED
          BY <2>2, <2>9, <3>1, <4>1 DEF SuccessionInv, NewestInv
      <3>3. CASE a # Rotator
        <4>1. a \in Writers /\ NameOf(a) = NodeOf[a] /\ handles[NodeOf[a]] = None
          BY <2>1, <3>3 DEF Actors, NameOf, SuccessionInv, NewestInv
        <4>2. d # DirOf[n]
          BY <2>3, <3>1, <4>1 DEF OneWriterPerDir, d
        <4>3. f # opened' /\ f \in Ids /\ pc[Rotator] # "linking"
          BY <2>2, <2>3, <2>9, <3>3, <4>2 DEF Holding, Actors
        <4> QED
          BY <2>2, <2>9, <3>1, <4>3 DEF SuccessionInv, NewestInv
      <3> QED
        BY <3>2, <3>3
    <2> QED
      BY <2>2, <2>6, <2>7, <2>8, <2>9 DEF NewestInv
  <1>7. ASSUME NEW a \in Actors, LinkFile(a)
        PROVE  NewestInv' /\ WrittenFileIsLinked'
    <2> DEFINE k == NameOf(a)
               new == [file |-> opened, bytes |-> 0]
    <2>1. /\ pc[a] = "linking" /\ handles' = [handles EXCEPT ![k] = new] /\ opened' = 0
          /\ UNCHANGED files
          /\ pc'[a] \notin {"opening", "linking"} /\ \A b \in Actors : b # a => pc'[b] = pc[b]
      BY <1>7 DEF LinkFile, Resume, LogTypeOK
    <2>2. (\A b \in Actors : pc[b] \in Holding => b = a) /\ k \in Names
      BY <2>1, OpenerFacts
    <2>3. opened \in Ids /\ opened # 0 /\ files[opened].dir = DirOf[k] /\ files[opened].linked
      BY <2>1 DEF LogTypeOK, ContentInv, HandleInv, SuccessionInv, NewestInv
    <2>4. \A n \in Names : handles'[n] = IF n = k THEN new ELSE handles[n]
      BY <2>1, <2>2 DEF LogTypeOK
    <2>5. new.file = opened
      OBVIOUS
    <2> HIDE DEF k, new
    <2>6. \A w \in Writers : pc'[w] \notin {"opening", "linking"}
      BY <2>1, <2>2 DEF Holding, Actors
    <2>7. WrittenFileIsLinked'
      BY <1>2, <2>1, <2>3, <2>4, <2>5 DEF WrittenFileIsLinked, Written
    <2>8. ASSUME NEW n \in Names, handles'[n] # None, NEW f \in Ids, files[f].dir = DirOf[n]
          PROVE  files[f].name <= files[Written(n)'].name
      <3>1. CASE n = k
        BY <2>3, <2>4, <2>5, <2>8, <3>1 DEF SuccessionInv, NewestInv, Written
      <3>2. CASE n # k
        <4>1. handles[n] # None /\ Written(n)' = Written(n) /\ DirOf[n] # DirOf[k]
          BY <2>2, <2>4, <2>8, <3>2 DEF Written, OneWriterPerDir
        <4> QED
          BY <2>3, <2>8, <4>1 DEF SuccessionInv, NewestInv
      <3> QED
        BY <3>1, <3>2
    <2>9. Ids' = Ids
      BY <2>1 DEF Ids
    <2> QED
      BY <2>1, <2>6, <2>7, <2>8, <2>9 DEF NewestInv
  <1>8. ASSUME NEW a \in Actors, OpenFails(a)
        PROVE  NewestInv' /\ WrittenFileIsLinked'
    <2>1. /\ pc[a] = "opening" /\ opened' = 0 /\ UNCHANGED <<handles, files>>
          /\ pc'[a] \notin {"opening", "linking"} /\ \A b \in Actors : b # a => pc'[b] = pc[b]
      BY <1>8 DEF OpenFails, Resume, LogTypeOK, OneWriterPerDir
    <2>2. \A b \in Actors : pc[b] \in Holding => b = a
      BY <2>1, OpenerFacts
    <2>3. pc[Rotator] # "linking"
      BY <2>1, <2>2 DEF Holding, Actors
    <2>4. \A w \in Writers : pc'[w] \notin {"opening", "linking"}
      BY <2>1, <2>2 DEF Holding, Actors
    <2>5. Ids' = Ids /\ \A n \in Names : Written(n)' = Written(n)
      BY <2>1 DEF Ids, Written
    <2> QED
      BY <1>4, <2>1, <2>3, <2>4, <2>5
  <1>9. ASSUME NEW f \in doomed, RemoveFile(f)
        PROVE  NewestInv' /\ WrittenFileIsLinked'
    <2>1. pc[Rotator] = "removing" /\ UNCHANGED <<pc, handles, opened>>
      BY <1>9 DEF RemoveFile
    <2>2. PICK g \in Ids : files[g].dir = files[f].dir /\ files[f].name < files[g].name
      BY DEF SuccessionInv, DoomedInv
    <2>3. f \in Ids /\ files[f].name \in Nat /\ files[g].name \in Nat
      BY FileTypes DEF LogTypeOK
    <2>4. \A n \in Names : handles[n] # None => f # Written(n)
      <3>1. \A n \in Names : handles[n] # None => files[Written(n)].dir = DirOf[n]
        BY DEF ContentInv, HandleInv
      <3> QED
        BY <2>1, <2>2, <2>3, <3>1 DEF SuccessionInv, NewestInv
    <2>5. opened # 0 => f # opened
      BY <2>2, <2>3 DEF SuccessionInv, NewestInv
    <2>6. Ids' = Ids /\ \A h \in Ids : h # f => files'[h].linked = files[h].linked
      BY <1>9, RemoveFileFacts DEF Ids
    <2>7. \A n \in Names : Written(n)' = Written(n)
      BY <2>1 DEF Written
    <2>8. \A w \in Writers : pc'[w] \in {"opening", "linking"} => handles'[NodeOf[w]] = None
      BY <2>1 DEF SuccessionInv, NewestInv
    <2> QED
      BY <1>4, <2>1, <2>4, <2>5, <2>6, <2>7, <2>8
  <1>10. CASE \/ StartPass \/ EndPass \/ ScanFiles \/ EndPrune \/ Tick
              \/ UNCHANGED logVars \/ \E w \in Writers : Visit(w)
    <2>1. UNCHANGED <<handles, files, opened>>
      BY <1>10 DEF StartPass, EndPass, ScanFiles, EndPrune, Tick, Visit, logVars, writerVars
    <2>2. \A w \in Writers : pc'[w] = pc[w]
      BY <1>10 DEF StartPass, EndPass, ScanFiles, EndPrune, Tick, Visit, Resume, logVars,
                   LogTypeOK, Actors
    <2>3. pc[Rotator] = "linking" => pc'[Rotator] = "linking"
      BY <1>10 DEF StartPass, EndPass, ScanFiles, EndPrune, Tick, Visit, logVars
    <2>4. Ids' = Ids /\ \A n \in Names : Written(n)' = Written(n)
      BY <2>1 DEF Ids, Written
    <2>5. \A w \in Writers : pc'[w] \in {"opening", "linking"} => handles'[NodeOf[w]] = None
      BY <2>1, <2>2 DEF SuccessionInv, NewestInv
    <2> QED
      BY <1>4, <2>1, <2>3, <2>4, <2>5
  <1>11. CASE Crash
    <2>1. /\ \A n \in Names : handles'[n] = None
          /\ opened' = 0 /\ UNCHANGED files /\ Ids' = Ids
      BY <1>11 DEF Crash, Ids
    <2> QED
      BY <1>4, <2>1
  <1> QED
    BY <1>5, <1>6, <1>7, <1>8, <1>9, <1>10, <1>11 DEF LogNext, OpenStep, RotationStep

(* The files keep following each other, from an empty directory on.        *)
LEMMA SuccessionCorrect ==
  ASSUME OneWriterPerDir
  PROVE  LogSpec => []SuccessionInv
  <1>1. LogInit => SuccessionInv
    <2> SUFFICES ASSUME LogInit PROVE SuccessionInv
      OBVIOUS
    <2>1. Ids = {}
      BY EmptySeq DEF LogInit, Ids
    <2>2. \A w \in Writers : pc[w] = "idle"
      BY LogAssumption DEF LogInit, Actors
    <2>3. \A n \in Names : handles[n] = None
      BY DEF LogInit
    <2> QED
      BY <2>1, <2>2, <2>3
         DEF LogInit, SuccessionInv, AgesInv, DoomedInv, NewestInv, WrittenFileIsLinked
  <1>2. LogTypeOK /\ ContentInv /\ SuccessionInv /\ [LogNext]_logVars => SuccessionInv'
    BY AgesStep, DoomedStep, NewestStep DEF SuccessionInv
  <1> QED
    BY <1>1, <1>2, LogInvCorrect, PTL DEF LogSpec

(* The file a handle writes to is never removed, although pruning neither  *)
(* takes the mutex nor looks at the handles.                               *)
THEOREM LogWrittenFileStays ==
  ASSUME OneWriterPerDir
  PROVE  LogSpec => []WrittenFileIsLinked
  <1>1. SuccessionInv => WrittenFileIsLinked
    BY DEF SuccessionInv
  <1> QED
    BY <1>1, SuccessionCorrect, PTL

-----------------------------------------------------------------------------
(* Pruning keeps the newest                                                *)

(* What is spared stays, and only gets younger; nothing else goes.         *)
LEMMA SparedGrows ==
  ASSUME LogTypeOK, LogTypeOK', SparedInv, KeepFiles \in Nat, Ids \subseteq Ids',
         \A f \in Ids : /\ files'[f].dir = files[f].dir
                        /\ ~Gone(f) => ~Gone(f)' /\ files'[f].mtime >= files[f].mtime,
         \A f \in Ids' : Gone(f)' => f \in Ids /\ Gone(f) /\ files'[f].mtime = files[f].mtime
  PROVE  SparedInv'
  <1> SUFFICES ASSUME NEW f \in Ids', Gone(f)'
               PROVE  Cardinality(Spared(files[f].dir, files[f].mtime)') >= KeepFiles
    BY DEF SparedInv
  <1> DEFINE d == files[f].dir
             m == files[f].mtime
             A == Spared(d, m)
             B == {g \in Ids' : /\ files'[g].linked /\ files'[g].dir = d /\ g \notin doomed'
                                 /\ files'[g].mtime >= m}
  <1>1. /\ f \in Ids /\ Gone(f) /\ files'[f].mtime = m /\ files'[f].dir = d
    OBVIOUS
  <1>2. Spared(files[f].dir, files[f].mtime)' = B
    BY <1>1 DEF Spared, Present
  <1>3. m \in Nat /\ \A g \in Ids : files[g].mtime \in Nat
    BY <1>1, FileTypes
  <1>4. \A g \in Ids' : files'[g].mtime \in Nat
    <2>1. files' \in Seq(File) /\ Ids' = 1..Len(files')
      BY DEF LogTypeOK, Ids
    <2>2. \A g \in 1..Len(files') : files'[g] \in File
      BY <2>1, ElementOfSeq
    <2> QED
      BY <2>1, <2>2 DEF File
  <1>5. A \subseteq Ids /\ B \subseteq Ids'
    BY DEF Spared, Present
  <1>6. A \subseteq B
    <2> SUFFICES ASSUME NEW g \in A
                 PROVE  g \in B
      OBVIOUS
    <2>1. g \in Ids /\ ~Gone(g) /\ files[g].dir = d /\ files[g].mtime >= m
      BY DEF Spared, Present, Gone
    <2> HIDE DEF d, m
    <2>2. /\ g \in Ids' /\ files'[g].dir = d /\ files'[g].linked /\ g \notin doomed'
          /\ files'[g].mtime >= files[g].mtime
      BY <2>1 DEF Gone
    <2>3. files'[g].mtime >= m
      BY <1>3, <1>4, <2>1, <2>2
    <2> QED
      BY <2>2, <2>3
  <1>7. IsFiniteSet(B)
    <2>1. Len(files') \in Nat
      BY LenProperties DEF LogTypeOK
    <2>2. IsFiniteSet(Ids')
      BY <2>1, FS_Interval DEF Ids
    <2> QED
      BY <1>5, <2>2, FS_Subset
  <1>8. Cardinality(A) >= KeepFiles
    BY <1>1 DEF SparedInv
  <1> HIDE DEF A, B
  <1>9. /\ Cardinality(A) <= Cardinality(B)
        /\ Cardinality(A) \in Nat /\ Cardinality(B) \in Nat
    BY <1>6, <1>7, FS_Subset, FS_CardinalityType
  <1> QED
    BY <1>2, <1>8, <1>9

(* A scan spares the newest: those it keeps are no older than what it      *)
(* dooms, nor than what has gone before.                                   *)
LEMMA ScanSparesNewest ==
  ASSUME OneWriterPerDir, LogTypeOK, SuccessionInv, SparedInv, ScanFiles
  PROVE  SparedInv'
  <1> USE LogAssumption
  <1> DEFINE e == DirOf[target]
             S == Present(e)
  <1>1. PICK K \in SUBSET S : Newest(S, K) /\ doomed' = (S \ K) \cup {f \in S : TooOld(f)}
    BY DEF ScanFiles
  <1>2. doomed' = S \ K /\ UNCHANGED files /\ doomed = {}
    BY <1>1 DEF TooOld, ScanFiles, writerVars, OneWriterPerDir, SuccessionInv, DoomedInv
  <1>3. Ids' = Ids /\ \A d : Present(d)' = Present(d)
    BY <1>2 DEF Ids, Present
  <1>4. /\ S \subseteq Ids /\ K \subseteq S
        /\ IsFiniteSet(S) /\ Cardinality(S) \in Nat /\ Cardinality(K) \in Nat
        /\ IsFiniteSet(K) /\ Cardinality(K) <= Cardinality(S)
        /\ (Cardinality(K) = Cardinality(S) => K = S)
    <2>1. S \subseteq Ids
      BY DEF Present
    <2> HIDE DEF S
    <2> QED
      BY <2>1, FilesFinite
  <1>5. /\ Cardinality(K) = IF KeepFiles <= Cardinality(S) THEN KeepFiles ELSE Cardinality(S)
        /\ \A f \in K, g \in S \ K : files[f].mtime >= files[g].mtime
    <2>1. Cardinality(K) = Min({KeepFiles, Cardinality(S)})
          /\ \A f \in K, g \in S \ K : files[f].mtime >= files[g].mtime
      BY <1>1 DEF Newest
    <2> HIDE DEF S
    <2>2. Min({KeepFiles, Cardinality(S)})
            = IF KeepFiles <= Cardinality(S) THEN KeepFiles ELSE Cardinality(S)
      BY <1>4, MinOfTwo
    <2> QED
      BY <2>1, <2>2
  <1> SUFFICES ASSUME NEW f \in Ids, ~files[f].linked \/ f \in S \ K
               PROVE  Cardinality(Spared(files[f].dir, files[f].mtime)') >= KeepFiles
    BY <1>2, <1>3 DEF SparedInv, Gone
  <1> DEFINE d == files[f].dir
             m == files[f].mtime
             B == {g \in Present(d) \ (S \ K) : files[g].mtime >= m}
             A == {g \in Present(d) : files[g].mtime >= m}
  <1>6. Spared(files[f].dir, files[f].mtime)' = B
    BY <1>2, <1>3 DEF Spared
  <1>7. ~files[f].linked => Cardinality(A) >= KeepFiles
    <2>1. Spared(d, m) = A
      BY <1>2 DEF Spared
    <2> QED
      BY <2>1 DEF SparedInv, Gone
  <1>8. m \in Nat /\ \A g \in Ids : files[g].mtime \in Nat
    BY FileTypes
  <1>9. CASE d # e
    <2>1. f \notin S /\ Present(d) \ (S \ K) = Present(d)
      BY <1>9 DEF Present
    <2>2. B = A
      BY <2>1
    <2> QED
      BY <1>6, <1>7, <2>1, <2>2
  <1>10. CASE d = e
    <2>1. Present(d) \ (S \ K) = K /\ Present(d) = S
      BY <1>4, <1>10
    <2>2. ASSUME Cardinality(K) = KeepFiles, \A k \in K : files[k].mtime >= m
          PROVE  Cardinality(B) >= KeepFiles
      <3>1. B = K
        BY <2>1, <2>2
      <3> HIDE DEF B
      <3> QED
        BY <2>2, <3>1
    <2>3. CASE f \in S \ K
      <3>1. K # S /\ \A k \in K : files[k].mtime >= m
        BY <1>5, <2>3
      <3> HIDE DEF S, m
      <3>2. Cardinality(K) = KeepFiles
        BY <1>4, <1>5, <3>1
      <3> QED
        BY <1>6, <2>2, <3>1, <3>2
    <2>4. CASE ~files[f].linked
      <3> DEFINE C == {g \in S : files[g].mtime >= m}
      <3>1. Cardinality(C) >= KeepFiles
        BY <1>7, <2>1, <2>4
      <3>2. C \subseteq S
        OBVIOUS
      <3>3. /\ Cardinality(C) \in Nat /\ Cardinality(C) <= Cardinality(S)
        <4> HIDE DEF C, S
        <4> QED
          BY <1>4, <3>2, FilesFinite
      <3>4. Cardinality(K) = KeepFiles
        <4> HIDE DEF C, S
        <4> QED
          BY <1>4, <1>5, <3>1, <3>3
      <3>5. ASSUME NEW k \in K, ~(files[k].mtime >= m)
            PROVE  FALSE
        <4>1. k \in S /\ k \in Ids /\ k \notin C
          BY <1>4, <3>5
        <4>2. C \subseteq K
          <5> SUFFICES ASSUME NEW g \in C, g \notin K
                       PROVE  FALSE
            OBVIOUS
          <5>1. g \in S /\ g \in Ids /\ files[g].mtime >= m
            BY <1>4
          <5>2. files[k].mtime >= files[g].mtime
            BY <1>5, <5>1
          <5> HIDE DEF m
          <5> QED
            BY <1>8, <3>5, <4>1, <5>1, <5>2
        <4> HIDE DEF C, S
        <4>3. K \in SUBSET Ids
          BY <1>4
        <4>4. Cardinality(C) <= Cardinality(K) /\ (Cardinality(C) = Cardinality(K) => C = K)
          BY <4>2, <4>3, FilesFinite
        <4>5. Cardinality(C) = Cardinality(K)
          BY <1>4, <3>1, <3>3, <3>4, <4>4
        <4> QED
          BY <4>1, <4>4, <4>5
      <3>6. \A k \in K : files[k].mtime >= m
        BY <3>5
      <3> QED
        BY <1>6, <2>2, <3>4, <3>6
    <2> QED
      BY <2>3, <2>4
  <1> QED
    BY <1>9, <1>10

(* Pruning and whatever goes on meanwhile spare the newest.                *)
LEMMA SparedStep ==
  ASSUME OneWriterPerDir, LogTypeOK, ContentInv, SuccessionInv, LogTypeOK', SparedInv,
         [LogNext]_logVars
  PROVE  SparedInv'
  <1> USE LogAssumption
  <1>1. /\ doomed \subseteq Ids /\ now \in Nat
        /\ \A g \in Ids : files[g].mtime \in Nat /\ files[g].name \in Nat /\ files[g].mtime <= now
    BY FileTypes DEF LogTypeOK, SuccessionInv, AgesInv
  <1>2. ASSUME NEW w \in Writers, AppendLine(w) \/ AppendFails(w)
        PROVE  SparedInv'
    <2> DEFINE h == Written(NodeOf[w])
    <2>1. /\ Ids' = Ids /\ doomed' = doomed
          /\ \A g \in Ids : /\ files'[g].dir = files[g].dir
                            /\ files'[g].linked = files[g].linked
                            /\ \/ files'[g].mtime = files[g].mtime
                               \/ g = h /\ files'[g].mtime = now
      BY <1>2, LineWrittenFacts DEF AppendLine, AppendFails, rotationVars
    <2>2. /\ h \in Ids /\ files[h].dir = DirOf[NodeOf[w]] /\ NodeOf[w] \in Names
          /\ handles[NodeOf[w]] # None /\ pc[Rotator] # "linking"
      BY <1>2, AppenderFacts DEF AppendLine, AppendFails, Actors, ContentInv, HandleInv
    <2>3. files[h].linked
      BY <2>2 DEF SuccessionInv, WrittenFileIsLinked, Written
    <2>4. \A g \in Ids : files[g].dir = files[h].dir => files[g].name <= files[h].name
      BY <2>2 DEF SuccessionInv, NewestInv
    <2> HIDE DEF h
    <2>5. h \notin doomed
      <3> SUFFICES ASSUME h \in doomed PROVE FALSE
        OBVIOUS
      <3>1. PICK g \in Ids : files[g].dir = files[h].dir /\ files[h].name < files[g].name
        BY DEF SuccessionInv, DoomedInv
      <3> QED
        BY <1>1, <2>2, <2>4, <3>1
    <2>6. \A g \in Ids : (Gone(g)' <=> Gone(g)) /\ ~Gone(h) /\ files'[g].mtime >= files[g].mtime
      BY <1>1, <2>1, <2>3, <2>5 DEF Gone
    <2> QED
      BY <2>1, <2>6, SparedGrows
  <1>3. ASSUME NEW f \in doomed, RemoveFile(f)
        PROVE  SparedInv'
    <2>1. /\ Ids' = Ids /\ doomed' = doomed \ {f}
          /\ \A g \in Ids : /\ files'[g].dir = files[g].dir /\ files'[g].mtime = files[g].mtime
                            /\ g # f => files'[g].linked = files[g].linked
      BY <1>3, RemoveFileFacts DEF Ids, RemoveFile
    <2>2. \A g \in Ids : (~Gone(g) => ~Gone(g)') /\ (Gone(g)' => Gone(g))
                        /\ files'[g].mtime >= files[g].mtime
      BY <1>1, <2>1 DEF Gone
    <2> QED
      BY <2>1, <2>2, SparedGrows
  <1>4. ASSUME UNCHANGED files, doomed' \subseteq doomed
        PROVE  SparedInv'
    <2>1. Ids' = Ids /\ \A g \in Ids : /\ (~Gone(g) => ~Gone(g)') /\ (Gone(g)' => Gone(g))
                                       /\ files'[g].mtime >= files[g].mtime
      BY <1>1, <1>4 DEF Gone, Ids
    <2> QED
      BY <1>4, <2>1, SparedGrows
  <1>5. ASSUME NEW a \in Actors, OpenFile(a)
        PROVE  SparedInv'
    <2>1. /\ Ids \subseteq Ids' /\ doomed' = doomed
          /\ \A f \in Ids : files'[f] = files[f]
          /\ \A f \in Ids' \ Ids : f = opened'
          /\ files'[opened'].linked
      BY <1>5, OpenFileFacts DEF OpenFile, rotationVars
    <2>2. \A g \in Ids : (Gone(g)' <=> Gone(g)) /\ files'[g].mtime >= files[g].mtime
      BY <1>1, <2>1 DEF Gone
    <2>3. \A g \in Ids' : Gone(g)' => g \in Ids
      BY <1>1, <2>1 DEF Gone
    <2> QED
      BY <2>1, <2>2, <2>3, SparedGrows
  <1>6. CASE \E w \in Writers : StartBatch(w) \/ EndBatch(w)
    BY <1>4, <1>6 DEF StartBatch, EndBatch, rotationVars
  <1>7. CASE \E a \in Actors : LinkFile(a) \/ OpenFails(a)
    BY <1>4, <1>7 DEF LinkFile, OpenFails, rotationVars
  <1>8. CASE StartPass \/ EndPass \/ EndPrune \/ Tick \/ \E w \in Writers : Visit(w)
    BY <1>4, <1>8 DEF StartPass, EndPass, EndPrune, Tick, Visit, writerVars, rotationVars
  <1>9. CASE Crash
    BY <1>4, <1>9 DEF Crash
  <1>10. CASE UNCHANGED logVars
    BY <1>4, <1>10 DEF logVars, writerVars, rotationVars
  <1> QED
    BY <1>2, <1>3, <1>5, <1>6, <1>7, <1>8, <1>9, <1>10, ScanSparesNewest
       DEF LogNext, WriterStep, OpenStep, RotationStep

(* With no age limit, a directory per name and two or more kept files, the *)
(* files pruning leaves are the newest: whatever it removed was written    *)
(* last no later than rp_keep_files_num files that are there, although it  *)
(* removes what it decided on without the mutex, while files are opened    *)
(* and written and after a removal failed.                                 *)
THEOREM LogKeepsTheNewest ==
  ASSUME OneWriterPerDir
  PROVE  LogSpec => []KeepsTheNewest
  <1>1. LogInit => SparedInv
    BY EmptySeq DEF LogInit, SparedInv, Ids
  <1>2. LogTypeOK /\ SparedInv => KeepsTheNewest
    <2> SUFFICES ASSUME LogTypeOK, SparedInv, NEW f \in Ids, ~files[f].linked
                 PROVE  Cardinality({g \in Present(files[f].dir) :
                                       files[g].mtime >= files[f].mtime}) >= KeepFiles
      BY DEF KeepsTheNewest
    <2> DEFINE A == Spared(files[f].dir, files[f].mtime)
               B == {g \in Present(files[f].dir) : files[g].mtime >= files[f].mtime}
    <2>1. A \subseteq B /\ B \subseteq Ids
      BY DEF Spared, Present
    <2>2. Cardinality(A) >= KeepFiles /\ KeepFiles \in Nat
      BY LogAssumption DEF SparedInv, Gone
    <2> HIDE DEF A, B
    <2>3. /\ Cardinality(A) <= Cardinality(B)
          /\ Cardinality(A) \in Nat /\ Cardinality(B) \in Nat
      BY <2>1, FilesFinite
    <2>4. Cardinality(B) >= KeepFiles
      BY <2>2, <2>3
    <2> QED
      BY <2>4 DEF B
  <1>3. /\ LogTypeOK /\ ContentInv /\ SuccessionInv /\ LogTypeOK' /\ SparedInv /\ [LogNext]_logVars
        => SparedInv'
    BY SparedStep
  <1> QED
    BY <1>1, <1>2, <1>3, LogInvCorrect, SuccessionCorrect, PTL DEF LogSpec

=============================================================================
