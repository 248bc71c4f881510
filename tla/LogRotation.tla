----------------------------- MODULE LogRotation -----------------------------
(***************************************************************************)
(* The log files of one logging destination of hermod-tracer: LogWriter    *)
(* (src/server/logging.rs), which every connection's trace task calls, and *)
(* the rotation task (src/server/rotation.rs).  LogWriter's mutex orders   *)
(* write_traces and rotate_if_needed; pruning does not take it.            *)
(*                                                                         *)
(* A handle is cached per node NAME, files are kept per directory, and two *)
(* names may sanitise to one directory.  A file name is the second it was  *)
(* opened in; a line has unit size; hours are counted in seconds.          *)
(***************************************************************************)
EXTENDS Naturals, Sequences, FiniteSetsExt

CONSTANTS
  Writers,       \* connections whose trace task may write
  Names,         \* the node names they resolve to
  NodeOf,        \* connection -> its node's name
  Dirs,          \* directories below logRoot
  DirOf,         \* name -> its sanitised directory
  Rotator,       \* the rotation task
  None,          \* no handle, no target, nobody
  BatchSizes,    \* how many traces a batch may have
  SizeLimit,     \* RotationParams::rp_log_limit_bytes, in lines
  MaxAge,        \* RotationParams::rp_max_age_hours, in seconds; 0 is off
  KeepFiles,     \* RotationParams::rp_keep_files_num
  Frequency,     \* RotationParams::rp_frequency_secs
  Failures,      \* what may fail: "open", "link", "append", "remove", "crash"
  MaxBatches,    \* bound: batches logged
  MaxTime        \* bound: the clock

ASSUME LogAssumption ==
  /\ NodeOf \in [Writers -> Names]
  /\ DirOf \in [Names -> Dirs]
  /\ Rotator \notin Writers
  /\ None \notin Names \cup Dirs \cup Writers \cup {Rotator} \cup Nat
  /\ None \notin [file : Nat, bytes : Nat]
  /\ BatchSizes \subseteq Nat
  /\ {SizeLimit, MaxAge, KeepFiles, Frequency} \subseteq Nat
  /\ {MaxBatches, MaxTime} \subseteq Nat
  /\ Failures \subseteq {"open", "link", "append", "remove", "crash"}

VARIABLES
  pc,          \* where each trace task and the rotation task is
  lock,        \* who holds LogWriter's mutex
  job,         \* the batch the holder of the mutex writes, and its next line
  handles,     \* LogWriter::handles: name -> open file and bytes_written
  files,       \* every file ever created, by number; `linked` until removed
  symlink,     \* directory -> the file name node.{ext} points to
  opened,      \* the file open_new_file has just opened
  visit,       \* rotation: connections still to visit in this pass
  target,      \* rotation: the name being visited
  doomed,      \* rotation: files prune_old_files is going to remove
  wakeAt,      \* rotation: when its sleep ends
  now,         \* the clock, in seconds
  batches,     \* batches logged so far; a batch is known by its number
  crashed      \* TRUE once the process was restarted

writerVars == <<handles, files, symlink, opened, job, batches>>
rotationVars == <<visit, target, doomed, wakeAt>>
logVars == <<pc, lock, writerVars, rotationVars, now, crashed>>

Actors == Writers \cup {Rotator}

Ids == 1..Len(files)

Present(d) == {f \in Ids : files[f].linked /\ files[f].dir = d}

NameOf(a) == IF a = Rotator THEN target ELSE NodeOf[a]

NoJob == [node |-> None, batch |-> 0, size |-> 0, next |-> 1]

(* The task that runs on after its call into LogWriter has returned.       *)
Resume(a) == [pc EXCEPT ![a] = IF a = Rotator THEN "scanning" ELSE "idle"]

LogInit ==
  /\ pc = [a \in Actors |-> IF a = Rotator THEN "sleeping" ELSE "idle"]
  /\ lock = None
  /\ job = NoJob
  /\ handles = [n \in Names |-> None]
  /\ files = << >>
  /\ symlink = [d \in Dirs |-> None]
  /\ opened = 0
  /\ visit = {}
  /\ target = None
  /\ doomed = {}
  /\ wakeAt = Frequency
  /\ now = 0
  /\ batches = 0
  /\ crashed = FALSE

-----------------------------------------------------------------------------
(* The clock                                                               *)

Tick ==
  /\ now < MaxTime
  /\ now' = now + 1
  /\ UNCHANGED <<pc, lock, writerVars, rotationVars, crashed>>

-----------------------------------------------------------------------------
(* LogWriter::write_traces                                                 *)

(* A trace task calls write_traces and gets the mutex; without a handle    *)
(* for the name a file is opened.                                          *)
StartBatch(w) ==
  /\ pc[w] = "idle"
  /\ lock = None
  /\ batches < MaxBatches
  /\ lock' = w
  /\ batches' = batches + 1
  /\ \E n \in BatchSizes :
       job' = [node |-> NodeOf[w], batch |-> batches + 1, size |-> n,
               next |-> 1]
  /\ pc' = [pc EXCEPT ![w] = IF handles[NodeOf[w]] = None
                               THEN "opening" ELSE "appending"]
  /\ UNCHANGED <<handles, files, symlink, opened, rotationVars, now,
                 crashed>>

(* The file of w's handle with one more line in it.                        *)
WithLine(f, line) ==
  [files EXCEPT ![f].lines = Append(@, line), ![f].mtime = now]

AppendLine(w) ==
  /\ pc[w] = "appending"
  /\ job.next <= job.size
  /\ files' = WithLine(handles[NodeOf[w]].file,
                       [node |-> job.node, batch |-> job.batch,
                        line |-> job.next])
  /\ handles' = [handles EXCEPT ![NodeOf[w]].bytes = @ + 1]
  /\ job' = [job EXCEPT !.next = @ + 1]
  /\ UNCHANGED <<pc, lock, symlink, opened, batches, rotationVars,
                 now, crashed>>

(* write_all fails, with part of the line written (line 0) or nothing: the *)
(* rest of the batch is dropped and the handle is kept.                    *)
AppendFails(w) ==
  /\ "append" \in Failures
  /\ pc[w] = "appending"
  /\ job.next <= job.size
  /\ \/ files' = WithLine(handles[NodeOf[w]].file,
                          [node |-> job.node, batch |-> job.batch, line |-> 0])
     \/ UNCHANGED files
  /\ lock' = None
  /\ job' = NoJob
  /\ pc' = Resume(w)
  /\ UNCHANGED <<handles, symlink, opened, batches, rotationVars,
                 now, crashed>>

(* Mutant: the mutex is not released after a batch.                        *)
EndBatch_KeepsLock(w) ==
  /\ pc[w] = "appending"
  /\ job.next > job.size
  /\ job' = NoJob
  /\ pc' = Resume(w)
  /\ UNCHANGED <<lock, handles, files, symlink, opened, batches, rotationVars,
                 now, crashed>>

EndBatch(w) ==
  /\ pc[w] = "appending"
  /\ job.next > job.size
  /\ lock' = None
  /\ job' = NoJob
  /\ pc' = Resume(w)
  /\ UNCHANGED <<handles, files, symlink, opened, batches,
                 rotationVars, now, crashed>>

-----------------------------------------------------------------------------
(* LogWriter::open_new_file, for write_traces and for rotate_if_needed     *)

(* Mutant: any file of the directory may be opened again.                  *)
OpenFile_Reuses(a) ==
  /\ pc[a] = "opening"
  /\ LET d == DirOf[NameOf(a)]
     IN  \/ /\ opened' \in Present(d)
            /\ UNCHANGED files
         \/ /\ files' = Append(files, [dir |-> d, name |-> now, lines |-> << >>,
                                       mtime |-> now, linked |-> TRUE])
            /\ opened' = Len(files) + 1
  /\ pc' = [pc EXCEPT ![a] = "linking"]
  /\ UNCHANGED <<lock, handles, symlink, job, batches, rotationVars, now,
                 crashed>>

(* Append mode: a file opened within the same second is opened again.      *)
OpenFile(a) ==
  /\ pc[a] = "opening"
  /\ LET d    == DirOf[NameOf(a)]
         same == {f \in Present(d) : files[f].name = now}
     IN  \/ /\ same # {}
            /\ opened' \in same
            /\ UNCHANGED files
         \/ /\ same = {}
            /\ files' = Append(files, [dir |-> d, name |-> now, lines |-> << >>,
                                       mtime |-> now, linked |-> TRUE])
            /\ opened' = Len(files) + 1
  /\ pc' = [pc EXCEPT ![a] = "linking"]
  /\ UNCHANGED <<lock, handles, symlink, job, batches, rotationVars,
                 now, crashed>>

(* A .tmp symlink is renamed over node.{ext} and the handle is cached.  A  *)
(* .tmp file left behind by a crash is removed first, so it has no effect. *)
LinkFile(a) ==
  /\ pc[a] = "linking"
  /\ symlink' = [symlink EXCEPT ![DirOf[NameOf(a)]] = files[opened].name]
  /\ handles' = [handles EXCEPT ![NameOf(a)] = [file |-> opened, bytes |-> 0]]
  /\ opened' = 0
  /\ \/ /\ a = Rotator
        /\ lock' = None
        /\ pc' = Resume(a)
     \/ /\ a # Rotator
        /\ pc' = [pc EXCEPT ![a] = "appending"]
        /\ UNCHANGED lock
  /\ UNCHANGED <<files, job, batches, rotationVars, now, crashed>>

(* Mutant: the new handle is cached although the symlink failed.           *)
OpenFails_CachesHandle(a) ==
  /\ \/ "open" \in Failures /\ pc[a] = "opening" /\ UNCHANGED handles
     \/ /\ "link" \in Failures /\ pc[a] = "linking"
        /\ handles' = [handles EXCEPT ![NameOf(a)] =
                         [file |-> opened, bytes |-> 0]]
  /\ opened' = 0
  /\ lock' = None
  /\ job' = NoJob
  /\ pc' = Resume(a)
  /\ UNCHANGED <<files, symlink, batches, rotationVars, now, crashed>>

(* The directory or the file cannot be made, or the symlink cannot: the    *)
(* call returns the error, a cached handle stays, a new file stays too.    *)
OpenFails(a) ==
  /\ \/ "open" \in Failures /\ pc[a] = "opening"
     \/ "link" \in Failures /\ pc[a] = "linking"
  /\ opened' = 0
  /\ lock' = None
  /\ job' = NoJob
  /\ pc' = Resume(a)
  /\ UNCHANGED <<handles, files, symlink, batches, rotationVars, now,
                 crashed>>

-----------------------------------------------------------------------------
(* run_rotation_loop                                                       *)

(* The sleep is over: node_list() gives the names to visit in this pass.   *)
(* Which connections are registered at that moment is left open: a node    *)
(* may have connected since its last batch, or may be gone while its       *)
(* aborted trace task still writes (server/acceptor.rs:346-351).           *)
StartPass ==
  /\ pc[Rotator] = "sleeping"
  /\ now >= wakeAt
  /\ visit' \in SUBSET Writers
  /\ pc' = [pc EXCEPT ![Rotator] = "visiting"]
  /\ UNCHANGED <<lock, writerVars, target, doomed, wakeAt, now,
                 crashed>>

EndPass ==
  /\ pc[Rotator] = "visiting"
  /\ visit = {}
  /\ wakeAt' = now + Frequency
  /\ target' = None
  /\ pc' = [pc EXCEPT ![Rotator] = "sleeping"]
  /\ UNCHANGED <<lock, writerVars, visit, doomed, now, crashed>>

Oversize(n) == handles[n] # None /\ handles[n].bytes >= SizeLimit

(* Mutant: rotation does not take the mutex.                               *)
Visit_NoMutex(w) ==
  /\ pc[Rotator] = "visiting"
  /\ w \in visit
  /\ visit' = visit \ {w}
  /\ target' = NodeOf[w]
  /\ pc' = [pc EXCEPT ![Rotator] =
              IF Oversize(NodeOf[w]) THEN "opening" ELSE "scanning"]
  /\ UNCHANGED <<lock, writerVars, doomed, wakeAt, now, crashed>>

(* The next name: LogWriter::rotate_if_needed, under the mutex.            *)
Visit(w) ==
  /\ pc[Rotator] = "visiting"
  /\ w \in visit
  /\ lock = None
  /\ visit' = visit \ {w}
  /\ target' = NodeOf[w]
  /\ \/ /\ Oversize(NodeOf[w])
        /\ lock' = Rotator
        /\ pc' = [pc EXCEPT ![Rotator] = "opening"]
     \/ /\ ~Oversize(NodeOf[w])
        /\ pc' = Resume(Rotator)
        /\ UNCHANGED lock
  /\ UNCHANGED <<writerVars, doomed, wakeAt, now, crashed>>

TooOld(f) == MaxAge > 0 /\ now > files[f].mtime + MaxAge

(* Mutant: the oldest files are kept.                                      *)
Newest_OldestFirst(S, K) ==
  /\ K \subseteq S
  /\ Cardinality(K) = Min({KeepFiles, Cardinality(S)})
  /\ \A f \in K, g \in S \ K : files[f].mtime <= files[g].mtime

(* The first KeepFiles files, newest first; a tie is broken either way.    *)
Newest(S, K) ==
  /\ K \subseteq S
  /\ Cardinality(K) = Min({KeepFiles, Cardinality(S)})
  /\ \A f \in K, g \in S \ K : files[f].mtime >= files[g].mtime

(* prune_old_files lists the directory and decides what to remove...       *)
ScanFiles ==
  /\ pc[Rotator] = "scanning"
  /\ LET S == Present(DirOf[target])
     IN  \E K \in SUBSET S :
           /\ Newest(S, K)
           /\ doomed' = (S \ K) \cup {f \in S : TooOld(f)}
  /\ pc' = [pc EXCEPT ![Rotator] = "removing"]
  /\ UNCHANGED <<lock, writerVars, visit, target, wakeAt, now,
                 crashed>>

(* ...and removes it, file by file, without the mutex; a failure is only   *)
(* logged.                                                                 *)
RemoveFile(f) ==
  /\ pc[Rotator] = "removing"
  /\ f \in doomed
  /\ doomed' = doomed \ {f}
  /\ \/ files' = [files EXCEPT ![f].linked = FALSE]
     \/ "remove" \in Failures /\ UNCHANGED files
  /\ UNCHANGED <<pc, lock, handles, symlink, opened, job, batches,
                 visit, target, wakeAt, now, crashed>>

EndPrune ==
  /\ pc[Rotator] = "removing"
  /\ doomed = {}
  /\ pc' = [pc EXCEPT ![Rotator] = "visiting"]
  /\ UNCHANGED <<lock, writerVars, rotationVars, now, crashed>>

-----------------------------------------------------------------------------
(* The process is killed and started again: files and symlinks remain.     *)
Crash ==
  /\ "crash" \in Failures
  /\ ~crashed
  /\ crashed' = TRUE
  /\ pc' = [a \in Actors |-> IF a = Rotator THEN "sleeping" ELSE "idle"]
  /\ lock' = None
  /\ job' = NoJob
  /\ handles' = [n \in Names |-> None]
  /\ opened' = 0
  /\ visit' = {}
  /\ target' = None
  /\ doomed' = {}
  /\ wakeAt' = now + Frequency
  /\ UNCHANGED <<files, symlink, batches, now>>

WriterStep(w) ==
  \/ StartBatch(w) \/ AppendLine(w) \/ AppendFails(w) \/ EndBatch(w)

OpenStep(a) == OpenFile(a) \/ LinkFile(a) \/ OpenFails(a)

RotationStep ==
  \/ StartPass \/ EndPass \/ ScanFiles \/ EndPrune
  \/ \E w \in Writers : Visit(w)
  \/ \E f \in doomed : RemoveFile(f)

LogNext ==
  \/ \E w \in Writers : WriterStep(w)
  \/ \E a \in Actors : OpenStep(a)
  \/ RotationStep
  \/ Tick
  \/ Crash

LogSpec == LogInit /\ [][LogNext]_logVars

-----------------------------------------------------------------------------
(* What must hold                                                          *)

Line == [node : Names, batch : Nat, line : Nat]
File == [dir : Dirs, name : Nat, lines : Seq(Line), mtime : Nat,
         linked : BOOLEAN]
Job  == [node : Names \cup {None}, batch : Nat, size : Nat, next : Nat]

WriterPc   == {"idle", "opening", "linking", "appending"}
RotationPc == {"sleeping", "visiting", "opening", "linking",
               "scanning", "removing"}

Holding == {"opening", "linking", "appending"}

(* The types, and the mutex: exactly its holder is inside LogWriter.       *)
LogTypeOK ==
  /\ pc \in [Actors -> WriterPc \cup RotationPc]
  /\ pc[Rotator] \in RotationPc /\ \A w \in Writers : pc[w] \in WriterPc
  /\ lock \in Actors \cup {None}
  /\ \A a \in Actors : lock = a <=> pc[a] \in Holding
  /\ job \in Job
  /\ files \in Seq(File)
  /\ handles \in [Names -> {None} \cup [file : Ids, bytes : Nat]]
  /\ symlink \in [Dirs -> {None} \cup Nat]
  /\ opened \in {0} \cup Ids
  /\ opened # 0 <=> \E a \in Actors : pc[a] = "linking"
  /\ visit \subseteq Writers
  /\ target \in Names \cup {None}
  /\ pc[Rotator] \notin {"sleeping", "visiting"} => target \in Names
  /\ doomed \subseteq Ids
  /\ {wakeAt, now, batches} \subseteq Nat
  /\ crashed \in BOOLEAN

(* A batch is never mixed with another one and never split: whichever      *)
(* tasks write, rotate and prune at the same time, its lines stand         *)
(* together and in order in one file (the mutex of logging.rs:63 is held   *)
(* across all of write_traces and rotate_if_needed).                       *)
BatchesWhole ==
  /\ \A f \in Ids : \A i, j \in DOMAIN files[f].lines :
       LET s == files[f].lines
       IN  i < j /\ s[i].batch = s[j].batch =>
             \A k \in i..j : /\ s[k].batch = s[i].batch
                             /\ s[k].line \in {0, s[i].line + (k - i)}
  /\ \A f, g \in Ids : f # g =>
       \A i \in DOMAIN files[f].lines, j \in DOMAIN files[g].lines :
         files[f].lines[i].batch # files[g].lines[j].batch

(* A node's files, read by name and each from the top, give its batches in *)
(* the order in which they were logged: rotation, pruning, a restart and   *)
(* files shared with another node never put an older batch in a younger    *)
(* file (logging.rs:148-152).                                              *)
LogsReadInOrder ==
  \A f, g \in Ids :
    files[f].dir = files[g].dir /\ files[f].name < files[g].name =>
      \A i \in DOMAIN files[f].lines, j \in DOMAIN files[g].lines :
        files[f].lines[i].node = files[g].lines[j].node =>
          files[f].lines[i].batch < files[g].lines[j].batch

(* node.{ext} names a file some handle of its directory writes to, as long *)
(* as there is such a handle: an error in open_new_file at any point       *)
(* leaves the symlink and the cached handle in agreement (logging.rs:14).  *)
SymlinkFollowsWriter ==
  \A n \in Names : handles[n] # None =>
    \E m \in Names :
      /\ DirOf[m] = DirOf[n] /\ handles[m] # None
      /\ symlink[DirOf[n]] = files[handles[m].file].name

(* The file a handle writes to can be found in its directory.  Pruning     *)
(* does not take the mutex and knows of no handle: this holds only because *)
(* the written file is among the newest (rotation.rs:126-142), and needs   *)
(* KeepFiles >= 2 (a file that was full and its successor may have the     *)
(* same mtime), MaxAge = 0, a directory per name and working symlinks.     *)
WrittenFileIsLinked ==
  \A n \in Names : handles[n] # None => files[handles[n].file].linked

(* "Always keep at least this many of the newest files" (config.rs:215),   *)
(* without an age limit: of the files of its directory, KeepFiles that are *)
(* there were last written no earlier than one that was removed, whatever  *)
(* is opened, written or not removed between the listing and the removals. *)
(* Needs what WrittenFileIsLinked needs: else a file may be written to     *)
(* after it was listed as one of the old ones, and is removed all the same.*)
KeepsTheNewest ==
  \A f \in Ids : ~files[f].linked =>
    Cardinality({g \in Present(files[f].dir) : files[g].mtime >= files[f].mtime})
      >= KeepFiles

(* "The current symlink target (`node.{ext}`) is never deleted"            *)
(* (rotation.rs:16).                                                       *)
SymlinkTargetKept ==
  \A d \in Dirs : symlink[d] # None =>
    \E f \in Present(d) : files[f].name = symlink[d]
=============================================================================
