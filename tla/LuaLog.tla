------------------------------- MODULE LuaLog -------------------------------
(***************************************************************************)
(* The asynchronous logger of lualib-src/lua-log.c.  Callers (the service  *)
(* lualib/log.lua) append to a current buffer under a mutex; one worker    *)
(* thread takes the buffers away every flush_interval, writes them and     *)
(* rolls the file by size and by day.                                      *)
(*                                                                         *)
(* A buffer is the sequence of its messages and a message has length one,  *)
(* so BufferSize, RollSize and written count messages.  A linked list of   *)
(* buffers is a sequence of buffers.  Whatever a thread does between lock  *)
(* and unlock is one step.                                                 *)
(***************************************************************************)
EXTENDS Naturals, Sequences, FiniteSets

CONSTANTS BufferSize,   \* LOG_BUFFER_SIZE
          MaxBuffers,   \* more waiting buffers than this are cut down to two
          RollSize,     \* inst.rollsize
          Faults,       \* the calls that may fail: "mkdir", "fopen"
          MaxMessages,  \* bound: messages logged
          MaxDays       \* bound: changes of day

ASSUME LogAssumption ==
  /\ BufferSize \in Nat \ {0, 1}
  /\ MaxBuffers \in Nat \ {0, 1}
  /\ RollSize \in Nat \ {0}
  /\ Faults \subseteq {"mkdir", "fopen"}
  /\ MaxMessages \in Nat
  /\ MaxDays \in Nat

VARIABLES
  curr,      \* inst.curr_buffer
  spare,     \* inst.next_buffer is there
  buffers,   \* inst.buffers: full buffers, oldest first
  running,   \* inst.running
  handle,    \* inst.handle: 0 for NULL, otherwise an index of files
  written,   \* inst.written_bytes
  mday,      \* inst.roll_mday
  files,     \* every file opened, stdout included
  wpc,       \* where the worker is
  toWrite,   \* its buffers_to_write
  free1,     \* its new_buffer1 is there
  free2,     \* its new_buffer2 is there
  host,      \* the calling side: "up", "join", "closed"; "dead" after exit()
  day,       \* the calendar
  sent,      \* history: messages accepted
  lost       \* history: messages dropped

shared == <<curr, spare, buffers>>
disk   == <<handle, written, mday, files>>
worker == <<wpc, toWrite, free1, free2>>
vars   == <<shared, disk, worker, running, host, day, sent, lost>>

Notice == 0   \* "Dropped log messages at ..."

File(std) == [data |-> <<>>, open |-> TRUE, std |-> std]

\* The messages of a list of buffers, in order.
Flat(list) ==
  LET f[n \in 0 .. Len(list)] == IF n = 0 THEN <<>> ELSE f[n - 1] \o list[n]
  IN  f[Len(list)]

----------------------------------------------------------------------------
(***************************************************************************)
(* rollfile: the outcomes of a call with written counter w and files fs.   *)
(* The old file is closed only if something was written; the counter is    *)
(* reset only if it had reached RollSize, and then the file just opened is *)
(* closed again for yet another one.  After a failed fopen the log goes to *)
(* stdout for good; a failed mkdir or opendir ends the process.            *)
(***************************************************************************)
Outcome(h, w, d, fs, ok) ==
  [handle |-> h, written |-> w, mday |-> d, files |-> fs, alive |-> ok]

Closed(fs, h) == [fs EXCEPT ![h].open = FALSE]

OpenNext(fs, w, d, old) ==
  LET n == Len(fs) + 1 IN
  {Outcome(n, w, d, Append(fs, File(FALSE)), TRUE)} \cup
  {Outcome(n, w, old, Append(fs, File(TRUE)), TRUE) : x \in Faults \cap {"fopen"}}

RollFile(w, fs) ==
  IF handle # 0 /\ fs[handle].std
  THEN {Outcome(handle, w, mday, fs, TRUE)}
  ELSE LET fs0   == IF handle # 0 /\ w > 0 THEN Closed(fs, handle) ELSE fs
           first == OpenNext(fs0, w, day, mday)
       IN  {Outcome(handle, w, mday, fs0, FALSE) : x \in Faults \cap {"mkdir"}}
           \cup UNION {IF w >= RollSize /\ ~o.files[o.handle].std
                       THEN OpenNext(Closed(o.files, o.handle), 0, day, mday)
                       ELSE {o} : o \in first}

SetDisk(o) ==
  /\ handle' = o.handle
  /\ written' = o.written
  /\ mday' = o.mday
  /\ files' = o.files

(***************************************************************************)
(* append: to the current buffer if it fits; otherwise the buffer joins    *)
(* the waiting ones and the spare, or a new one, takes the message.        *)
(***************************************************************************)
Put(m) ==
  IF Len(curr) + 1 < BufferSize
  THEN /\ curr' = Append(curr, m)
       /\ UNCHANGED <<spare, buffers>>
  ELSE /\ buffers' = Append(buffers, curr)
       /\ curr' = <<m>>
       /\ spare' = FALSE

----------------------------------------------------------------------------
\* linit: two empty buffers, no file, the worker just created.
Init ==
  /\ curr = <<>> /\ spare = TRUE /\ buffers = <<>>
  /\ handle = 0 /\ written = 0 /\ mday = 0 /\ files = <<>>
  /\ wpc = "start" /\ toWrite = <<>> /\ free1 = FALSE /\ free2 = FALSE
  /\ running = TRUE /\ host = "up" /\ day = 1
  /\ sent = 0 /\ lost = <<>>

Accepted == sent + 1

\* ldebug .. lerror for a message that passes the level and length tests.
Log ==
  /\ host = "up"
  /\ sent < MaxMessages
  /\ Put(Accepted)
  /\ sent' = Accepted
  /\ UNCHANGED <<disk, worker, running, host, day, lost>>

\* lfatal: the message is appended, then log_exit as below (and abort).
Fatal ==
  /\ host = "up"
  /\ sent < MaxMessages
  /\ Put(Accepted)
  /\ sent' = Accepted
  /\ running' = FALSE
  /\ host' = "join"
  /\ UNCHANGED <<disk, worker, day, lost>>

\* log_exit up to the pthread_join: no lock, no signal to the worker.
Exit ==
  /\ host = "up"
  /\ running' = FALSE
  /\ host' = "join"
  /\ UNCHANGED <<shared, disk, worker, day, sent, lost>>

\* log_exit when the worker has returned.
Joined ==
  /\ host = "join" /\ wpc = "done"
  /\ host' = "closed"
  /\ files' = IF handle # 0 THEN Closed(files, handle) ELSE files
  /\ UNCHANGED <<shared, handle, written, mday, worker, running, day, sent, lost>>

NewDay ==
  /\ host # "dead"
  /\ day < MaxDays
  /\ day' = day + 1
  /\ UNCHANGED <<shared, disk, worker, running, host, sent, lost>>

----------------------------------------------------------------------------
Alive(o) == host' = IF o.alive THEN host ELSE "dead"

\* worker_func: the first file and the two free buffers.
WorkerStart ==
  /\ wpc = "start" /\ host # "dead"
  /\ \E o \in RollFile(written, files) : SetDisk(o) /\ Alive(o)
  /\ free1' = TRUE /\ free2' = TRUE
  /\ wpc' = "top"
  /\ UNCHANGED <<shared, toWrite, running, day, sent, lost>>

\* while (inst.running), read without the lock.
WorkerTop ==
  /\ wpc = "top" /\ host # "dead"
  /\ wpc' = IF running THEN "lock" ELSE "done"
  /\ UNCHANGED <<shared, disk, toWrite, free1, free2, running, host, day, sent, lost>>

\* Nothing waits: pthread_cond_timedwait gives up the lock.
WorkerWait ==
  /\ wpc = "lock" /\ host # "dead"
  /\ buffers = <<>>
  /\ wpc' = "wait"
  /\ UNCHANGED <<shared, disk, toWrite, free1, free2, running, host, day, sent, lost>>

\* Mutants of WorkerSwap: the current buffer overtakes the waiting ones, or
\* the timeout does not end the wait.
WorkerSwapOvertakes ==
  /\ wpc = "wait" \/ (wpc = "lock" /\ buffers # <<>>)
  /\ host # "dead"
  /\ \E o \in IF mday # day THEN RollFile(written, files)
              ELSE {Outcome(handle, written, mday, files, TRUE)} :
       SetDisk(o) /\ Alive(o)
  /\ toWrite' = <<curr>> \o buffers
  /\ buffers' = <<>>
  /\ curr' = <<>> /\ free1' = FALSE
  /\ spare' = TRUE /\ free2' = (free2 /\ spare)
  /\ wpc' = IF Len(buffers) + 1 > MaxBuffers THEN "drop" ELSE "write"
  /\ UNCHANGED <<running, day, sent, lost>>

WorkerSwapUntimed ==
  /\ wpc \in {"wait", "lock"} /\ buffers # <<>>
  /\ host # "dead"
  /\ \E o \in IF mday # day THEN RollFile(written, files)
              ELSE {Outcome(handle, written, mday, files, TRUE)} :
       SetDisk(o) /\ Alive(o)
  /\ toWrite' = Append(buffers, curr)
  /\ buffers' = <<>>
  /\ curr' = <<>> /\ free1' = FALSE
  /\ spare' = TRUE /\ free2' = (free2 /\ spare)
  /\ wpc' = IF Len(buffers) + 1 > MaxBuffers THEN "drop" ELSE "write"
  /\ UNCHANGED <<running, day, sent, lost>>

(***************************************************************************)
(* The critical section: on a new day the file is rolled; the current      *)
(* buffer joins the others and all are taken away; the free buffers become *)
(* the current one and, if it is missing, the spare one.  A worker that    *)
(* waits gets here by the signal, the timeout or a spurious wakeup.        *)
(***************************************************************************)
WorkerSwap ==
  /\ wpc = "wait" \/ (wpc = "lock" /\ buffers # <<>>)
  /\ host # "dead"
  /\ \E o \in IF mday # day THEN RollFile(written, files)
              ELSE {Outcome(handle, written, mday, files, TRUE)} :
       SetDisk(o) /\ Alive(o)
  /\ toWrite' = Append(buffers, curr)
  /\ buffers' = <<>>
  /\ curr' = <<>> /\ free1' = FALSE
  /\ spare' = TRUE /\ free2' = (free2 /\ spare)
  /\ wpc' = IF Len(buffers) + 1 > MaxBuffers THEN "drop" ELSE "write"
  /\ UNCHANGED <<running, day, sent, lost>>

\* Mutant of WorkerDrop: all buffers but one are freed.
WorkerDropToOne ==
  /\ wpc = "drop" /\ host # "dead"
  /\ Put(Notice)
  /\ toWrite' = SubSeq(toWrite, 1, 1)
  /\ lost' = lost \o Flat(SubSeq(toWrite, 2, Len(toWrite)))
  /\ wpc' = "write"
  /\ UNCHANGED <<disk, free1, free2, running, host, day, sent>>

\* A backlog: a notice is appended and all buffers but two are freed.
WorkerDrop ==
  /\ wpc = "drop" /\ host # "dead"
  /\ Put(Notice)
  /\ toWrite' = SubSeq(toWrite, 1, 2)
  /\ lost' = lost \o Flat(SubSeq(toWrite, 3, Len(toWrite)))
  /\ wpc' = "write"
  /\ UNCHANGED <<disk, free1, free2, running, host, day, sent>>

\* Mutant of WorkerWrite: only the last of the buffers is counted.
WorkerWriteLast ==
  LET w  == written + Len(toWrite[Len(toWrite)])
      fs == [files EXCEPT ![handle].data = @ \o Flat(toWrite)]
  IN
  /\ wpc = "write" /\ host # "dead"
  /\ \E o \in IF w > RollSize THEN RollFile(w, fs)
              ELSE {Outcome(handle, w, mday, fs, TRUE)} :
       SetDisk(o) /\ Alive(o)
  /\ free1' = TRUE /\ free2' = TRUE
  /\ toWrite' = <<>>
  /\ wpc' = "top"
  /\ UNCHANGED <<shared, running, day, sent, lost>>

(***************************************************************************)
(* The buffers are written and the file is rolled by size; then one buffer *)
(* is kept for each free buffer that was given away and the rest is freed. *)
(***************************************************************************)
WorkerWrite ==
  LET data == Flat(toWrite)
      w    == written + Len(data)
      fs   == [files EXCEPT ![handle].data = @ \o data]
  IN
  /\ wpc = "write" /\ host # "dead"
  /\ \E o \in IF w > RollSize THEN RollFile(w, fs)
              ELSE {Outcome(handle, w, mday, fs, TRUE)} :
       SetDisk(o) /\ Alive(o)
  /\ free1' = TRUE /\ free2' = TRUE
  /\ toWrite' = <<>>
  /\ wpc' = "top"
  /\ UNCHANGED <<shared, running, day, sent, lost>>

Worker == WorkerStart \/ WorkerTop \/ WorkerWait \/ WorkerSwap \/ WorkerDrop \/ WorkerWrite

Next == Log \/ Fatal \/ Exit \/ Joined \/ NewDay \/ Worker

Spec == Init /\ [][Next]_vars

\* The kernel schedules the worker, whose wait has a timeout.
FairSpec == Spec /\ WF_vars(Worker) /\ WF_vars(Joined)

----------------------------------------------------------------------------
\* Every variable keeps its type: the three lists hold buffers of messages.
TypeOK ==
  /\ curr \in Seq(Nat) /\ spare \in BOOLEAN /\ buffers \in Seq(Seq(Nat))
  /\ running \in BOOLEAN
  /\ handle \in 0 .. Len(files) /\ written \in Nat /\ mday \in Nat
  /\ files \in Seq([data : Seq(Nat), open : BOOLEAN, std : BOOLEAN])
  /\ wpc \in {"start", "top", "lock", "wait", "drop", "write", "done"}
  /\ toWrite \in Seq(Seq(Nat)) /\ free1 \in BOOLEAN /\ free2 \in BOOLEAN
  /\ host \in {"up", "join", "closed", "dead"}
  /\ day \in Nat /\ sent \in Nat /\ lost \in Seq(Nat)

(***************************************************************************)
(* The assertions of worker_func hold (lua-log.c:225-227, 263, 309, 318):  *)
(* the list taken away has a buffer for each free buffer that was given to *)
(* the callers, even when a backlog was cut down; a worker that is about   *)
(* to swap has both; the callers run out of the spare only if a full       *)
(* buffer is waiting, which is why the list is then long enough.           *)
(***************************************************************************)
Missing == (IF free1 THEN 0 ELSE 1) + (IF free2 THEN 0 ELSE 1)

BuffersSuffice ==
  /\ wpc \in {"drop", "write"} => Len(toWrite) >= Missing
  /\ wpc \in {"top", "lock", "wait"} => free1 /\ free2
  /\ ~spare => buffers # <<>>

(***************************************************************************)
(* The file in use is one that is open for writing, and its counter never  *)
(* says less than the file holds, so that no file grows past RollSize and  *)
(* one batch (rollfile, lua-log.c:91-151).                                 *)
(***************************************************************************)
RollsInTime ==
  /\ handle # 0 /\ host \notin {"closed", "dead"} => files[handle].open
  /\ handle # 0 /\ host # "dead" /\ wpc \notin {"drop", "write", "start"} /\ ~files[handle].std
       => Len(files[handle].data) <= RollSize
  /\ handle # 0 => Len(files[handle].data) <= written \/ files[handle].std

\* The abstract stream this logger implements.
Stored == Flat([i \in DOMAIN files |-> files[i].data])
Waiting == Flat(toWrite) \o Flat(buffers) \o curr

Stream == INSTANCE LogStream WITH
            Messages <- 1 .. MaxMessages,
            Backlog  <- MaxBuffers * (BufferSize - 1),
            queue    <- Waiting,
            stored   <- Stored,
            lost     <- lost

(***************************************************************************)
(* The logger implements LogStream: nothing overtakes, nothing is written  *)
(* twice and nothing disappears but the middle of a backlog, whatever the  *)
(* interleaving of callers and worker, rolls and failing files included.   *)
(***************************************************************************)
ImplementsStream == Stream!StreamSpec

(***************************************************************************)
(* While the logger is not told to stop, every accepted message reaches    *)
(* the file or is dropped with a notice (worker_func's wait has a timeout).*)
(***************************************************************************)
InSeq(m, s) == \E i \in DOMAIN s : s[i] = m

EventuallyWritten ==
  \A m \in 1 .. MaxMessages :
    sent >= m ~> InSeq(m, Stored) \/ InSeq(m, lost) \/ host # "up"
=============================================================================
