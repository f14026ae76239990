------------------------------- MODULE LogFile -------------------------------
(* The log files behind the loggers (logger/log_file_object.cc): one object  *)
(* per module, found or made by Logger::Write (logger/logger.cc, any thread) *)
(* or by AsyncLogger::FlushBuffer (its log thread), until the logger's       *)
(* destructor.  A message is a number; it and the header of a file count one *)
(* unit of length.  stdio keeps up to StdioBuf messages of a file in memory; *)
(* the disk has room for some.  Nobody calls SetBasename or SetExtension, so *)
(* an object keeps the non-empty base name it was made with.                 *)
EXTENDS Integers, Sequences, FiniteSets, SequencesExt

CONSTANTS
    Writers, Modules,  \* threads that log; names between the brackets
    Group,             \* the process group: module of a message without brackets
    None,              \* nullptr
    MaxLogSize,        \* length from which a file is closed
    kRolloverAttemptFrequency,
    LogBufSecs,        \* seconds between two flushes
    FlushLength,       \* unflushed length that makes Write flush: 10^6 bytes
    StdioBuf,          \* messages stdio buffers before it writes
    StopIfFull,        \* FLAGS_stop_logging_if_full_disk
    Budgets            \* records [mode, msgs, time, faults, room]

VARIABLES
    b,                 \* the bounds and the kind of logger of this behaviour
    now, pid,          \* the clock; getpid()
    main, room,        \* g_main_thread_pid; free units of the disk
    stop_writing,
    objs,              \* moduleLoggerMap
    disk,              \* the files: their names, in order of creation, and contents
    link,              \* what <module>.INFO points at
    wpc,               \* a writer's message on its way to its object, or None
    last,              \* FlushBuffer's module_name, kept between messages of a buffer
    sent,              \* messages logged: <<module, forced>>
    lost               \* why messages are missing: number -> reason

vars == <<b, now, pid, main, room, stop_writing, objs, disk, link, wpc, last, sent, lost>>

LogFileConstants ==
    /\ MaxLogSize \in Nat \ {0} /\ kRolloverAttemptFrequency \in Nat \ {0}
    /\ LogBufSecs \in Nat /\ StdioBuf \in Nat \ {0} /\ FlushLength \in Nat \ {0, 1}

\* LogFileObject's constructor, and SetSymlinkBasename of the module's name.
NewObject == [file |-> None, buf |-> <<>>, since |-> 0, length |-> 0,
              attempt |-> kRolloverAttemptFrequency - 1, next |-> 0]

Init ==
    /\ b \in Budgets /\ now = 0 /\ pid = 0 /\ main = 0 /\ room = b.room /\ stop_writing = FALSE
    /\ objs = <<>> /\ disk = <<>> /\ link = <<>>
    /\ wpc = [w \in Writers |-> None] /\ last = None /\ sent = <<>> /\ lost = <<>>

-----------------------------------------------------------------------------
(* Finding the object.                                                       *)

\* FindModuleName: the brackets' name; else the name kept, else the group's.
FindModuleName(name, kept) ==
    IF name # None THEN name ELSE IF kept # None THEN kept ELSE Group

\* Logger::Write starts with no name and holds mutex_; the log thread is alone.
Lookup(w, name, force) ==
    /\ wpc[w] = None /\ Len(sent) < b.msgs
    /\ b.mode = "async" => \A v \in Writers : wpc[v] = None
    /\ LET m == FindModuleName(name, IF b.mode = "async" THEN last ELSE None) IN
       /\ objs' = objs @@ (m :> NewObject)
       /\ last' = m
       /\ sent' = Append(sent, <<m, force>>)
       /\ wpc' = [wpc EXCEPT ![w] = [m |-> m, msg |-> Len(sent) + 1, force |-> force, ts |-> now]]
    /\ UNCHANGED <<b, now, pid, main, room, stop_writing, disk, link, lost>>

-----------------------------------------------------------------------------
(* stdio.  A state s is [o, room, disk, main, cut]: an object, the room, the *)
(* files, the known process and the messages the disk had no room for.       *)

StateOf(m) == [o |-> objs[m], room |-> room, disk |-> disk, main |-> main, cut |-> {}]

Index(s) == CHOOSE i \in DOMAIN s.disk : s.disk[i].name = s.o.file

\* fflush and the end of fclose: what the disk takes of the buffer.
Flushed(s) ==
    LET n == IF Len(s.o.buf) <= s.room THEN Len(s.o.buf) ELSE s.room IN
    IF s.o.file = None THEN s
    ELSE [s EXCEPT !.o.buf = <<>>, !.room = @ - n,
                   !.cut = @ \cup {s.o.buf[i] : i \in (n + 1)..Len(s.o.buf)},
                   !.disk[Index(s)].data = @ \o SubSeq(s.o.buf, 1, n)]

\* fwrite reports a full disk only when the buffer has to be written.
Fwrite(s, msg) ==
    IF Len(s.o.buf) < StdioBuf THEN [s EXCEPT !.o.buf = Append(@, msg)]
    ELSE [Flushed(s) EXCEPT !.o.buf = <<msg>>]
Enospc(s) == Len(s.o.buf) = StdioBuf /\ s.room < StdioBuf

FlushUnlocked(s) ==
    [Flushed(s) EXCEPT !.o.since = IF s.o.file = None THEN @ ELSE 0,
                       !.o.next = now + LogBufSecs]

-----------------------------------------------------------------------------
(* LogFileObject::Write, under the object's lock.                            *)

\* A full file is closed, and after a fork that of the first object to notice.
MustRotate(o) == o.length >= MaxLogSize \/ main # pid
Closed(s) == [s EXCEPT !.o = [NewObject EXCEPT !.next = s.o.next],
                       !.main = IF s.o.length >= MaxLogSize THEN @ ELSE pid]

Rotated_Unflushed(s) == IF MustRotate(s.o) THEN Closed(s) ELSE s
Rotated(s) == IF MustRotate(s.o) THEN Closed(Flushed(s)) ELSE s

\* The file's name has the message's second and the process in it.
FileName(w, s) == <<wpc[w].m, wpc[w].ts, s.main>>
Exists(s, name) == \E i \in DOMAIN s.disk : s.disk[i].name = name

\* CreateLogfile: O_EXCL refuses a name in use; the disk may refuse as well.
CreateLogfile(s, name) ==
    [s EXCEPT !.o.file = name, !.o.attempt = 0, !.disk = Append(@, [name |-> name, data |-> <<>>])]

\* A header in front, counted like a message.
Headed(s) == [Fwrite(s, 0) EXCEPT !.o.length = @ + 1, !.o.since = @ + 1]

Counted(s) == [s EXCEPT !.o.length = @ + 1, !.o.since = @ + 1]

Return(w, s, reason) ==
    /\ objs' = [objs EXCEPT ![wpc[w].m] = s.o]
    /\ disk' = s.disk /\ room' = s.room /\ main' = s.main
    /\ lost' = (IF reason = None THEN <<>> ELSE (wpc[w].msg :> reason))
                  @@ [i \in s.cut \ {0} |-> "full"] @@ lost
    /\ wpc' = [wpc EXCEPT ![w] = None]
    /\ UNCHANGED <<now, pid, last, sent>>

\* The rest of Write, once there is a file.
WriteMessage(w, s) ==
    \/ /\ ~stop_writing /\ StopIfFull /\ Enospc(s)
       /\ stop_writing' = TRUE
       /\ Return(w, Flushed(s), "full")
    \/ /\ ~stop_writing /\ ~(StopIfFull /\ Enospc(s))
       /\ LET t == Counted(Fwrite(s, wpc[w].msg)) IN
          Return(w, IF wpc[w].force \/ t.o.since >= FlushLength \/ now >= t.o.next
                    THEN FlushUnlocked(t) ELSE t, None)
       /\ UNCHANGED stop_writing
    \/ /\ stop_writing
       /\ stop_writing' = (now < s.o.next)
       /\ Return(w, s, "full")

\* Without a file only every kRolloverAttemptFrequency-th message tries.
Write(w) ==
    /\ wpc[w] # None
    /\ LET s == Rotated(StateOf(wpc[w].m))
           tries == s.o.attempt + 1 = kRolloverAttemptFrequency
       IN
       \/ /\ s.o.file # None
          /\ WriteMessage(w, s) /\ UNCHANGED <<b, link>>
       \/ /\ s.o.file = None /\ ~tries
          /\ Return(w, [s EXCEPT !.o.attempt = @ + 1], "waits")
          /\ UNCHANGED <<b, link, stop_writing>>
       \/ /\ s.o.file = None /\ tries
          /\ \/ Exists(s, FileName(w, s)) /\ UNCHANGED b
             \/ b.faults > 0 /\ b' = [b EXCEPT !.faults = @ - 1]
          /\ Return(w, [s EXCEPT !.o.attempt = 0], "refused")
          /\ UNCHANGED <<link, stop_writing>>
       \/ /\ s.o.file = None /\ tries /\ ~Exists(s, FileName(w, s))
          /\ link' = (wpc[w].m :> FileName(w, s)) @@ link
          /\ WriteMessage(w, Headed(CreateLogfile(s, FileName(w, s)))) /\ UNCHANGED b

\* AsyncLogger::Flush by another thread: an object under its lock.  Logger's
\* Flush is the wrapped logger's and leaves these files alone.
Flush(m) ==
    /\ b.mode = "async" /\ m \in DOMAIN objs
    /\ LET s == FlushUnlocked(StateOf(m)) IN
       /\ objs' = [objs EXCEPT ![m] = s.o] /\ disk' = s.disk /\ room' = s.room
       /\ lost' = [i \in s.cut \ {0} |-> "full"] @@ lost
    /\ UNCHANGED <<b, now, pid, main, stop_writing, link, wpc, last, sent>>

\* The objects of the map in the order q, each flushed.
FlushInOrder(q) ==
    FoldLeft(LAMBDA t, m :
                LET s == FlushUnlocked([t EXCEPT !.o = t.objs[m]]) IN
                [s EXCEPT !.objs[m] = s.o],
             [objs |-> objs, o |-> None, room |-> room, disk |-> disk, main |-> main, cut |-> {}], q)
FlushAll(t) ==
    /\ disk' = t.disk /\ room' = t.room
    /\ lost' = [i \in t.cut \ {0} |-> "full"] @@ lost
    /\ UNCHANGED <<now, pid, main, stop_writing, link, wpc, sent>>

\* FlushBuffer's end: the buffer is empty and its module_name gone.
EndBuffer ==
    /\ b.mode = "async" /\ \A w \in Writers : wpc[w] = None
    /\ last' = None
    /\ \E q \in SetToSeqs(DOMAIN objs) :
          LET t == FlushInOrder(q) IN objs' = t.objs /\ FlushAll(t)
    /\ UNCHANGED b

\* The logger's destructor closes every object's file; nothing is logged after.
Destroy ==
    /\ objs # <<>> /\ \A w \in Writers : wpc[w] = None
    /\ b' = [b EXCEPT !.msgs = Len(sent)]
    /\ \E q \in SetToSeqs(DOMAIN objs) : FlushAll(FlushInOrder(q))
    /\ objs' = <<>> /\ UNCHANGED last

\* The clock, room made on the disk, and a fork between messages, after which
\* the child is followed: the parent, a launcher, logs no more.
Tick == now < b.time /\ now' = now + 1
        /\ UNCHANGED <<b, pid, main, room, stop_writing, objs, disk, link, wpc,
                       last, sent, lost>>

Fork == b.faults > 0 /\ (\A w \in Writers : wpc[w] = None) /\ b' = [b EXCEPT !.faults = @ - 1] /\ pid' = pid + 1
        /\ UNCHANGED <<now, main, room, stop_writing, objs, disk, link, wpc,
                       last, sent, lost>>

MakeRoom == b.faults > 0 /\ b' = [b EXCEPT !.faults = @ - 1] /\ room' = room + b.room
            /\ UNCHANGED <<now, pid, main, stop_writing, objs, disk, link, wpc,
                           last, sent, lost>>

Next ==
    \/ \E w \in Writers :
          \/ \E name \in Modules \cup {None}, force \in BOOLEAN : Lookup(w, name, force)
          \/ Write(w)
    \/ \E m \in Modules \cup {Group} : Flush(m)
    \/ EndBuffer \/ Destroy
    \/ Tick \/ Fork \/ MakeRoom

Spec == Init /\ [][Next]_vars

-----------------------------------------------------------------------------
FilesOf(m) == SelectSeq(disk, LAMBDA f : f.name[1] = m)
OnDisk(m) == SelectSeq(FlattenSeq([i \in DOMAIN FilesOf(m) |-> FilesOf(m)[i].data]),
                       LAMBDA x : x # 0)
Contents(m) ==
    OnDisk(m) \o SelectSeq(IF m \in DOMAIN objs THEN objs[m].buf ELSE <<>>, LAMBDA x : x # 0)
Done == {i \in DOMAIN sent : \A w \in Writers : wpc[w] = None \/ wpc[w].msg # i}

\* Through rotation, failed creation, forks and a full disk, every message whose
\* Write has returned is exactly once in its module's files and buffer, unless
\* it is one Write dropped, and after the destructor in the files alone; the log
\* thread's messages keep their order.
KeptOnceOrDropped ==
    \A m \in Modules \cup {Group} :
        /\ \A i \in DOMAIN sent : sent[i][1] = m =>
              Cardinality({k \in DOMAIN Contents(m) : Contents(m)[k] = i})
                  = IF i \in Done /\ i \notin DOMAIN lost THEN 1 ELSE 0
        /\ b.mode = "async" =>
              \A k \in 1..(Len(Contents(m)) - 1) : Contents(m)[k] < Contents(m)[k + 1]

\* "See important msgs *now*": what was logged with force_flush, and what its
\* file held before, survives the end of the process.
ForcedIsOnDisk ==
    \A i \in Done : sent[i][2] /\ i \notin DOMAIN lost =>
        \E k \in DOMAIN OnDisk(sent[i][1]) : OnDisk(sent[i][1])[k] = i

\* While a file cannot be made only kRolloverAttemptFrequency - 1 messages in a
\* row go without an attempt; files outgrow MaxLogSize by no more than the
\* message that reached it, and hold less than FlushLength unflushed; the link
\* names the newest file.
FilesBounded ==
    \A m \in DOMAIN objs :
        /\ objs[m].attempt < kRolloverAttemptFrequency /\ objs[m].since < FlushLength
        /\ \A i \in DOMAIN lost : (lost[i] = "waits" /\ sent[i][1] = m /\ b.mode = "async") =>
              \E j \in (i - kRolloverAttemptFrequency + 1)..(i - 1) :
                  \/ (j \in DOMAIN lost /\ lost[j] = "refused")
                  \/ sent[j][1] # m
        /\ \A k \in DOMAIN FilesOf(m) :
              Len(FilesOf(m)[k].data) <= IF MaxLogSize < 2 THEN 2 ELSE MaxLogSize
        /\ m \in DOMAIN link => link[m] = FilesOf(m)[Len(FilesOf(m))].name
=============================================================================
