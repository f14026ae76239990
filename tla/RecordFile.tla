----------------------------- MODULE RecordFile -----------------------------
(***************************************************************************)
(* Recording into files: RecordWriter (record/record_writer.cc), the       *)
(* RecordFileWriter below it with its flush thread (record/file/), the     *)
(* Recorder above it (tools/cyber_recorder/recorder.cc), and what the      *)
(* Recoverer finds in a file after a crash (recoverer.cc).                 *)
(*                                                                         *)
(* Each channel has one thread that calls ReaderCallback.  A message is    *)
(* its number in the order in which WriteMessage takes them.  A crash may  *)
(* leave the last section half written.  The file is new: Open does not    *)
(* truncate, so the rest of a longer old file would follow the sections.   *)
(***************************************************************************)
EXTENDS Naturals, Sequences, SequencesExt, FiniteSetsExt

CONSTANTS
  Channels,
  ChunkRawSize, SegmentRawSize,  \* sizes, in messages, above which a chunk or a file is full
  MaxMsgs,                       \* bound: messages
  MaxFails                       \* bound: failing writes of a chunk

RecordFileConstants == {ChunkRawSize, SegmentRawSize, MaxMsgs, MaxFails} \subseteq Nat

VARIABLES
  segmented,       \* header_.segment_raw_size() > 0
  is_stopping_,    \* of the Recorder
  start,           \* how far Start of the Recorder is
  joined,          \* channels that have a writer
  found,           \* those that FindNewChannel is (to be) called for
  unseen,          \* history: those that joined between GetWriters and AddChangeListener
  channels,        \* channel_message_number_map_ of the RecordWriter
  wpc,             \* where each channel's thread is
  segment_raw_size_,
  file, index_,    \* the sections of the file; the positions of those in the index
  header_, disk,   \* the header in memory, and in the file
  chunk_active_, chunk_flush_,
  is_writing_,
  fpc,             \* the flush thread
  cpc, closer,     \* Close of the file writer, and the thread in it
  finished,        \* the files closed before this one
  taken,           \* history: messages that WriteMessage has taken
  late,            \*   a ReaderCallback was in WriteMessage during Close
  failed,          \*   those of chunks that could not be written
  overtaken,       \*   a chunk was swapped out before the one before it was flushed
  missed,          \*   Close's last notification came before the flush thread slept
  fails, crashed

vars == <<segmented, is_stopping_, start, joined, found, unseen, channels, wpc, segment_raw_size_, file, index_, header_, disk,
          chunk_active_, chunk_flush_, is_writing_, fpc, cpc, closer, finished, taken, late, failed,
          overtaken, missed, fails, crashed>>

NewHeader == [complete |-> FALSE, channels |-> 0, chunks |-> 0, messages |-> 0, index |-> 0]

(* RecordWriter::Open, which opens the file and writes the header. *)
Open ==
  /\ segment_raw_size_ = 0 /\ file = <<>> /\ index_ = <<>> /\ header_ = NewHeader /\ disk = NewHeader
  /\ chunk_active_ = <<>> /\ chunk_flush_ = <<>> /\ is_writing_ = TRUE /\ fpc = "top"

(* Recorder::Start, up to the search for writers. *)
Init ==
  /\ segmented \in BOOLEAN
  /\ is_stopping_ = FALSE /\ start = "opened" /\ joined = {} /\ found = {} /\ unseen = {}
  /\ channels = {} /\ wpc = [c \in Channels |-> "idle"] /\ Open /\ cpc = "no" /\ closer = "nobody" /\ finished = <<>>
  /\ taken = 0 /\ late = FALSE /\ failed = {} /\ overtaken = FALSE /\ missed = FALSE
  /\ fails = 0 /\ crashed = FALSE

(* RecordWriter::mutex_ is held during WriteMessage; flush_mutex_ by the   *)
(* flush thread from its predicate to its sleep and while it writes, and   *)
(* then mutex_ of the file writer too.                                     *)
WriterFree == \A c \in Channels : wpc[c] \in {"idle", "called"}
FlushFree == fpc \notin {"sleep", "header", "body", "clear"}
FileFree == fpc \notin {"header", "body"}

Bodies(f) == FlattenSeq([i \in 1 .. Len(f) |-> IF f[i].type = "CHUNK_BODY" THEN f[i].messages ELSE <<>>])

topology == <<start, joined, found, unseen>>
recorder == <<segmented, topology, channels, wpc, is_stopping_,
              segment_raw_size_, finished, crashed>>
history == <<taken, late, failed, overtaken, missed, fails>>
onDisk == <<file, index_, header_, disk>>
chunks == <<chunk_active_, chunk_flush_>>
closing == <<is_writing_, cpc, closer>>

-----------------------------------------------------------------------------
(* The Recorder and the RecordWriter *)

(* Start: GetWriters, and then AddChangeListener.  A writer that joins     *)
(* between the two is not noticed.                                         *)
InitReadersImpl ==
  /\ ~crashed /\ found = {}
  /\ \/ start = "opened" /\ start' = "finding" /\ found' = joined
     \/ start = "finding" /\ start' = "listening" /\ UNCHANGED found
     \/ start = "listening" /\ start' = "started" /\ UNCHANGED found
  /\ UNCHANGED <<segmented, is_stopping_, joined, unseen, channels, wpc, segment_raw_size_, finished,
                 crashed, onDisk, chunks, fpc, closing, history>>

(* A channel gets its writer; TopologyCallback when the Recorder listens.  *)
WriterJoins(c) ==
  /\ ~crashed /\ ~is_stopping_ /\ c \notin joined /\ joined' = joined \cup {c}
  /\ found' = IF start \in {"listening", "started"} THEN found \cup {c} ELSE found
  /\ unseen' = IF start = "finding" THEN unseen \cup {c} ELSE unseen
  /\ UNCHANGED <<segmented, is_stopping_, start, channels, wpc, segment_raw_size_, finished, crashed,
                 onDisk, chunks, fpc, closing, history>>

(* RecordFileWriter::WriteChannel *)
WithChannel(f, c) == Append(f, [type |-> "CHANNEL", channel |-> c])

(* WriteChannel of both writers, of a new channel. *)
WriteChannel(c) ==
  /\ WriterFree /\ FileFree /\ channels' = channels \cup {c}
  /\ file' = WithChannel(file, c)
  /\ index_' = Append(index_, Len(file'))
  /\ header_' = [header_ EXCEPT !.channels = @ + 1]

(* FindNewChannel: WriteChannel, then a reader of the channel. *)
FindNewChannel(c) ==
  /\ ~crashed /\ ~is_stopping_ /\ c \in found /\ found' = found \ {c} /\ WriteChannel(c)
  /\ UNCHANGED <<segmented, is_stopping_, start, joined, unseen, wpc, segment_raw_size_, finished, crashed, disk, chunks,
                 fpc, closing, history>>

(* ReaderCallback, past its test of is_stopping_ ... *)
ReaderCallback(c) ==
  /\ ~crashed /\ c \in channels /\ wpc[c] = "idle" /\ start = "started" /\ ~is_stopping_
  /\ taken + Cardinality({d \in Channels : wpc[d] = "called"}) < MaxMsgs
  /\ wpc' = [wpc EXCEPT ![c] = "called"]
  /\ UNCHANGED <<segmented, is_stopping_, topology, channels, segment_raw_size_, finished, crashed, onDisk,
                 chunks, fpc, closing, history>>

(* ... and in WriteMessage of both writers. *)
WriteMessage(c) ==
  /\ ~crashed /\ wpc[c] = "called" /\ WriterFree
  /\ taken' = taken + 1
  /\ late' = (late \/ cpc # "no")
  /\ chunk_active_' = Append(chunk_active_, taken')
  /\ wpc' = [wpc EXCEPT ![c] = IF Len(chunk_active_') > ChunkRawSize THEN "swap" ELSE "split"]
  /\ segment_raw_size_' = segment_raw_size_ + 1
  /\ UNCHANGED <<segmented, is_stopping_, topology, channels, finished, crashed, onDisk, chunk_flush_, fpc,
                 closing, failed, overtaken, missed, fails>>

(* Mutant: the chunk to flush is dropped. *)
Swap_Replaced(c) ==
  /\ ~crashed /\ wpc[c] = "swap" /\ FlushFree
  /\ chunk_flush_' = chunk_active_ /\ chunk_active_' = <<>>
  /\ overtaken' = (overtaken \/ chunk_flush_ # <<>>) /\ late' = (late \/ cpc # "no")
  /\ fpc' = IF fpc = "asleep" THEN "wait" ELSE fpc
  /\ wpc' = [wpc EXCEPT ![c] = "split"]
  /\ UNCHANGED <<segmented, is_stopping_, topology, channels, segment_raw_size_, finished, crashed, onDisk,
                 closing, taken, failed, missed, fails>>

(* The full chunk is exchanged with the one to flush, flushed or not. *)
Swap(c) ==
  /\ ~crashed /\ wpc[c] = "swap" /\ FlushFree
  /\ chunk_flush_' = chunk_active_ /\ chunk_active_' = chunk_flush_
  /\ overtaken' = (overtaken \/ chunk_flush_ # <<>>) /\ late' = (late \/ cpc # "no")
  /\ fpc' = IF fpc = "asleep" THEN "wait" ELSE fpc
  /\ wpc' = [wpc EXCEPT ![c] = "split"]
  /\ UNCHANGED <<segmented, is_stopping_, topology, channels, segment_raw_size_, finished, crashed, onDisk,
                 closing, taken, failed, missed, fails>>

(* WriteMessage of the RecordWriter goes on: the file is full, and is      *)
(* closed, or not.                                                         *)
Segment(c) ==
  /\ ~crashed /\ wpc[c] = "split"
  /\ IF segmented /\ segment_raw_size_ > SegmentRawSize
     THEN cpc' = "drain" /\ closer' = c /\ wpc' = [wpc EXCEPT ![c] = "closing"]
     ELSE wpc' = [wpc EXCEPT ![c] = "idle"] /\ UNCHANGED <<cpc, closer>>
  /\ UNCHANGED <<segmented, is_stopping_, topology, channels, segment_raw_size_, finished, crashed, onDisk,
                 chunks, is_writing_, fpc, history>>

(* SplitOutfile: the next file begins with the channels known so far. *)
SplitOutfile(c) ==
  /\ ~crashed /\ wpc[c] = "closing" /\ cpc = "closed"
  /\ finished' = Append(finished, [file |-> file, header |-> disk])
  /\ file' = FoldSet(LAMBDA d, f : WithChannel(f, d), <<>>, channels)
  /\ index_' = [i \in 1 .. Cardinality(channels) |-> i]
  /\ disk' = NewHeader /\ header_' = [NewHeader EXCEPT !.channels = Cardinality(channels)]
  /\ chunk_active_' = <<>> /\ chunk_flush_' = <<>> /\ segment_raw_size_' = 0
  /\ is_writing_' = TRUE /\ fpc' = "top" /\ cpc' = "no" /\ closer' = "nobody"
  /\ wpc' = [wpc EXCEPT ![c] = "idle"]
  /\ UNCHANGED <<segmented, is_stopping_, topology, channels, crashed, history>>

(* Recorder::Stop: Close of the file while ReaderCallbacks may still be in *)
(* WriteMessage, which has no test and Close no lock.  Of a segmented      *)
(* record only when none is: both would use file_writer_ at once.          *)
Stop ==
  /\ ~crashed /\ start = "started" /\ ~is_stopping_ /\ cpc = "no"
  /\ segmented => \A c \in Channels : wpc[c] = "idle"
  /\ is_stopping_' = TRUE /\ cpc' = "drain" /\ closer' = "recorder"
  /\ UNCHANGED <<segmented, topology, channels, wpc, segment_raw_size_, finished, crashed, onDisk, chunks,
                 is_writing_, fpc, history>>

-----------------------------------------------------------------------------
(* RecordFileWriter::Close *)

(* It waits until the chunk to flush is empty, ... *)
CloseDrain ==
  /\ ~crashed /\ cpc = "drain" /\ FlushFree /\ chunk_flush_ = <<>> /\ cpc' = "last"
  /\ UNCHANGED <<recorder, onDisk, chunks, is_writing_, fpc, closer, history>>

(* ... swaps in the last one, ... *)
CloseSwap ==
  /\ ~crashed /\ cpc = "last" /\ FlushFree /\ cpc' = "wait"
  /\ chunk_flush_' = chunk_active_ /\ chunk_active_' = chunk_flush_
  /\ fpc' = IF fpc = "asleep" THEN "wait" ELSE fpc
  /\ UNCHANGED <<recorder, onDisk, is_writing_, closer, history>>

(* ... waits again, and clears is_writing_ without the lock, ... *)
CloseStop ==
  /\ ~crashed /\ cpc = "wait" /\ FlushFree /\ chunk_flush_ = <<>> /\ cpc' = "notify"
  /\ is_writing_' = FALSE
  /\ UNCHANGED <<recorder, onDisk, chunks, fpc, closer, history>>

CloseNotify ==
  /\ ~crashed /\ cpc = "notify" /\ cpc' = "join"
  /\ fpc' = IF fpc = "asleep" THEN "wait" ELSE fpc
  /\ missed' = (fpc = "sleep")
  /\ UNCHANGED <<recorder, onDisk, chunks, is_writing_, closer, taken, late,
                 failed, overtaken, fails>>

(* ... and writes the index and, over the old one, the header. *)
WriteIndex ==
  /\ ~crashed /\ cpc = "join" /\ fpc = "done" /\ cpc' = "header"
  /\ file' = Append(file, [type |-> "INDEX", of |-> index_])
  /\ header_' = [header_ EXCEPT !.index = Len(file'), !.complete = TRUE]
  /\ UNCHANGED <<recorder, index_, disk, chunks, is_writing_, fpc, closer, history>>

WriteHeader ==
  /\ ~crashed /\ cpc = "header" /\ cpc' = "closed"
  /\ disk' = header_
  /\ UNCHANGED <<recorder, file, index_, header_, chunks, is_writing_, fpc,
                 closer, history>>

-----------------------------------------------------------------------------
(* Flush *)

FlushLoop ==
  /\ ~crashed /\ fpc \in {"top", "wait"}
  /\ fpc' = IF ~is_writing_ THEN "done" ELSE IF chunk_flush_ = <<>> THEN "sleep" ELSE "header"
  /\ UNCHANGED <<recorder, onDisk, chunks, closing, history>>

FlushSleep ==
  /\ ~crashed /\ fpc = "sleep" /\ fpc' = "asleep"
  /\ UNCHANGED <<recorder, onDisk, chunks, closing, history>>

(* WriteSection: the failure to write what follows the type and the size   *)
(* of a section is not seen.                                               *)
WriteSection(section) ==
  {section} \cup IF fails < MaxFails THEN {[type |-> "TORN"]} ELSE {}

(* WriteChunk: the section with the header of the chunk, ... *)
WriteChunkHeader ==
  /\ ~crashed /\ fpc = "header" /\ fpc' = "body"
  /\ \E s \in WriteSection([type |-> "CHUNK_HEADER", number |-> Len(chunk_flush_)]) :
       /\ file' = Append(file, s)
       /\ fails' = IF s.type = "TORN" THEN fails + 1 ELSE fails
  /\ index_' = Append(index_, Len(file'))
  /\ UNCHANGED <<recorder, header_, disk, chunks, closing, taken, late, failed,
                 overtaken, missed>>

(* ... and the one with its messages. *)
WriteChunkBody ==
  /\ ~crashed /\ fpc = "body" /\ fpc' = "clear"
  /\ \E s \in WriteSection([type |-> "CHUNK_BODY", messages |-> chunk_flush_]) :
       /\ file' = Append(file, s)
       /\ fails' = IF s.type = "TORN" THEN fails + 1 ELSE fails
       /\ failed' = IF s.type = "TORN" THEN failed \cup ToSet(chunk_flush_) ELSE failed
  /\ index_' = Append(index_, Len(file'))
  /\ header_' = [header_ EXCEPT !.chunks = @ + 1, !.messages = @ + Len(chunk_flush_)]
  /\ UNCHANGED <<recorder, disk, chunks, closing, taken, late, overtaken, missed>>

(* Or the failure is seen, with some of it in the file or nothing: the     *)
(* chunk is dropped.                                                       *)
WriteFails ==
  /\ ~crashed /\ fpc \in {"header", "body"} /\ fails < MaxFails /\ fpc' = "clear"
  /\ fails' = fails + 1 /\ failed' = failed \cup ToSet(chunk_flush_)
  /\ file' \in {file, Append(file, [type |-> "TORN"])}
  /\ UNCHANGED <<recorder, index_, header_, disk, chunks, closing, taken, late,
                 overtaken, missed>>

FlushClear ==
  /\ ~crashed /\ fpc = "clear" /\ fpc' = "top" /\ chunk_flush_' = <<>>
  /\ UNCHANGED <<recorder, onDisk, chunk_active_, closing, history>>

(* The process dies; the section that it writes is half there. *)
Crash ==
  /\ ~crashed /\ crashed' = TRUE
  /\ file' = IF fpc \in {"header", "body"} THEN Append(file, [type |-> "TORN"]) ELSE file
  /\ UNCHANGED <<segmented, is_stopping_, topology, channels, wpc, segment_raw_size_, finished, index_, header_,
                 disk, chunks, fpc, closing, history>>

Next ==
  \/ InitReadersImpl
  \/ \E c \in Channels : \/ WriterJoins(c) \/ FindNewChannel(c) \/ ReaderCallback(c) \/ WriteMessage(c) \/ Swap(c)
                         \/ Segment(c) \/ SplitOutfile(c)
  \/ Stop \/ CloseDrain \/ CloseSwap \/ CloseStop \/ CloseNotify \/ WriteIndex \/ WriteHeader
  \/ FlushLoop \/ FlushSleep \/ WriteChunkHeader \/ WriteChunkBody \/ WriteFails \/ FlushClear
  \/ Crash

Spec == Init /\ [][Next]_vars

-----------------------------------------------------------------------------
(* Recovery *)

(* Recoverer::Proc: the messages that it copies from a file, reading its   *)
(* sections up to the index, the end or a broken one.                      *)
Recovered(f) ==
  LET ends == {i \in 1 .. Len(f) : f[i].type \in {"INDEX", "TORN"}}
      n == IF ends = {} THEN Len(f) ELSE Min(ends) - 1
  IN Bodies(SubSeq(f, 1, n))

-----------------------------------------------------------------------------
(* Properties *)

(* A channel whose writer joins while the Recorder runs is recorded,       *)
(* unless it joined while Start was between its two questions.             *)
ChannelsRecorded == ~is_stopping_ /\ start = "started" => joined \ unseen \subseteq channels \cup found

Files == Append([i \in 1 .. Len(finished) |-> finished[i].file], file)
Written == UNION {ToSet(Bodies(Files[i])) : i \in 1 .. Len(Files)}

(* A message that WriteMessage has taken is in a file or still in one of   *)
(* the two chunks, whatever the flush thread and Close do meanwhile,       *)
(* unless the write failed; once a file is closed they are all in a file,  *)
(* unless a ReaderCallback was still in WriteMessage during Close: it can  *)
(* swap the last chunk back.                                               *)
NoMessageLost ==
  /\ ~crashed => 1 .. taken = Written \cup failed \cup ToSet(chunk_active_) \cup ToSet(chunk_flush_)
  /\ cpc = "closed" /\ ~late => (1 .. taken) \ failed \subseteq Written

(* No message is in two chunks or two files, and the files hold them in    *)
(* the order they came, as long as no chunk overtook another.              *)
NoMessageTwice ==
  LET all == FlattenSeq([i \in 1 .. Len(Files) |-> Bodies(Files[i])])
  IN /\ Cardinality(ToSet(all)) = Len(all)
     /\ overtaken \/ \A i \in 1 .. Len(all) - 1 : all[i] < all[i + 1]

(* The header and the index of a file marked complete agree with it, if no *)
(* write failed.                                                           *)
CompleteIsConsistent ==
  fails = 0 => \A s \in ToSet(finished) \cup {[file |-> file, header |-> disk]} : s.header.complete =>
    /\ s.header.messages = Len(Bodies(s.file))
    /\ s.header.channels = Cardinality({i \in 1 .. Len(s.file) : s.file[i].type = "CHANNEL"})
    /\ s.file[s.header.index].type = "INDEX"
    /\ s.file[s.header.index].of = [i \in 1 .. s.header.index - 1 |-> i]

(* After a crash, the Recoverer finds every message whose chunk was        *)
(* written, if no write had failed before.                                 *)
FlushedIsRecovered ==
  fails = 0 => \A i \in 1 .. Len(Files) : ToSet(Recovered(Files[i])) = ToSet(Bodies(Files[i]))

(* Close waits for ever only when the flush thread had tested is_writing_  *)
(* and was not yet asleep when Close notified it.                          *)
CloseStuckOnlyIfMissed == cpc = "join" /\ fpc = "asleep" => missed
=============================================================================
