----------------------------- MODULE RecordView -----------------------------
(***************************************************************************)
(* Reading records: RecordReader (record/record_reader.cc) over the file   *)
(* reader, RecordViewer, which merges several records window by window     *)
(* (record/record_viewer.cc), and the Spliter (tools/cyber_recorder/).     *)
(*                                                                         *)
(* A record is a sequence of chunks of messages [time, channel], as        *)
(* RecordFileWriter writes them: of complete files, in any order of times. *)
(***************************************************************************)
EXTENDS Integers, Sequences, SequencesExt, FiniteSetsExt

CONSTANTS
  Views,           \* the records that are viewed at once: sequences of records
  Channels,        \* the channels of the messages
  MaxTime,         \* bound: the latest time
  StepTime,        \* kStepTimeNanoSec
  BufferMinSize    \* kBufferMinSize

RecordViewConstants ==
  /\ {MaxTime, StepTime} \subseteq Nat /\ BufferMinSize \in Nat \ {0}
  /\ \A v \in Views : v # <<>> /\ \A r \in Range(v) : r # <<>> /\ \A c \in Range(r) : c # <<>>

VARIABLES
  files,           \* what is read: a record per reader
  asked,           \* the times and channels that the user asked for
  begin_time_, end_time_, curr_begin_time_, readers_finished_,
  section, chunk_, message_index_,  \* the readers: the next section, the chunk, the next message
  skip,            \* skip_next_chunk_body
  reading,         \* the reader in turn, and the window
  buffer,          \* msg_buffer_: [reader, chunk, index, time], by time
  shown            \* what the iterator has shown

vars == <<files, asked, begin_time_, end_time_, curr_begin_time_, readers_finished_, section, chunk_,
          message_index_, skip, reading, buffer, shown>>

Readers == 1 .. Len(files)
Times(c) == {c[i].time : i \in 1 .. Len(c)}

(* Chunk::add keeps the earliest and the latest time. *)
ChunkHeader(c) == [begin |-> Min(Times(c)), end |-> Max(Times(c))]

(* WriteChunk of the file writer: the header has the beginning of the      *)
(* first chunk and the end of the last.                                    *)
Header(r) == [begin |-> ChunkHeader(r[1]).begin, end |-> ChunkHeader(Last(r)).end]

(* The sections of a file after its header. *)
Section(r, n) == CASE n = 2 * Len(r) + 1 -> "INDEX"
                   [] n % 2 = 1 -> "CHUNK_HEADER"
                   [] OTHER -> "CHUNK_BODY"

Idle == [pc |-> "update", i |-> 0, begin |-> 0, end |-> 0]

(* RecordViewer::Init sorts the readers; UpdateTime narrows the times.     *)
Init ==
  /\ files \in Views
  /\ \A i \in 1 .. Len(files) - 1 :
       LET a == Header(files[i]) b == Header(files[i + 1])
       IN a.begin < b.begin \/ (a.begin = b.begin /\ a.end <= b.end)
  /\ asked \in [begin : 0 .. MaxTime, end : 1 .. MaxTime, channels : SUBSET Channels]
  /\ begin_time_ = Max({asked.begin, Min({Header(files[i]).begin : i \in Readers})})
  /\ end_time_ = Min({asked.end, Max({Header(files[i]).end : i \in Readers})})
  /\ curr_begin_time_ = begin_time_
  /\ readers_finished_ = [i \in Readers |-> FALSE]
  /\ section = [i \in Readers |-> 1] /\ chunk_ = [i \in Readers |-> 0]
  /\ message_index_ = [i \in Readers |-> 0] /\ skip = FALSE
  /\ reading = IF begin_time_ > end_time_ THEN [Idle EXCEPT !.pc = "end"] ELSE Idle
  /\ buffer = <<>> /\ shown = <<>>

request == <<files, asked, begin_time_, end_time_>>
readers == <<section, chunk_, message_index_, skip>>

-----------------------------------------------------------------------------
(* Update: the first message of the buffer, if its channel is wanted.      *)
Update ==
  /\ reading.pc = "update" /\ buffer # <<>>
  /\ buffer' = Tail(buffer)
  /\ shown' = IF asked.channels = {} \/ Head(buffer).channel \in asked.channels
              THEN Append(shown, Head(buffer)) ELSE shown
  /\ UNCHANGED <<request, curr_begin_time_, readers_finished_, readers, reading>>

(* FillBuffer begins a window, ... *)
FillBuffer ==
  /\ \/ reading.pc = "update" /\ buffer = <<>>
     \/ reading.pc = "fill" /\ Len(buffer) < BufferMinSize
  /\ curr_begin_time_ <= end_time_
  /\ reading' = [pc |-> "read", i |-> 1, begin |-> curr_begin_time_,
                 end |-> Min({curr_begin_time_ + StepTime, end_time_})]
  /\ LET done == {i \in Readers : ~readers_finished_[i] /\ Header(files[i]).end < curr_begin_time_}
     IN /\ readers_finished_' = [i \in Readers |-> i \in done \/ readers_finished_[i]]
        /\ section' = [i \in Readers |-> IF i \in done THEN 1 ELSE section[i]]
        /\ chunk_' = [i \in Readers |-> IF i \in done THEN 0 ELSE chunk_[i]]
        /\ message_index_' = [i \in Readers |-> IF i \in done THEN 0 ELSE message_index_[i]]
  /\ UNCHANGED <<request, curr_begin_time_, skip, buffer, shown>>

(* ... ends it when every reader had its turn, ... *)
WindowEnds ==
  /\ reading.pc = "read" /\ reading.i > Len(files)
  /\ reading' = [Idle EXCEPT !.pc = "fill"] /\ curr_begin_time_' = reading.end + 1
  /\ UNCHANGED <<request, readers_finished_, readers, buffer, shown>>

(* ... and returns when it has enough or there is no more. *)
FillBufferReturns ==
  /\ \/ reading.pc = "fill" /\ (curr_begin_time_ > end_time_ \/ Len(buffer) >= BufferMinSize)
     \/ reading.pc = "update" /\ buffer = <<>> /\ curr_begin_time_ > end_time_
  /\ reading' = [Idle EXCEPT !.pc = IF buffer = <<>> THEN "end" ELSE "update"]
  /\ UNCHANGED <<request, curr_begin_time_, readers_finished_, readers, buffer, shown>>

(* ReadMessage has no (more) message for the window: the next reader. *)
NextReader(i) ==
  /\ reading' = [reading EXCEPT !.i = i + 1] /\ skip' = FALSE
  /\ UNCHANGED <<request, curr_begin_time_, readers_finished_, buffer, shown>>

Body(i) == IF chunk_[i] = 0 THEN <<>> ELSE files[i][chunk_[i]]

(* Mutant: as they are read. *)
Emplaced_Last(b, m) == Append(b, m)

(* std::multimap::emplace: after the messages of the same time. *)
Emplaced(b, m) ==
  LET before == {j \in 1 .. Len(b) : b[j].time <= m.time}
  IN InsertAt(b, Cardinality(before) + 1, m)

(* RecordReader::ReadMessage, in the chunk at hand: a message after the    *)
(* window ends the turn, one before it is passed over.                     *)
ReadMessage(i) ==
  /\ reading.pc = "read" /\ reading.i = i
  /\ LET outside == \/ readers_finished_[i] \/ reading.begin > Header(files[i]).end
                    \/ reading.end < Header(files[i]).begin
         n == message_index_[i] + 1
         m == Body(i)[n]
     IN \/ outside /\ NextReader(i) /\ UNCHANGED <<section, chunk_, message_index_>>
        \/ /\ ~outside /\ n <= Len(Body(i)) /\ m.time > reading.end
           /\ NextReader(i) /\ UNCHANGED <<section, chunk_, message_index_>>
        \/ /\ ~outside /\ n <= Len(Body(i)) /\ m.time <= reading.end
           /\ message_index_' = [message_index_ EXCEPT ![i] = n]
           /\ buffer' = IF m.time < reading.begin THEN buffer
                        ELSE Emplaced(buffer, [reader |-> i, chunk |-> chunk_[i], index |-> n,
                                               time |-> m.time, channel |-> m.channel])
           /\ UNCHANGED <<request, curr_begin_time_, readers_finished_, section,
                          chunk_, skip, reading, shown>>

(* ReadNextChunk: a section of the file.  A chunk after the window ends    *)
(* the turn with its header read; the next turn begins at its body.        *)
ReadNextChunk(i) ==
  /\ reading.pc = "read" /\ reading.i = i /\ ~readers_finished_[i]
  /\ reading.begin <= Header(files[i]).end /\ reading.end >= Header(files[i]).begin
  /\ message_index_[i] = Len(Body(i))
  /\ LET type == Section(files[i], section[i])
         c == (section[i] + 1) \div 2
     IN \/ type = "INDEX" /\ NextReader(i) /\ UNCHANGED <<section, chunk_, message_index_>>
        \/ /\ type = "CHUNK_HEADER" /\ section' = [section EXCEPT ![i] = @ + 1]
           /\ \/ /\ ChunkHeader(files[i][c]).begin > reading.end /\ NextReader(i)
              \/ /\ ChunkHeader(files[i][c]).begin <= reading.end
                 /\ skip' = (skip \/ ChunkHeader(files[i][c]).end < reading.begin)
                 /\ UNCHANGED <<request, curr_begin_time_, readers_finished_,
                                reading, buffer, shown>>
           /\ UNCHANGED <<chunk_, message_index_>>
        \/ /\ type = "CHUNK_BODY" /\ section' = [section EXCEPT ![i] = @ + 1] /\ skip' = FALSE
           /\ \/ skip /\ UNCHANGED <<chunk_, message_index_>>
              \/ /\ ~skip /\ chunk_' = [chunk_ EXCEPT ![i] = c]
                 /\ message_index_' = [message_index_ EXCEPT ![i] = 0]
           /\ UNCHANGED <<request, curr_begin_time_, readers_finished_, reading,
                          buffer, shown>>

Next ==
  \/ Update \/ FillBuffer \/ WindowEnds \/ FillBufferReturns
  \/ \E i \in Readers : ReadMessage(i) \/ ReadNextChunk(i)

Spec == Init /\ [][Next]_vars

-----------------------------------------------------------------------------
(* Spliter::Proc: the messages that it writes, channels c wanted (all if   *)
(* none is named), times from b to e.                                      *)
Split(r, c, b, e) ==
  LET wanted(m) == (c = {} \/ m.channel \in c) /\ b <= m.time /\ m.time <= e
      body(k) == IF b > ChunkHeader(k).end \/ e < ChunkHeader(k).begin THEN <<>>
                 ELSE SelectSeq(k, wanted)
  IN IF b >= e \/ b > Header(r).end \/ e < Header(r).begin THEN <<>>
     ELSE FlattenSeq([i \in 1 .. Len(r) |-> body(r[i])])

-----------------------------------------------------------------------------
(* Properties *)

InOrder(r) == LET all == FlattenSeq(r) IN \A i \in 1 .. Len(all) - 1 : all[i].time <= all[i + 1].time
ChunksInOrder(r) == \A i \in 1 .. Len(r) - 1 : ChunkHeader(r[i]).end <= ChunkHeader(r[i + 1]).begin

(* The messages that a reader expects to see. *)
Wanted ==
  {[reader |-> i, chunk |-> k, index |-> n] : i \in Readers, k \in 1 .. MaxTime, n \in 1 .. MaxTime}

IsWanted(w) ==
  /\ w.chunk <= Len(files[w.reader]) /\ w.index <= Len(files[w.reader][w.chunk])
  /\ LET m == files[w.reader][w.chunk][w.index]
     IN asked.begin <= m.time /\ m.time <= asked.end /\ (asked.channels = {} \/ m.channel \in asked.channels)

IdOf(m) == [reader |-> m.reader, chunk |-> m.chunk, index |-> m.index]

(* Whatever the files hold, the viewer shows messages in the order of      *)
(* their times, over the borders of its windows too, each at most once,    *)
(* and only ones that were asked for.                                      *)
ShownInOrder ==
  /\ \A i \in 1 .. Len(shown) - 1 : shown[i].time <= shown[i + 1].time
  /\ Cardinality({IdOf(shown[i]) : i \in 1 .. Len(shown)}) = Len(shown)
  /\ \A i \in 1 .. Len(shown) : IsWanted(IdOf(shown[i]))

(* When the messages of every file are in the order of their times, the    *)
(* viewer leaves out none that was asked for.                              *)
AllShown ==
  reading.pc = "end" /\ (\A i \in Readers : InOrder(files[i]))
    => \A w \in Wanted : IsWanted(w) => w \in {IdOf(shown[i]) : i \in 1 .. Len(shown)}

(* When the chunks of a file are in order, messages within them in any,    *)
(* the Spliter leaves out none that was asked for.                         *)
SplitExact ==
  \A i \in Readers : ChunksInOrder(files[i]) /\ asked.begin < asked.end =>
    LET in(m) == /\ asked.begin <= m.time /\ m.time <= asked.end
                 /\ asked.channels = {} \/ m.channel \in asked.channels
    IN Split(files[i], asked.channels, asked.begin, asked.end) = SelectSeq(FlattenSeq(files[i]), in)
=============================================================================
