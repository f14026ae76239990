---------------------------- MODULE WireFormats ----------------------------
(***************************************************************************)
(* The pure parts of the framework: what is laid out in shared memory and  *)
(* on the wire, what a quality of service asks of the RTPS layer, values   *)
(* of parameters, arithmetic on times, leap seconds, CPU sets, the         *)
(* registration of message types; and the two little machines on time,     *)
(* Rate and Clock.                                                         *)
(*                                                                         *)
(* A behaviour of the pure part is one input, chosen in Init.  Integers    *)
(* are W bits wide, int32_t is W32 bits; a byte has Byte values, uint32_t  *)
(* is Half bytes and uint64_t is 2 * Half.  The depth of a history has      *)
(* DepthBits, the fraction of a second FracBits (32 in the code).           *)
(***************************************************************************)
EXTENDS Integers, Sequences, SequencesExt, FiniteSets

CONSTANTS Byte, Half, ID_SIZE, W, W32, DepthBits, FracBits,
          LEAP_SECONDS, UNIX_GPS_DIFF,   \* <<UNIX second, leap seconds>>, newest first
          Deps,                          \* file -> sequence of the files it imports
          Cycle, MaxNow, Samples

VARIABLES sample, now, start_, actual_cycle_time_,
          slept,                         \* what the last Sleep waited, or -1
          mode_, mock_now_, last_set

rate == <<now, start_, actual_cycle_time_, slept>>
clock == <<mode_, mock_now_, last_set>>
vars == <<sample, rate, clock>>

WireFormatsConstants ==
    /\ Byte > 1 /\ Half > 0 /\ ID_SIZE > 0 /\ W > 1 /\ W32 > 1 /\ Cycle > 0
    /\ DepthBits > 10 /\ FracBits > 0
    /\ \A i \in 1 .. Len(LEAP_SECONDS) - 1 :
         /\ LEAP_SECONDS[i][1] > LEAP_SECONDS[i + 1][1]
         /\ LEAP_SECONDS[i][2] > LEAP_SECONDS[i + 1][2]

(***************************************************************************)
(* Bytes.  reinterpret_cast copies an integer in the host's order (little  *)
(* endian), htonl makes the network's.                                     *)
(***************************************************************************)
Native(n, len) == [i \in 1 .. len |-> (n \div Byte ^ (i - 1)) % Byte]
Number(bytes) == FoldRight(LAMBDA b, n : n * Byte + b, bytes, 0)

Convert32ToArray(n) == Reverse(Native(n, Half))
ConvertArrayTo32(bytes) == Number(Reverse(bytes))

Convert64ToArray(n) == Convert32ToArray(n \div Byte ^ Half) \o Convert32ToArray(n % Byte ^ Half)
ConvertArrayTo64(bytes) ==
    ConvertArrayTo32(SubSeq(bytes, 1, Half)) * Byte ^ Half
      + ConvertArrayTo32(SubSeq(bytes, Half + 1, 2 * Half))

Failed == [ok |-> FALSE]
Parsed(v) == [ok |-> TRUE, value |-> v]

\* MessageInfo: sender, sequence number, spare id.  The channel id stays behind.
InfoSize == 2 * ID_SIZE + 2 * Half
InfoTo_Swapped(info) == info.spare \o Native(info.seq, 2 * Half) \o info.sender
InfoTo(info) == info.sender \o Native(info.seq, 2 * Half) \o info.spare
InfoFrom(bytes) ==
    IF Len(bytes) /= InfoSize THEN Failed
    ELSE Parsed([sender |-> SubSeq(bytes, 1, ID_SIZE),
                 seq |-> Number(SubSeq(bytes, ID_SIZE + 1, ID_SIZE + 2 * Half)),
                 spare |-> SubSeq(bytes, ID_SIZE + 2 * Half + 1, InfoSize)])

\* ReadableInfo: host, block index, channel.
ReadableTo(r) == Native(r.host, 2 * Half) \o Native(r.block, Half) \o Native(r.channel, 2 * Half)
ReadableFrom(bytes) ==
    IF Len(bytes) /= 5 * Half THEN Failed
    ELSE Parsed([host |-> Number(SubSeq(bytes, 1, 2 * Half)),
                 block |-> Number(SubSeq(bytes, 2 * Half + 1, 3 * Half)),
                 channel |-> Number(SubSeq(bytes, 3 * Half + 1, 5 * Half))])

(***************************************************************************)
(* Messages: a protobuf, a RawMessage, a PyMessageWrap, or a type without  *)
(* a serializer.                                                           *)
(***************************************************************************)
ByteSize(kind, m) == IF kind = "plain" THEN -1 ELSE Len(m)

\* RawMessage and PyMessageWrap write into an array with room for size bytes
\* (into a string there is room enough), and refuse an empty array, though not
\* an empty string.
RawSerialize(m, size) == IF size < Len(m) THEN Failed ELSE Parsed(m)
RawParse(bytes, from) == IF from = "array" /\ bytes = <<>> THEN Failed ELSE Parsed(bytes)
PySerialize(m, size) == IF size < Len(m) THEN Failed ELSE Parsed(m)
PyParse(bytes, from) == IF from = "array" /\ bytes = <<>> THEN Failed ELSE Parsed(bytes)

SerializeToArray(kind, m, size) ==
    CASE kind = "raw" -> RawSerialize(m, size)
      [] kind = "py" -> PySerialize(m, size)
      [] kind = "proto" -> IF size < Len(m) THEN Failed ELSE Parsed(m)
      [] OTHER -> Failed
SerializeToString(kind, m) == SerializeToArray(kind, m, Len(m))
ParseFrom(kind, bytes, from) ==
    CASE kind = "raw" -> RawParse(bytes, from)
      [] kind = "py" -> PyParse(bytes, from)
      [] kind = "proto" -> Parsed(bytes)
      [] OTHER -> Failed
ParseFromArray(kind, bytes) == ParseFrom(kind, bytes, "array")
ParseFromString(kind, bytes) == ParseFrom(kind, bytes, "string")

\* A message after its header: type name (cut to kTypeSize - 1) and size.
kTypeSize == 3
set_msg_type(name) == SubSeq(name, 1, IF Len(name) >= kTypeSize THEN kTypeSize - 1 ELSE Len(name))
SerializeToHC(kind, name, m, room) ==
    LET body == SerializeToArray(kind, m, room)
    IN  IF ByteSize(kind, m) < 0 \/ ~body.ok THEN Failed
        ELSE Parsed([type |-> set_msg_type(name), size |-> Convert32ToArray(Len(m)),
                     body |-> body.value \o [i \in 1 .. room - Len(m) |-> 0]])
ParseFromHC(kind, hc) ==
    LET size == ConvertArrayTo32(hc.size)
    IN  IF Len(hc.body) < size THEN Failed ELSE ParseFromArray(kind, SubSeq(hc.body, 1, size))

\* What ShmTransmitter writes into a block: the message, then its MessageInfo.
BlockTo(kind, m, info) ==
    LET body == SerializeToArray(kind, m, ByteSize(kind, m))
    IN  IF body.ok THEN Parsed([buf |-> body.value \o InfoTo(info), msg_size |-> Len(m)])
        ELSE Failed
BlockFrom(kind, b) ==
    LET body == ParseFromArray(kind, SubSeq(b.buf, 1, b.msg_size))
        info == InfoFrom(SubSeq(b.buf, b.msg_size + 1, Len(b.buf)))
    IN  IF body.ok /\ info.ok THEN Parsed(<<body.value, info.value>>) ELSE Failed

\* CDR: a field of 4 bytes is aligned to 4, a string is its length, its bytes
\* and a zero.
Align(pos) == (4 - (pos % 4)) % 4
getCdrSerializedSize(m) ==
    LET a == 4 + Align(0)
        b == a + 4 + Align(a)
        c == b + 4 + Align(b) + m.data + 1
    IN  c + 4 + Align(c) + m.datatype + 1
CdrInt(pos) == pos + Align(pos) + 4
CdrString(pos, len) == CdrInt(pos) + len + 1
UnderlaySerialize(m) == CdrString(CdrString(CdrInt(CdrInt(0)), m.data), m.datatype)

(***************************************************************************)
(* Quality of service.                                                     *)
(***************************************************************************)
ToInt(n, w) == LET u == n % 2 ^ w IN IF u >= 2 ^ (w - 1) THEN u - 2 ^ w ELSE u
Or(v, default) == IF v = "SYSTEM_DEFAULT" THEN default ELSE v

CreateQosProfile(h, d, m, r, u) ==
    [history |-> h, depth |-> d, mps |-> m, reliability |-> r, durability |-> u]
QOS_PROFILES ==
    { CreateQosProfile("KEEP_LAST", 1, 0, "RELIABLE", "VOLATILE"),
      CreateQosProfile("KEEP_LAST", 5, 0, "BEST_EFFORT", "VOLATILE"),
      CreateQosProfile("KEEP_LAST", 1000, 0, "RELIABLE", "VOLATILE"),
      CreateQosProfile("KEEP_LAST", 10, 0, "RELIABLE", "TRANSIENT_LOCAL"),
      CreateQosProfile("SYSTEM_DEFAULT", 0, 0, "RELIABLE", "TRANSIENT_LOCAL"),
      CreateQosProfile("KEEP_ALL", 10, 0, "RELIABLE", "TRANSIENT_LOCAL") }

\* Messages per second to a heartbeat period of 256 / mps seconds, as seconds
\* and a binary fraction of one.
Heartbeat(mps) ==
    LET m == IF mps > 1024 THEN 1024 ELSE IF mps < 64 THEN 64 ELSE mps
        fractions == (256 * 2 ^ FracBits) \div m
    IN  IF mps = 0 THEN [seconds |-> 1, fraction |-> 0]
        ELSE [seconds |-> fractions \div 2 ^ FracBits, fraction |-> fractions % 2 ^ FracBits]

\* The defaults of the RTPS library: a publisher is reliable and keeps its
\* samples for late joiners, a subscriber asks for neither.
FillInPubAttr(q) ==
    LET depth == IF q.depth = 0 THEN 1 ELSE ToInt(q.depth, DepthBits)
    IN  IF depth < 0 THEN Failed
        ELSE Parsed([history |-> Or(q.history, "KEEP_LAST"), depth |-> depth,
                     reliability |-> Or(q.reliability, "RELIABLE"),
                     durability |-> Or(q.durability, "TRANSIENT_LOCAL"),
                     heartbeatPeriod |-> Heartbeat(q.mps)])
FillInSubAttr(q) ==
    LET depth == IF q.depth = 0 THEN 1 ELSE ToInt(q.depth, DepthBits)
    IN  IF depth < 0 THEN Failed
        ELSE Parsed([history |-> Or(q.history, "KEEP_LAST"), depth |-> depth,
                     reliability |-> Or(q.reliability, "BEST_EFFORT"),
                     durability |-> Or(q.durability, "VOLATILE")])

(***************************************************************************)
(* Parameters.                                                             *)
(***************************************************************************)
Unset == [type |-> "NOT_SET", b |-> FALSE, i |-> 0, d |-> 0, s |-> <<>>]
Field(type) == CASE type = "BOOL" -> "b" [] type = "INT" -> "i" [] type = "DOUBLE" -> "d"
                 [] type \in {"STRING", "PROTOBUF"} -> "s"
Parameter(type, v) == [Unset EXCEPT !.type = type, ![Field(type)] = v]
\* value<T>() logs a wrong type, and returns the field all the same.
Value(p, type) == p[Field(type)]
\* A message is shown if its type can be generated from the descriptor.
DebugString(p, generated) ==
    CASE p.type = "NOT_SET" -> "not set"
      [] p.type = "PROTOBUF" /\ ~generated -> ""
      [] OTHER -> Value(p, p.type)

(***************************************************************************)
(* Times are unsigned, durations signed.                                   *)
(***************************************************************************)
Time(n) == n % 2 ^ W
Duration(n) == ToInt(n, W)
TimeMinusTime(a, b) == Duration(Time(a - b))
TimePlus(t, d) == Time(t + d)
TimeMinus(t, d) == Time(t - d)
DurationPlus(a, b) == Duration(a + b)

UnixToGpsSeconds(u) ==
    LET after == {i \in 1 .. Len(LEAP_SECONDS) : u >= LEAP_SECONDS[i][1]}
    IN  IF after = {} THEN 0
        ELSE u - (UNIX_GPS_DIFF - LEAP_SECONDS[CHOOSE i \in after : \A j \in after : i <= j][2])

GpsResult(g, i) == g + (UNIX_GPS_DIFF - LEAP_SECONDS[i][2])
GpsCast_Oldest(g, after) == CHOOSE i \in after : \A j \in after : i >= j
GpsCast(g, after) == CHOOSE i \in after : \A j \in after : i <= j
GpsToUnixSeconds(g) ==
    LET after == {i \in 1 .. Len(LEAP_SECONDS) : ToInt(GpsResult(g, i), W32) >= LEAP_SECONDS[i][1]}
    IN  IF after = {} THEN 0 ELSE GpsResult(g, GpsCast(g, after))

kMillion == 3
UnixToGpsMicroseconds(u) == UnixToGpsSeconds(u \div kMillion) * kMillion + (u % kMillion)
GpsToUnixMicroseconds(g) == GpsToUnixSeconds(g \div kMillion) * kMillion + (g % kMillion)

(***************************************************************************)
(* CPU sets: a list of single CPUs and ranges.                             *)
(***************************************************************************)
Cpus(range) == IF Len(range) = 1 THEN range
               ELSE [k \in 1 .. IF range[2] < range[1] THEN 0 ELSE range[2] - range[1] + 1
                       |-> range[1] + k - 1]
ParseCpuset(ranges) ==
    IF \E i \in DOMAIN ranges : Len(ranges[i]) \notin {1, 2} THEN Failed       \* exit(0)
    ELSE Parsed(FlattenSeq([i \in DOMAIN ranges |-> Cpus(ranges[i])]))
\* The affinity a processor's thread is given; {} leaves it as it is.
SetSchedAffinity(cpus, affinity, cpu_id) ==
    CASE affinity = "range" -> Range(cpus)
      [] affinity = "1to1" -> IF cpu_id \in 0 .. Len(cpus) - 1 THEN {cpus[cpu_id + 1]} ELSE {}
      [] OTHER -> {}

(***************************************************************************)
(* Message types.  A descriptor string holds a file and, before it, the    *)
(* files it imports.                                                       *)
(***************************************************************************)
RECURSIVE GetProtoDesc(_)
GetProtoDesc(file) ==
    [desc |-> file, dependencies |-> [i \in DOMAIN Deps[file] |-> GetProtoDesc(Deps[file][i])]]

\* BuildFile fails on an import that is missing and on another file of that name.
BuildFile(pool, file, other) ==
    IF file \in other \/ ~(Range(Deps[file]) \subseteq pool)
    THEN [ok |-> FALSE, pool |-> pool] ELSE [ok |-> TRUE, pool |-> pool \cup {file}]

RECURSIVE RegisterMessage(_, _, _)
RegisterMessage(pool, desc, other) ==
    LET Step(r, d) == IF r.ok THEN RegisterMessage(r.pool, d, other) ELSE r
        deps == FoldLeft(Step, [ok |-> TRUE, pool |-> pool], desc.dependencies)
    IN  IF deps.ok THEN BuildFile(deps.pool, desc.desc, other) ELSE deps

-----------------------------------------------------------------------------
Init ==
    /\ sample \in Samples \cup [kind : {"qos"}, qos : QOS_PROFILES]
    /\ now \in (IF sample.kind = "rate" THEN Cycle .. 2 * Cycle ELSE {0}) /\ start_ = now
    /\ actual_cycle_time_ = 0 /\ slept = -1
    /\ mode_ \in (IF sample.kind = "clock" THEN {"CYBER", "MOCK"} ELSE {"CYBER"})
    /\ mock_now_ = 0 /\ last_set = 0

\* The loop's body takes its time, and the system clock may be set.
Work ==
    /\ sample.kind = "rate"
    /\ now' \in 0 .. MaxNow /\ now' /= now
    /\ slept' = -1 /\ UNCHANGED <<sample, start_, actual_cycle_time_, clock>>

ExpectedEnd == IF now < start_ THEN now + Cycle ELSE start_ + Cycle

NextStart_Kept == ExpectedEnd
NextStart == IF now > ExpectedEnd + Cycle THEN now ELSE ExpectedEnd

Sleep ==
    /\ sample.kind = "rate" /\ now + Cycle < MaxNow
    /\ actual_cycle_time_' = now - start_ /\ start_' = NextStart
    /\ slept' = IF ExpectedEnd < now THEN 0 ELSE ExpectedEnd - now
    /\ now' = now + slept'
    /\ UNCHANGED <<sample, clock>>

Reset == /\ sample.kind = "rate" /\ start_' = now /\ slept' = -1
         /\ UNCHANGED <<sample, now, actual_cycle_time_, clock>>

\* A mode that is not known is refused, and the mock time reset all the same.
SetMode ==
    /\ sample.kind = "clock"
    /\ mode_' \in {"CYBER", "MOCK", mode_} /\ mock_now_' = 0 /\ last_set' = 0
    /\ UNCHANGED <<sample, rate>>
SetNow ==
    /\ sample.kind = "clock"
    /\ \E t \in 1 .. MaxNow : /\ mock_now_' = IF mode_ = "MOCK" THEN t ELSE mock_now_
                              /\ last_set' = IF mode_ = "MOCK" THEN t ELSE last_set
    /\ UNCHANGED <<sample, mode_, rate>>
Now == IF mode_ = "MOCK" THEN mock_now_ ELSE now

Next == Work \/ Sleep \/ Reset \/ SetMode \/ SetNow
Spec == Init /\ [][Next]_vars

-----------------------------------------------------------------------------
s == sample
Is(kind) == sample.kind = kind

\* What one side writes the other side reads back: words of a MessageHeader,
\* MessageInfo, ReadableInfo, a block of shared memory and a message behind its
\* header.  The exceptions are a type without serializer and an empty raw
\* message, which is sent but refused where an array of it is received.
ReadBackAsWritten ==
    /\ Is("word") => /\ ConvertArrayTo64(Convert64ToArray(s.n)) = s.n
                     /\ ReadableFrom(ReadableTo(s.readable)) = Parsed(s.readable)
    /\ Is("message") =>
         LET block == BlockTo(s.type, s.msg, s.info)
             hc == SerializeToHC(s.type, s.name, s.msg, Len(s.msg) + s.slack)
             received == \/ s.type = "proto"
                         \/ s.type \in {"raw", "py"} /\ s.msg /= <<>>
         IN  /\ block.ok <=> s.type /= "plain"
             /\ block.ok => BlockFrom(s.type, block.value) =
                              IF received THEN Parsed(<<s.msg, s.info>>) ELSE Failed
             /\ s.type /= "plain" =>
                  ParseFromString(s.type, SerializeToString(s.type, s.msg).value) = Parsed(s.msg)
             /\ hc.ok <=> s.type /= "plain" /\ s.slack >= 0
             /\ hc.ok => ParseFromHC(s.type, hc.value) =
                           IF received THEN Parsed(s.msg) ELSE Failed
    /\ Is("underlay") => getCdrSerializedSize(s.msg) = UnderlaySerialize(s.msg)
    /\ Is("parameter") => \A generated \in BOOLEAN :
         DebugString(Parameter(s.type, s.value), generated) =
           IF s.type = "PROTOBUF" /\ ~generated THEN "" ELSE s.value
    /\ Is("parameter") => \A type \in {"BOOL", "INT", "DOUBLE", "STRING", "PROTOBUF"} :
         Value(Parameter(s.type, s.value), type) =
            IF Field(type) = Field(s.type) THEN s.value ELSE Value(Unset, type)

Rank(v) == IF v \in {"RELIABLE", "TRANSIENT_LOCAL"} THEN 1 ELSE 0

\* A writer and a reader of one quality of service match: the writer offers
\* what the reader asks, the defaults of the RTPS library included.  The writer
\* sends a heartbeat every quarter of a second at least and at most every fourth.
SameQosMatches ==
    Is("qos") => LET pub == FillInPubAttr(s.qos)  sub == FillInSubAttr(s.qos)
                 IN  /\ pub.ok <=> sub.ok
                     /\ pub.ok => /\ Rank(pub.value.reliability) >= Rank(sub.value.reliability)
                                  /\ Rank(pub.value.durability) >= Rank(sub.value.durability)
                                  /\ pub.value.depth = sub.value.depth
                                  /\ LET h == pub.value.heartbeatPeriod
                                     IN  (h.seconds * 2 ^ FracBits + h.fraction) * 4
                                           \in 2 ^ FracBits .. 16 * 2 ^ FracBits

\* GPS time is the inverse of UNIX time from the first leap second known to
\* the last second an int32_t holds (in 2038); after it GpsToUnixSeconds
\* answers 0.  Differences of times are exact.
GpsInverse ==
    Is("seconds") =>
      /\ (s.n \in LEAP_SECONDS[Len(LEAP_SECONDS)][1] .. 2 ^ W32 - 1) =>
           GpsToUnixSeconds(UnixToGpsSeconds(s.n)) = (IF s.n < 2 ^ (W32 - 1) THEN s.n ELSE 0)
      /\ (s.n >= LEAP_SECONDS[Len(LEAP_SECONDS)][1] * kMillion /\ s.n < kMillion * 2 ^ (W32 - 1)) =>
           GpsToUnixMicroseconds(UnixToGpsMicroseconds(s.n)) = s.n
      /\ \A b \in 0 .. 2 ^ W - 1 :
           LET a == Time(s.n) IN
           /\ TimePlus(b, TimeMinusTime(a, b)) = a /\ TimeMinus(a, TimeMinusTime(a, b)) = b
           /\ (a - b \in -(2 ^ (W - 1)) + 1 .. 2 ^ (W - 1) - 1) =>
                /\ TimeMinusTime(a, b) < 0 <=> a < b
                /\ DurationPlus(TimeMinusTime(a, b), TimeMinusTime(b, a)) = 0

\* A processor's thread is never bound to a CPU its cpuset does not name, and
\* registering a descriptor registers every file it needs, or none after the
\* file that conflicts.
SetsExact ==
    /\ Is("cpuset") => LET cpus == ParseCpuset(s.ranges) IN
         cpus.ok => \A a \in {"range", "1to1", ""}, id \in -1 .. 3 :
           SetSchedAffinity(cpus.value, a, id) \subseteq
             UNION {IF Len(r) = 1 THEN {r[1]} ELSE r[1] .. r[2] : r \in Range(s.ranges)}
    /\ Is("types") => LET r == RegisterMessage(s.pool, GetProtoDesc(s.file), s.other) IN
         /\ r.ok => s.file \in r.pool
         /\ \A f \in r.pool : Range(Deps[f]) \subseteq r.pool
         /\ (s.other = {}) => r.ok

\* Rate: Sleep never waits longer than a cycle, and after it the next cycle
\* started at most one cycle ago, also when the clock was set forth or back.
\* With CycleTime() it makes a whole cycle, unless the clock was set back.
RateBounded ==
    slept >= 0 => /\ slept <= Cycle /\ now - start_ <= Cycle
                  /\ actual_cycle_time_ >= 0 => actual_cycle_time_ + slept >= Cycle

\* In mock mode Now is the last time set since the mode was chosen.
MockTime == mode_ = "MOCK" => Now = last_set
=============================================================================
