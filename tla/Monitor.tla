------------------------------ MODULE Monitor ------------------------------
(***************************************************************************)
(* cyber_monitor: the table of channels kept from the topology             *)
(* (CyberTopologyMessage), the page of a channel (GeneralChannelMessage)   *)
(* and of a repeated field (GeneralMessage), and the Screen that shows one *)
(* of them and obeys the keys.  Three threads meet without a common lock:  *)
(* main, which fills the table and then runs the screen; the topology's    *)
(* callback; and the readers' callbacks.                                   *)
(*                                                                         *)
(* A node has at most one writer and one reader of a channel.  Types,      *)
(* columns and colours are left out; a message is any of Messages.         *)
(***************************************************************************)
EXTENDS Integers, Sequences, FiniteSets, SequencesExt, TLC

CONSTANTS NumChannels, Nodes, Heights, Sessions, MaxDepth, MaxStarted, MaxChanges,
          Messages,   \* the messages that come
          Repeated    \* the items of repeated fields in them

Channels == 1 .. NumChannels   \* a number is a place in the order of names
Ends == [role : {"writer", "reader"}, node : Nodes, channel : Channels]

Keys == {"other", "quit", "help", "backspace", "left", "right", "down", "up", "pgdn", "pgup", "space",
         "info", "debug", "fold", "next", "previous"}

MonitorConstants ==
  /\ {NumChannels, MaxDepth, MaxStarted, MaxChanges} \subseteq Nat
  /\ Heights \subseteq Nat \ {0} /\ "MonitorReader" \notin Nodes
  /\ Sessions \subseteq [keys : SUBSET Keys, msgs : Nat, resizes : Nat, fails : Nat,
                           only : 0 .. NumChannels]

Absent == [kind |-> "absent"]
ErrorCode == [kind |-> "error"]
Idle == [pc |-> "idle"]
FirstPage == [index |-> 0, item |-> 0, folded |-> TRUE]

VARIABLES
  uses,                   \* the keys of the session, its bounds, and specified_channel_
  topo, changes,          \* the ends that exist; how often that changed
  mpc, todo,              \* main: where it is, the ends it still has to add
  adding,                 \* of main and of the callback: the call they are in
  all_channels_map_,
  rpc, msgs,              \* a reader's callback; messages received
  height, resizes,        \* the terminal's
  canRun_, current_state_,
  table,                  \* the table's line_no_ and page_index_
  path,                   \* the pages below it, down to current_render_obj_
  shows,                  \* a channel's State
  key, drawn,             \* the key being obeyed; the channels on the screen
  due, calc,              \* the channels whose frame ratio may still be computed in this
                          \* Render; the one of which it is being computed, or 0
  printed,                \* history: the page of a message just printed
  fails, fault,           \* opens that failed; the first undefined step
  raced, stale,           \* histories: two threads added a channel; ends that left meanwhile
  listed                  \* history: the channels in the table when it was drawn

vars == <<uses, topo, changes, mpc, todo, adding, all_channels_map_, rpc, msgs, height, resizes, canRun_,
          current_state_, table, path, shows, key, drawn, due, calc, printed, fails, fault, raced, stale, listed>>
topology == <<topo, changes, mpc, todo, adding, raced, stale>>
screen == <<uses, height, resizes, canRun_, current_state_, table, path, shows,
            key, drawn, due, calc, printed, fails, fault, listed>>
ratios == <<due, calc>>

Init ==
  /\ uses \in Sessions
  /\ topo \in {S \in SUBSET Ends : Cardinality(S) <= MaxStarted} /\ changes = 0 /\ mpc = "listen" /\ todo = {}
  /\ adding = [t \in {"main", "callback"} |-> Idle]
  /\ all_channels_map_ = [c \in Channels |-> Absent]
  /\ rpc = [c \in Channels |-> "idle"] /\ msgs = 0
  /\ height \in Heights /\ resizes = 0 /\ canRun_ = TRUE /\ current_state_ = "RenderMessage"
  /\ table = [line |-> 1, index |-> 0] /\ path = <<>>
  /\ shows = [c \in Channels |-> "ShowDebugString"]
  /\ key = "none" /\ drawn = <<>> /\ due = {} /\ calc = 0 /\ printed = <<>> /\ fails = 0 /\ fault = "none"
  /\ raced = FALSE /\ stale = {} /\ listed = <<>>

IsObject(c) == c \in Channels /\ all_channels_map_[c].kind = "object"
is_enabled(c) == IsObject(c) /\ all_channels_map_[c].open
Runs == canRun_ /\ fault = "none"

-----------------------------------------------------------------------------
(* The table *)

(* GeneralChannelMessage, opened or not; if it is, it counts as a reader. *)
NewChannelMessage(opened) ==
  [kind |-> "object", open |-> opened, came |-> FALSE, message |-> FALSE, counter |-> 0, time |-> 1,
   last |-> 0, ratio |-> "number", ahead |-> FALSE, cut |-> FALSE,
   readers |-> IF opened THEN {"MonitorReader"} ELSE {}, writers |-> {}]

Added(m, e) ==
  IF e.role = "writer" THEN [m EXCEPT !.writers = @ \cup {e.node}] ELSE [m EXCEPT !.readers = @ \cup {e.node}]

(* Mutant: a writer that leaves stays in the table. *)
Deleted_Kept(m, e) ==
  IF e.role = "writer" THEN m ELSE [m EXCEPT !.readers = @ \ {e.node}]

(* del_reader, and del_writer, which forgets that a message came when it   *)
(* was the last.                                                           *)
Deleted(m, e) ==
  IF e.role = "reader" THEN [m EXCEPT !.readers = @ \ {e.node}]
  ELSE [m EXCEPT !.writers = @ \ {e.node}, !.came = @ /\ m.writers \ {e.node} # {}]

(* OpenChannel: a node and its reader; either may fail. *)
OpenChannel(opened) ==
  /\ opened \/ fails < uses.fails
  /\ fails' = fails + (IF opened THEN 0 ELSE 1)

(* The channel is asked for: it is the one specified, if there is one. *)
Watched(c) == uses.only \in {0, c}

(* AddReaderWriter, up to the channel that it finds, or not: its own nodes *)
(* never get here, nor channels that are not asked for.                    *)
Find(t, e) ==
  adding' = IF ~Watched(e.channel) THEN adding
            ELSE [adding EXCEPT ![t] = [pc |-> "add", end |-> e, found |-> all_channels_map_[e.channel]]]

(* ... and the rest. *)
AddReaderWriter(t) ==
  /\ adding[t].pc = "add" /\ Runs
  /\ LET e == adding[t].end
         c == e.channel
     IN /\ \/ /\ adding[t].found = Absent
              /\ \E opened \in BOOLEAN :
                    /\ OpenChannel(opened)
                    /\ all_channels_map_' =
                          [all_channels_map_ EXCEPT ![c] = Added(NewChannelMessage(opened), e)]
           \/ /\ adding[t].found # Absent /\ UNCHANGED fails
              /\ all_channels_map_' = [all_channels_map_ EXCEPT ![c] = IF IsObject(c) THEN Added(@, e) ELSE @]
        /\ raced' = (raced \/ adding[t].found.kind # all_channels_map_[c].kind)
        /\ stale' = IF e \in topo THEN stale \ {e} ELSE stale \cup {e}
  /\ adding' = [adding EXCEPT ![t] = Idle]
  /\ UNCHANGED <<uses, topo, changes, mpc, todo, rpc, msgs, height, resizes, canRun_, current_state_, table, path,
                 shows, key, drawn, ratios, printed, fault, listed>>

(* TopologyChanged: one change at a time; a leave of an end whose channel  *)
(* is not in the table is passed over.                                     *)
TopologyChanged(e) ==
  /\ adding["callback"].pc = "idle" /\ changes < MaxChanges /\ changes' = changes + 1 /\ Runs
  /\ topo' = IF e \in topo THEN topo \ {e} ELSE topo \cup {e}
  /\ \/ mpc = "listen" /\ UNCHANGED <<adding, all_channels_map_>>
     \/ mpc # "listen" /\ e \notin topo /\ Find("callback", e) /\ UNCHANGED all_channels_map_
     \/ /\ mpc # "listen" /\ e \in topo /\ UNCHANGED adding
        /\ all_channels_map_' = [all_channels_map_ EXCEPT ![e.channel] = IF IsObject(e.channel) THEN Deleted(@, e) ELSE @]
  /\ stale' = stale \ {e}
  /\ UNCHANGED <<mpc, todo, raced, rpc, msgs, screen>>

(* main: the callback is registered, then the writers and the readers of   *)
(* the moment are added, then the screen runs.                             *)
Main ==
  /\ adding["main"].pc = "idle" /\ todo = {} /\ mpc # "run"
  /\ \/ mpc = "listen" /\ mpc' = "writers" /\ todo' = {e \in topo : e.role = "writer"}
     \/ mpc = "writers" /\ mpc' = "readers" /\ todo' = {e \in topo : e.role = "reader"}
     \/ mpc = "readers" /\ mpc' = "run" /\ UNCHANGED todo
  /\ UNCHANGED <<topo, changes, adding, raced, stale, all_channels_map_, rpc,
                 msgs, screen>>

AddNext(e) ==
  /\ adding["main"].pc = "idle" /\ e \in todo /\ todo' = todo \ {e} /\ Find("main", e)
  /\ UNCHANGED <<topo, changes, mpc, raced, stale, all_channels_map_, rpc, msgs, screen>>

-----------------------------------------------------------------------------
(* A channel's messages *)

(* UpdateRawMessage: the flag, the time, the counter, and the message. *)
UpdateRawMessage(c) ==
  /\ is_enabled(c) /\ Runs
  /\ \/ /\ rpc[c] = "idle" /\ msgs < uses.msgs /\ all_channels_map_' = [all_channels_map_ EXCEPT ![c].came = TRUE]
        /\ msgs' = msgs + 1 /\ rpc' = [rpc EXCEPT ![c] = "time"]
     \/ /\ rpc[c] = "time" /\ all_channels_map_' = [all_channels_map_ EXCEPT ![c].time = msgs + 1]
        /\ rpc' = [rpc EXCEPT ![c] = "counter"] /\ UNCHANGED msgs
     \/ /\ rpc[c] = "counter" /\ all_channels_map_' = [all_channels_map_ EXCEPT ![c].counter = @ + 1]
        /\ rpc' = [rpc EXCEPT ![c] = "message"] /\ UNCHANGED msgs
     \/ /\ rpc[c] = "message" /\ all_channels_map_' = [all_channels_map_ EXCEPT ![c].message = TRUE]
        /\ rpc' = [rpc EXCEPT ![c] = "idle"] /\ UNCHANGED msgs
  /\ UNCHANGED <<topology, screen>>

(* Mutant: a count of zero is divided too. *)
HasFrames_Any(m) == TRUE

(* old == 0: 0 is returned, and frame_ratio_ is left as it is. *)
HasFrames(m) == m.counter > 0

(* frame_ratio, if a second has passed: of a channel that has messages it  *)
(* takes the count since the last time ...                                 *)
FrameRatio(c) ==
  LET m == all_channels_map_[c]
  IN /\ c \in due /\ calc = 0 /\ Runs /\ due' = due \ {c} /\ calc' = c
     /\ is_enabled(c) /\ m.came /\ HasFrames(m)
     /\ all_channels_map_' = [all_channels_map_ EXCEPT ![c].counter = 0]
     /\ UNCHANGED <<uses, topology, rpc, msgs, height, resizes, canRun_, current_state_, table, path, shows,
                    key, drawn, printed, fails, fault, listed>>

(* ... and divides it by the time between the last message and the one     *)
(* that was the last then.  more: that message is not in the count.        *)
Divided(m, more) ==
  [m EXCEPT !.ratio = IF m.time = m.last THEN "infinite" ELSE "number", !.last = m.time,
            !.cut = m.ahead, !.ahead = more]

DivideByTime ==
  /\ calc # 0 /\ Runs /\ calc' = 0
  /\ all_channels_map_' =
       [all_channels_map_ EXCEPT ![calc] =
          IF IsObject(calc) THEN Divided(@, rpc[calc] = "counter" \/ @.counter > 0) ELSE @]
  /\ UNCHANGED <<uses, topology, rpc, msgs, height, resizes, canRun_, current_state_, table, path, shows,
                 key, drawn, due, printed, fails, fault, listed>>

-----------------------------------------------------------------------------
(* The screen *)

Names == SetToSortSeq({c \in Channels : all_channels_map_[c] # Absent}, <)

(* The quotient that C++ computes. *)
Quotient(a, b) ==
  LET abs(x) == IF x < 0 THEN -x ELSE x
  IN IF (a < 0) = (b < 0) THEN abs(a) \div abs(b) ELSE -(abs(a) \div abs(b))

(* SplitPages, of items to a page and n lines. *)
SplitPages(p, items, n, k) ==
  LET pages == Quotient(n, items) + 1
  IN [p EXCEPT !.index = CASE k = "pgdn" -> IF @ + 1 >= pages THEN pages - 1 ELSE @ + 1
                        [] k = "pgup" -> IF @ - 1 < 1 THEN 0 ELSE @ - 1
                        [] OTHER -> @]

(* FindChild: the channel of a line, or 0. *)
FindChild(p) ==
  LET n == p.index * (height - 1) + p.line
  IN IF p.line > 0 /\ p.line <= height - 1 /\ n <= Len(Names) THEN Names[n] ELSE 0

-----------------------------------------------------------------------------
(* The lines of a message *)

(* A message is its fields in order, and whether it has unknown ones; a    *)
(* field is of kind "string", with the number of line ends in it (at a     *)
(* line feed or at the margin) and whether it goes on after the last of    *)
(* them, "message", with that message, "repeated", or "number" (or the     *)
(* like).                                                                  *)
CalculateStringLines(f) == f.ends + IF f.goes_on THEN 1 ELSE 0

RECURSIVE LineCount(_)

(* LineCountOfField: the line of the field, and what is below it.  (That   *)
(* of a string counts, too, although the string begins in it.)             *)
LineCountOfField(f) ==
  1 + CASE f.kind = "string" -> CalculateStringLines(f)
        [] f.kind = "message" -> LineCount(f.msg)
        [] OTHER -> 0

LineCount(m) == FoldLeft(LAMBDA n, f : n + LineCountOfField(f), 0, m.fields)

(* LineCountOfField, of the items of a repeated field, folded or not. *)
LineCountOfItems(items, is_folded) ==
  IF is_folded THEN 1
  ELSE FoldLeft(LAMBDA n, f : n + IF f.kind = "number" THEN 1 ELSE LineCountOfField(f) - 1, 0, items)

(* Printing: jump lines have yet to be left out, line is the next one on   *)
(* the screen; at fields have been passed, shown are those to be seen.     *)
ShowLines(pr, lines) ==
  [pr EXCEPT !.line = @ + lines, !.at = @ + 1, !.shown = IF pr.line < height THEN Append(@, pr.at + 1) ELSE @]

PrintLine(pr) == IF pr.jump # 0 THEN [pr EXCEPT !.jump = @ - 1, !.at = @ + 1] ELSE ShowLines(pr, 1)

(* A string: the lines of it that are left out count only when they end in *)
(* it.                                                                     *)
PrintString(pr, f) ==
  IF pr.jump > f.ends THEN [pr EXCEPT !.jump = @ - f.ends, !.at = @ + 1]
  ELSE ShowLines([pr EXCEPT !.jump = 0], 1 + f.ends - pr.jump)

RECURSIVE PrintMessage(_, _)

PrintField(pr, f) ==
  CASE f.kind = "string" -> PrintString(pr, f)
    [] f.kind = "message" -> PrintMessage(PrintLine(pr), f.msg)
    [] OTHER -> PrintLine(pr)

(* PrintMessage: until the screen is full; then a line if there are fields *)
(* that are not known.                                                     *)
PrintMessage(pr, m) ==
  LET end == FoldLeft(LAMBDA p, f : IF p.line > height THEN p ELSE PrintField(p, f), pr, m.fields)
  IN IF m.unknown THEN [end EXCEPT !.line = @ + 1] ELSE end

(* Mutant: a page is taken for a line longer than it is. *)
Jump_Over(index) == index * (height - 3)

(* The lines before a page of a message, four fifths of which are new. *)
Jump(index) == Quotient(4 * index * (height - 4), 5)

(* The fields on that page. *)
MessagePage(m, index) ==
  PrintMessage([jump |-> Jump(index), line |-> 4, at |-> 0, shown |-> <<>>], m).shown

(* page_item_count_ of a repeated field, and those of its items on a page. *)
ItemCount == IF height - 11 < 1 THEN 1 ELSE height - 11

ItemPage(items, index) ==
  FoldLeft(PrintField, [jump |-> index * ItemCount, line |-> 3, at |-> 0, shown |-> <<>>], items).shown

-----------------------------------------------------------------------------
(* Render *)

(* What every Render leaves alone. *)
RenderFrame == UNCHANGED <<uses, topology, rpc, msgs, height, resizes, canRun_, current_state_, calc>>

(* CyberTopologyMessage::ChangeState, of the space bar: the channel of the *)
(* line is closed, or opened again; nothing asks whether there is one.     *)
ChangeState(c) ==
  \/ /\ c = 0 /\ fault' = "no channel in the line" /\ UNCHANGED <<all_channels_map_, fails>>
  \/ /\ c # 0 /\ ~IsObject(c) /\ UNCHANGED <<all_channels_map_, fault, fails>>
  \/ /\ c # 0 /\ is_enabled(c) /\ rpc[c] = "idle"
     /\ all_channels_map_' = [all_channels_map_ EXCEPT ![c].open = FALSE] /\ UNCHANGED <<fault, fails>>
  \/ /\ c # 0 /\ IsObject(c) /\ ~is_enabled(c) /\ UNCHANGED fault
     /\ \E opened \in BOOLEAN :
           /\ OpenChannel(opened)
           /\ all_channels_map_' =
                 [all_channels_map_ EXCEPT ![c] = IF opened THEN [@ EXCEPT !.open = TRUE, !.readers = @ \cup {"MonitorReader"}]
                                                  ELSE ErrorCode]

(* CyberTopologyMessage::Render.  The frame ratios of the channels drawn,  *)
(* as those of the pages below, are computed next: they have nothing in    *)
(* common with what Render reads.                                          *)
RenderTable(k) ==
  /\ path = <<>> /\ printed' = <<>> /\ UNCHANGED <<path, shows>> /\ RenderFrame
  /\ \/ height = 1 /\ fault' = "division by zero" /\ UNCHANGED <<table, all_channels_map_, drawn, due, listed, fails>>
     \/ /\ height # 1
        /\ LET next == SplitPages(table, height - 1, Len(Names), k)
               first == next.index * (height - 1)
           IN /\ table' = next
              /\ drawn' = [n \in 1 .. height - 1 |-> IF first + n \in DOMAIN Names THEN Names[first + n] ELSE 0]
              /\ listed' = Names
              /\ due' = Range(drawn') \ {0}
              /\ \/ /\ first > Len(Names) /\ fault' = "past the end of the table"
                    /\ UNCHANGED <<all_channels_map_, fails>>
                 \/ first <= Len(Names) /\ k = "space" /\ ChangeState(FindChild(next))
                 \/ /\ first <= Len(Names) /\ k # "space"
                    /\ UNCHANGED <<all_channels_map_, fails, fault>>

(* The page on top of the others is p now. *)
Show(p) == path' = [path EXCEPT ![Len(path)] = p]

(* GeneralChannelMessage::RenderInfo: the readers, then the writers.  The  *)
(* lines counted are two more than there are.                              *)
RenderInfo(c, p, k) ==
  LET ends == Cardinality(all_channels_map_[c].readers) + Cardinality(all_channels_map_[c].writers)
      next == SplitPages(p, height - 2, ends + 2, k)
  IN \/ height = 2 /\ fault' = "division by zero" /\ UNCHANGED path
     \/ /\ height # 2 /\ Show(next)
        /\ fault' = IF next.index * (height - 2) > ends THEN "past the end of the writers" ELSE fault

(* RenderDebugString, of a message that comes, or of one that cannot be    *)
(* parsed.                                                                 *)
RenderDebugString(c, p, k) ==
  LET m == all_channels_map_[c]
  IN \/ /\ printed' = <<>>
        /\ \/ ~m.came /\ UNCHANGED <<path, fault>>
           \/ m.came /\ ~m.message /\ fault' = "no message" /\ UNCHANGED path
           \/ m.came /\ m.message /\ UNCHANGED <<path, fault>>
           \/ m.came /\ m.message /\ height = 4 /\ fault' = "division by zero" /\ UNCHANGED path
     \/ /\ m.came /\ m.message /\ height # 4 /\ UNCHANGED fault
        /\ \E msg \in Messages :
             LET next == SplitPages(p, height - 4, LineCount(msg), k)
             IN Show(next) /\ printed' = <<"message", msg, next.index, MessagePage(msg, next.index)>>

(* GeneralChannelMessage::Render *)
RenderChannel(k) ==
  /\ Len(path) = 1 /\ UNCHANGED <<table, all_channels_map_, drawn, listed, fails>> /\ RenderFrame
  /\ LET c == path[1].channel
     IN /\ shows' = [shows EXCEPT ![c] = CASE k = "debug" -> "ShowDebugString" [] k = "info" -> "ShowInfo" [] OTHER -> @]
        /\ \/ /\ shows'[c] = "ShowInfo" /\ RenderInfo(c, path[1], k) /\ printed' = <<>>
              /\ UNCHANGED due
           \/ /\ shows'[c] = "ShowDebugString" /\ RenderDebugString(c, path[1], k)
              /\ due' = {c}

(* GeneralMessage::Render, of a repeated field that has these items now. *)
RenderItem(k) ==
  /\ Len(path) > 1 /\ UNCHANGED <<table, all_channels_map_, shows, drawn, listed, fails, fault>> /\ RenderFrame
  /\ due' = {path[1].channel}
  /\ \E items \in Repeated :
        LET p == path[Len(path)]
            next == IF p.item + 1 >= Len(items) THEN 0 ELSE p.item + 1
            previous == IF p.item - 1 < 0 THEN Len(items) - 1 ELSE p.item - 1
            turned == CASE k = "fold" -> [p EXCEPT !.folded = ~@]
                        [] k = "next" /\ p.folded -> [p EXCEPT !.item = next]
                        [] k = "previous" /\ p.folded -> [p EXCEPT !.item = previous]
                        [] OTHER -> p
            split == SplitPages(turned, ItemCount, LineCountOfItems(items, turned.folded), k)
            these == IF turned.folded THEN <<items[turned.item + 1]>> ELSE items
        IN \/ Len(items) <= p.item /\ printed' = <<>> /\ UNCHANGED path
           \/ /\ Len(items) > p.item /\ Show(split)
              /\ printed' = <<"items", these, split.index, ItemPage(these, split.index)>>

(* Screen::Run and SwitchState: a key, or none.  The help is left with the *)
(* backspace, which then does nothing else.                                *)
Run(k) ==
  /\ mpc = "run" /\ Runs /\ key = "none"
  /\ \/ /\ k = "quit" /\ canRun_' = FALSE
        /\ UNCHANGED <<uses, topology, all_channels_map_, rpc, msgs, height, resizes, current_state_, table, path, shows, key,
                       drawn, ratios, printed, fails, fault, listed>>
     \/ /\ k # "quit" /\ (k = "help" \/ current_state_ = "RenderInterCmdInfo")
        /\ current_state_' = IF k = "backspace" THEN "RenderMessage" ELSE "RenderInterCmdInfo"
        /\ UNCHANGED <<uses, topology, all_channels_map_, rpc, msgs, height, resizes, canRun_, table, path, shows, key,
                       drawn, ratios, printed, fails, fault, listed>>
     \/ /\ k \notin {"quit", "help"} /\ current_state_ = "RenderMessage"
        /\ key' = IF k \in {"down", "up", "left", "backspace", "right"} THEN k ELSE "other"
        /\ RenderTable(k) \/ RenderChannel(k) \/ RenderItem(k)

(* The line of the table's cursor, when line_num lines were drawn. *)
Moved(line, line_num) ==
  LET last == IF line_num < height THEN line_num ELSE height
  IN CASE key = "down" -> IF line + 1 >= last THEN last - 1 ELSE line + 1
       [] key = "up" -> IF line - 1 < 1 THEN 1 ELSE line - 1
       [] OTHER -> line

(* ShowRenderMessage, after Render: the cursor moves, or the parent or the *)
(* child of the line is shown: on a channel's page, a repeated field.  The *)
(* line of the cursor on that page is left out.                            *)
ShowRenderMessage ==
  /\ key # "none" /\ Runs /\ calc = 0 /\ due' = {} /\ key' = "none" /\ printed' = <<>>
  /\ \/ /\ path = <<>> /\ drawn' = <<>> /\ listed' = <<>>
        /\ table' = [table EXCEPT !.line = Moved(@, 1 + Cardinality({n \in DOMAIN drawn : drawn[n] # 0}))]
        /\ LET c == FindChild(table)
           IN \/ /\ key = "right" /\ is_enabled(c)
                 /\ path' = <<[channel |-> c] @@ FirstPage>>
              \/ /\ key # "right" \/ ~is_enabled(c)
                 /\ UNCHANGED path
     \/ /\ path # <<>> /\ UNCHANGED <<table, drawn, listed>>
        /\ \/ key \in {"left", "backspace"} /\ path' = Front(path)
           \/ key = "right" /\ Len(path) < MaxDepth /\ path' = Append(path, [channel |-> path[1].channel] @@ FirstPage)
           \/ key \notin {"left", "backspace"} /\ UNCHANGED path
  /\ UNCHANGED <<uses, topology, all_channels_map_, rpc, msgs, height, resizes,
                 canRun_, current_state_, shows, calc, fails, fault>>

(* SIGWINCH *)
Resize(h) ==
  /\ mpc = "run" /\ Runs /\ key = "none" /\ resizes < uses.resizes /\ h # height
  /\ height' = h /\ resizes' = resizes + 1
  /\ UNCHANGED <<uses, topology, all_channels_map_, rpc, msgs, canRun_, current_state_, table, path, shows, key, drawn, ratios, printed,
                 fails, fault, listed>>

Next ==
  \/ Main \/ ShowRenderMessage
  \/ \E e \in Ends : TopologyChanged(e) \/ AddNext(e)
  \/ \E t \in {"main", "callback"} : AddReaderWriter(t)
  \/ \E c \in Channels : UpdateRawMessage(c) \/ FrameRatio(c)
  \/ DivideByTime
  \/ \E k \in uses.keys : Run(k)
  \/ \E h \in Heights : Resize(h)

Spec == Init /\ [][Next]_vars

-----------------------------------------------------------------------------
(* Properties *)

(* Between changes, the table has the writers and the readers that exist,  *)
(* of the channel specified or of all.                                     *)
(* It keeps one that left after main had copied the list and before main   *)
(* came to add it; two threads that add the first ends of a channel at the *)
(* same time leave one of its two objects out.                             *)
TableExactAtRest ==
  mpc = "run" /\ (\A t \in DOMAIN adding : adding[t].pc = "idle") /\ ~raced =>
    \A c \in Channels :
      LET nodes(r) == {e.node : e \in {x \in topo \cup stale : x.role = r /\ x.channel = c /\ Watched(c)}}
      IN IF IsObject(c)
         THEN all_channels_map_[c].writers = nodes("writer") /\ all_channels_map_[c].readers \ {"MonitorReader"} = nodes("reader")
         ELSE all_channels_map_[c] = Absent => nodes("writer") \cup nodes("reader") = {}

(* A channel whose page, or a page below it, is on the screen is open: its *)
(* name is asked of its reader on every Render.  (An object that lost the  *)
(* race above is out of the table while it is shown.)                      *)
ShownIsOpen == path # <<>> /\ ~raced => is_enabled(path[1].channel)

(* Enter opens the channel that was drawn in the line of the cursor, and   *)
(* none if the cursor is in no line, unless channels were added to the     *)
(* table after it was drawn.                                               *)
EntersWhatIsShown ==
  drawn # <<>> /\ Names = listed =>
    FindChild(table) = IF table.line \in DOMAIN drawn THEN drawn[table.line] ELSE 0

(* The undefined steps of Render need a terminal of 1, 2 or 4 lines, or    *)
(* one that was resized, or the first message of a channel between its     *)
(* flag and its storing, or the last page of the readers and writers, or   *)
(* the space bar below the last channel.                                   *)
FaultsKnown ==
  /\ fault = "division by zero" => height \in {1, 2, 4}
  /\ fault = "past the end of the table" => resizes > 0
  /\ fault = "no message" => rpc[path[1].channel] # "idle"
  /\ fault = "past the end of the writers" => path[1].index > 0
  /\ fault = "no channel in the line" => FindChild(table) = 0

RECURSIVE OfOneLine(_)

(* Every field of the message takes a line. *)
OfOneLine(m) ==
  ~m.unknown /\ \A f \in Range(m.fields) : f.kind # "string" /\ (f.kind = "message" => OfOneLine(f.msg))

(* A page of a message shows consecutive fields of it, the pages join with *)
(* no gap, and the items of a repeated field are all on some page, if each *)
(* field takes one line.  (Of a message that has more than one page, the   *)
(* last page may end before the message does: four fifths of the pages are *)
(* left out, where all of them were counted.)                              *)
PagesJoin ==
  printed # <<>> /\ printed[3] >= 0 =>
    /\ printed[1] = "message" /\ OfOneLine(printed[2]) /\ height > 4 =>
         LET n == LineCount(printed[2])
             last(i) == Min({n, Jump(i) + height - 4})
         IN /\ printed[4] = [i \in 1 .. last(printed[3]) - Jump(printed[3]) |-> Jump(printed[3]) + i]
            /\ LET pages == 0 .. n \div (height - 4)
               IN UNION {Range(MessagePage(printed[2], i)) : i \in pages} = 1 .. Max({last(i) : i \in pages})
    /\ printed[1] = "items" /\ (\A f \in Range(printed[2]) : f.kind = "number") /\ height > 3 =>
         UNION {Range(ItemPage(printed[2], i)) : i \in 0 .. Len(printed[2]) \div ItemCount} = 1 .. Len(printed[2])

(* The frame ratio is a number, unless the one before was divided by the   *)
(* time of a message that it had not counted: one that came between the    *)
(* exchange of the count and the reading of the time, or whose own count   *)
(* came after its time.                                                    *)
RatioIsNumber == \A c \in Channels : IsObject(c) /\ all_channels_map_[c].ratio = "infinite" => all_channels_map_[c].cut
=============================================================================
