--------------------------- MODULE RequestHandler ---------------------------
(***************************************************************************)
(* request_handler.c: the requests a phone writes to the tag, from the     *)
(* message that brings one to the notification that answers it, with what  *)
(* they work on: the panel (EpdDriver) and the configuration records.      *)
(*                                                                         *)
(* The kernel of the SDK, which is outside the code, runs one handler at a *)
(* time, to its end, and delivers messages in the order they were posted.  *)
(* A handler that takes long creates a task and posts it a message; the    *)
(* task answers and is deleted.  A message to a task that is gone is       *)
(* dropped; an id that was given back can be given out again.              *)
(*                                                                         *)
(* Abstractions:                                                           *)
(*  - Requests are numbered in the order they arrive, to tell which one an *)
(*    answer is for: the notification itself has the opcode only.          *)
(*  - Of the record store (FlashTlv) the two sectors are left, with what   *)
(*    their records say and whether they have a header, and what the code  *)
(*    knows of them in RAM: mark_address and the cache.  A call of the     *)
(*    store takes effect before power is lost or not at all; two live      *)
(*    blocks of one tag (the vague tags of TagStore) are left out.         *)
(*  - A strike at a mark_address whose sector was erased may damage the    *)
(*    log: the store is lost then, and answers anything.                   *)
(*  - Once a read has overrun the transmit buffer, RAM holds whatever it   *)
(*    may: nothing is modelled from there to the next boot.  (What the     *)
(*    boot makes of the records that it reads is in Device.)               *)
(***************************************************************************)
EXTENDS EpdDriver, Sequences, FiniteSets

CONSTANTS
  Requests,     \* what a phone may write: [op |-> ..., ...]
  MaxRequests,  \* bound: requests between two boots
  TaskIds,      \* the task ids of the kernel
  NoTask,       \* async_task_id before the first request
  Tags, Values, NoValue,
  BootTags,     \* the records that the boot reads
  Overlong,     \* the values that are too long for the transmit buffer
  Nil,          \* no mark_address, no entry in the cache
  Gone,         \* what an address leads to after an erase: anything ...
  Erased        \* ... or cells in which nothing was written since

ASSUME RequestsAssumption ==
  /\ MaxRequests \in Nat
  /\ NoTask \notin TaskIds /\ "profile" \notin TaskIds
  /\ IsFiniteSet(TaskIds) /\ NoValue \notin Values
  /\ BootTags \subseteq Tags /\ Overlong \subseteq Values
  /\ Gone \notin Tags \cup Values \cup {NoValue, Erased} /\ Erased \notin Values
  /\ Nil \notin [sec : {"major", "minor"}, tag : Tags \cup {Gone}]
                \cup [sec : {"major", "minor"}, val : Values \cup {Erased, Gone}]
  /\ \A r \in Requests :
       /\ r.op = "wr_ram" /\ r.place = "inside" => r.img \in Images
       /\ r.op = "erase" => r.range \in {"ok", "ADDRESS_ERR", "LENGTH_ERR"}
       /\ r.op \in {"wr_conf", "rd_conf", "del_conf"} => r.tag \in Tags
       /\ r.op = "wr_conf" => r.val \in Values

VARIABLES
  queue,    \* the messages of the kernel
  tasks,    \* the task ids in use
  async,    \* async_task_id
  epd,      \* the state of ssd1680.c and the panel
  store,    \* the records in flash
  phone,    \* FLAG_PHONE_CONNECTED
  asked,    \* the requests so far
  answers,  \* for each of them, the results that were notified
  told,     \* how often EPD_FLUSH_DONE was notified
  clashes,  \* how often a task was created while another was waiting
  ruined    \* RAM was overwritten

service == <<queue, tasks, async, clashes, ruined>>
vars == <<queue, tasks, async, epd, store, phone, asked, answers, told, clashes, ruined>>

(***************************************************************************)
(* The records.                                                            *)
(***************************************************************************)
Sector == {"major", "minor"}
Other(s) == CHOOSE o \in Sector : o # s

Empty == [t \in Tags |-> NoValue]
Uncached == [t \in Tags |-> Nil]
Blank == [headed |-> FALSE, recs |-> Empty]
Formatted == [work |-> "major",
              sec |-> [s \in Sector |-> [headed |-> s = "major", recs |-> Empty]],
              mark |-> Nil,
              cached |-> Uncached,
              lost |-> FALSE]

Records(st) == st.sec[st.work].recs

(* The sectors S are erased; what RAM knows of their blocks is not.        *)
Wiped(st, S) ==
  [st EXCEPT
     !.sec = [s \in Sector |-> IF s \in S THEN Blank ELSE @[s]],
     !.mark = IF @ # Nil /\ @.sec \in S THEN [@ EXCEPT !.tag = Gone] ELSE @,
     !.cached = [t \in Tags |-> IF @[t] # Nil /\ @[t].sec \in S
                                THEN [@[t] EXCEPT !.val = Erased] ELSE @[t]]]

(* Something is written in the sector in use: a cached address that lay in *)
(* erased cells may lie in any block now, or in the middle of one.         *)
Refilled(st) ==
  [st EXCEPT
     !.cached = [t \in Tags |-> IF @[t] # Nil /\ @[t].sec = st.work /\ @[t].val = Erased
                                THEN [@[t] EXCEPT !.val = Gone] ELSE @[t]]]

(* flash_tlv_gc() erases the other sector and moves there. *)
Collected(st) ==
  Refilled([Wiped(st, {Other(st.work)}) EXCEPT
              !.work = Other(st.work), !.sec[Other(st.work)] = st.sec[st.work]])

(* The search of an append: mark_address is the record of the tag, or      *)
(* stays what it was.                                                      *)
Marked(st, t) ==
  IF Records(st)[t] = NoValue THEN st
  ELSE [st EXCEPT !.mark = [sec |-> st.work, tag |-> t]]

(* The append has found room, at once or after a collection. *)
Located(st, t) == {Marked(st, t), Marked(Collected(Marked(st, t)), t)}

(* What is at mark_address is struck, be it the record of this tag, ...    *)
Struck(st) ==
  CASE st.mark = Nil -> st
    [] st.mark # Nil /\ st.mark.tag = Gone -> [st EXCEPT !.mark = Nil, !.lost = TRUE]
    [] OTHER -> [st EXCEPT !.mark = Nil, !.sec[st.mark.sec].recs[st.mark.tag] = NoValue]

(* set_cache(): in a free entry, or in that of another tag. *)
Remembered(st, t, v) ==
  LET new == [st EXCEPT !.cached[t] = [sec |-> st.work, val |-> v]]
  IN  {new} \cup {[new EXCEPT !.cached[u] = Nil] : u \in Tags \ {t}}

(* ... and the new one shows: flash_tlv_append() returns TRUE. *)
Written(st, t, v) ==
  IF st.lost THEN {st}
  ELSE UNION {Remembered([Struck(Refilled(at)) EXCEPT !.sec[at.work].recs[t] = v], t, v) :
                at \in Located(st, t)}

(* flash_tlv_append() returns FALSE: there is no room, nor after a         *)
(* collection, or what was written does not read back.                     *)
Refused(st, t) ==
  IF st.lost THEN {st}
  ELSE {Marked(st, t), Collected(Marked(st, t))} \cup {Refilled(at) : at \in Located(st, t)}

Deleted(st, t) ==
  IF st.lost THEN st
  ELSE [st EXCEPT !.sec[st.work].recs[t] = NoValue, !.cached[t] = Nil]

(* What flash_tlv_query() and flash_tlv_read() hand out for a tag: of a    *)
(* cached block that was erased nobody is told.                            *)
Found(st, t) ==
  CASE st.lost -> Gone
    [] ~st.lost /\ st.cached[t] # Nil -> st.cached[t].val
    [] OTHER -> Records(st)[t]

(* A record that was found by a search is cached. *)
Queried(st, t) ==
  IF st.lost \/ st.cached[t] # Nil \/ Records(st)[t] = NoValue THEN {st}
  ELSE Remembered(st, t, Records(st)[t])

(* RAM is new, and the boot searches for the records it needs: what it     *)
(* finds is cached.                                                        *)
ReadAtBoot(st) ==
  [st EXCEPT
     !.mark = Nil,
     !.cached = [t \in Tags |-> IF t \in BootTags /\ Records(st)[t] # NoValue
                                THEN [sec |-> st.work, val |-> Records(st)[t]] ELSE Nil]]

(* Mutant of Mounted: the first header that is there is taken. *)
BugMounted(st) ==
  IF \E s \in Sector : st.sec[s].headed
  THEN ReadAtBoot([st EXCEPT !.work = IF st.sec["major"].headed THEN "major" ELSE "minor"])
  ELSE Formatted

(* A boot looks for a header: the sector in use has the later one. *)
Mounted(st) ==
  CASE st.lost \/ st.sec[st.work].headed -> ReadAtBoot(st)
    [] ~st.lost /\ ~st.sec[st.work].headed /\ st.sec[Other(st.work)].headed ->
         ReadAtBoot([st EXCEPT !.work = Other(@)])
    [] OTHER -> Formatted

(***************************************************************************)
(* The boot: user_proj_main_before_ble_ini() mounts the store,             *)
(* user_proj_main() resets the panel and puts it to sleep.                 *)
(***************************************************************************)
EpdBoot(shown, rest) == EpdClose(EpdSleep(EpdOpen(EpdInit(PoweredUp(shown)), rest)))

Init ==
  /\ queue = <<>>
  /\ tasks = {}
  /\ async = NoTask
  /\ epd \in {EpdBoot(img, rest) : img \in Images, rest \in OpenRests}
  /\ store = Formatted
  /\ phone = FALSE
  /\ asked = <<>>
  /\ answers = <<>>
  /\ told = 0
  /\ clashes = 0
  /\ ruined = FALSE

PhoneConnects ==
  /\ ~phone
  /\ phone' = TRUE
  /\ UNCHANGED <<service, epd, store, asked, answers, told>>

PhoneLeaves ==
  /\ phone
  /\ phone' = FALSE
  /\ UNCHANGED <<service, epd, store, asked, answers, told>>

Arrives(r) ==
  /\ phone
  /\ Len(asked) < MaxRequests
  /\ asked' = Append(asked, r)
  /\ answers' = Append(answers, <<>>)
  /\ queue' = Append(queue, [to |-> "profile", n |-> Len(asked) + 1])
  /\ UNCHANGED <<tasks, async, epd, store, phone, told, clashes, ruined>>

(***************************************************************************)
(* dispatch_write_request(): the handler of the opcode is called.          *)
(***************************************************************************)
Msg == Head(queue)
Req == asked[Msg.n]

Handles(op) == queue # <<>> /\ Msg.to = "profile" /\ Req.op = op

Waiting == {i \in 1..Len(queue) : queue[i].to # "profile"}

(* The handler notifies what it has to say and returns. *)
Replies(codes) ==
  /\ queue' = Tail(queue)
  /\ answers' = [answers EXCEPT ![Msg.n] = codes]
  /\ UNCHANGED <<tasks, async, clashes, ruined>>

Reply(code) == Replies(<<code>>)

(* Mutant of StartsTask: the message is posted to the task before. *)
BugStartsTask(said, err) ==
  /\ \E id \in TaskIds \ tasks :
       /\ tasks' = tasks \cup {id}
       /\ async' = id
       /\ queue' = Append(Tail(queue), [to |-> async, n |-> Msg.n])
  /\ clashes' = IF Waiting = {} THEN clashes ELSE clashes + 1
  /\ answers' = [answers EXCEPT ![Msg.n] = said]
  /\ UNCHANGED ruined

(* The handler creates a task, after it said what it said, and posts it    *)
(* the request; or there is no free id.                                    *)
StartsTask(said, err) ==
  \/ /\ \E id \in TaskIds \ tasks :
          /\ tasks' = tasks \cup {id}
          /\ async' = id
          /\ queue' = Append(Tail(queue), [to |-> id, n |-> Msg.n])
     /\ clashes' = IF Waiting = {} THEN clashes ELSE clashes + 1
     /\ answers' = [answers EXCEPT ![Msg.n] = said]
     /\ UNCHANGED ruined
  \/ /\ tasks = TaskIds
     /\ Replies(Append(said, err))

(* The opcode is not in the table: no answer. *)
UnknownOpcode ==
  /\ Handles("unknown")
  /\ Replies(<<>>)
  /\ UNCHANGED <<epd, store, phone, asked, told>>

(* Mutant of WriteDisplayRam: written while the panel is refreshed. *)
BugWriteDisplayRam ==
  /\ Handles("wr_ram")
  /\ \/ /\ Req.place = "short"
        /\ Reply("PACKET_ERR")
        /\ UNCHANGED epd
     \/ /\ Req.place # "short"
        /\ Reply(EpdWriteResult(Req.place))
        /\ epd' = EpdWrite(epd, Req.place, Req.img)
  /\ UNCHANGED <<store, phone, asked, told>>

WriteDisplayRam ==
  /\ Handles("wr_ram")
  /\ \/ /\ Req.place = "short"
        /\ Reply("PACKET_ERR")
        /\ UNCHANGED epd
     \/ /\ Req.place # "short"
        /\ ~EpdIsIdle(epd)
        /\ Reply("EPD_BUSY")
        /\ UNCHANGED epd
     \/ /\ Req.place # "short"
        /\ EpdIsIdle(epd)
        /\ Reply(EpdWriteResult(Req.place))
        /\ epd' = EpdWrite(epd, Req.place, Req.img)
  /\ UNCHANGED <<store, phone, asked, told>>

FlushScreen ==
  /\ Handles("flush")
  /\ \/ EpdIsIdle(epd) /\ StartsTask(<<>>, "TASK_ERR")
     \/ ~EpdIsIdle(epd) /\ Reply("EPD_BUSY")
  /\ UNCHANGED <<epd, store, phone, asked, told>>

ReadDisplayRam ==
  /\ Handles("rd_ram")
  /\ Reply(IF Req.inside THEN "OK" ELSE "LENGTH_ERR")
  /\ UNCHANGED <<epd, store, phone, asked, told>>

ReadHardwareInfo ==
  /\ Handles("hw_info")
  /\ Reply("OK")
  /\ UNCHANGED <<epd, store, phone, asked, told>>

EraseFlashSector ==
  /\ Handles("erase")
  /\ IF Req.range = "ok" THEN StartsTask(<<>>, "TASK_ERR") ELSE Reply(Req.range)
  /\ UNCHANGED <<epd, store, phone, asked, told>>

(* A packet that is too short is answered, and goes on: what is behind it  *)
(* in memory is taken for the rest (Req.tag and Req.val then).             *)
WriteConfig ==
  /\ Handles("wr_conf")
  /\ StartsTask(IF Req.short THEN <<"LEN_ERR">> ELSE <<>>, "TASK_ERR")
  /\ UNCHANGED <<epd, store, phone, asked, told>>

(* Mutant of ReadConfig: a short packet is not answered. *)
BugReadConfig ==
  /\ Handles("rd_conf")
  /\ CASE Req.form = "short" -> Replies(<<>>)
       [] Req.form = "flag" -> Reply("OK")
       [] Req.form = "reserved" -> Reply("NOT_EXIST")
       [] OTHER -> StartsTask(<<>>, "TASK_ERR")
  /\ UNCHANGED <<epd, store, phone, asked, told>>

(* The tags from 0xFF00 on are not records: 0xFF01 is a flag, others are   *)
(* nothing.                                                                *)
ReadConfig ==
  /\ Handles("rd_conf")
  /\ CASE Req.form = "short" -> Reply("LEN_ERR")
       [] Req.form = "flag" -> Reply("OK")
       [] Req.form = "reserved" -> Reply("NOT_EXIST")
       [] OTHER -> StartsTask(<<>>, "TASK_ERR")
  /\ UNCHANGED <<epd, store, phone, asked, told>>

DeleteConfig ==
  /\ Handles("del_conf")
  /\ StartsTask(<<>>, "TASK_ERR")
  /\ UNCHANGED <<epd, store, phone, asked, told>>

Dispatch ==
  \/ UnknownOpcode
  \/ WriteDisplayRam \/ FlushScreen \/ ReadDisplayRam \/ ReadHardwareInfo
  \/ EraseFlashSector \/ WriteConfig \/ ReadConfig \/ DeleteConfig

(***************************************************************************)
(* async_task()                                                            *)
(***************************************************************************)
Runs(op) == queue # <<>> /\ Msg.to \in tasks /\ Req.op = op

(* Mutant of Ends: the task is not deleted. *)
BugEnds(code) ==
  /\ queue' = Tail(queue)
  /\ answers' = [answers EXCEPT ![Msg.n] = Append(@, code)]
  /\ UNCHANGED <<tasks, async, clashes, ruined>>

(* The task answers and deletes the task of async_task_id, not its own. *)
Ends(code) ==
  /\ queue' = Tail(queue)
  /\ answers' = [answers EXCEPT ![Msg.n] = Append(@, code)]
  /\ tasks' = tasks \ {async}
  /\ UNCHANGED <<async, clashes, ruined>>

(* What epd_flush() returns is ignored. *)
FlushDisplay ==
  /\ Runs("flush")
  /\ \E rest \in OpenRests :
       epd' = EpdFlush(EpdSetFlushDoneCallback(EpdOpen(EpdInit(epd), rest)))
  /\ Ends("OK")
  /\ UNCHANGED <<store, phone, asked, told>>

EraseFlash ==
  /\ Runs("erase")
  /\ store' = Wiped(store, Req.sectors)
  /\ Ends("OK")
  /\ UNCHANGED <<epd, phone, asked, told>>

AppendConfig ==
  /\ Runs("wr_conf")
  /\ \/ store' \in Written(store, Req.tag, Req.val) /\ Ends("OK")
     \/ store' \in Refused(store, Req.tag) /\ Ends("WRITE_ERR")
  /\ UNCHANGED <<epd, phone, asked, told>>

QueryConfig ==
  /\ Runs("rd_conf")
  /\ \/ /\ Found(store, Req.tag) \in (Values \ Overlong) \cup {Gone}
        /\ store' \in Queried(store, Req.tag)
        /\ Ends("OK")
     \/ /\ Found(store, Req.tag) = NoValue \/ store.lost
        /\ Ends("NOT_EXIST")
        /\ UNCHANGED store
  /\ UNCHANGED <<epd, phone, asked, told>>

(* Nothing compares the length of the record with the transmit buffer, and *)
(* of erased cells the length reads as 0xFFFF.                             *)
QueryOverruns ==
  /\ Runs("rd_conf")
  /\ Found(store, Req.tag) \in Overlong \cup {Erased, Gone}
  /\ ruined' = TRUE
  /\ UNCHANGED <<queue, tasks, async, epd, store, phone, asked, answers, told, clashes>>

RemoveConfig ==
  /\ Runs("del_conf")
  /\ store' = Deleted(store, Req.tag)
  /\ \/ (Records(store)[Req.tag] # NoValue \/ store.lost) /\ Ends("OK")
     \/ (Records(store)[Req.tag] = NoValue \/ store.lost) /\ Ends("NOT_EXIST")
  /\ UNCHANGED <<epd, phone, asked, told>>

(* The kernel: the task the message was posted to is gone. *)
Dropped ==
  /\ queue # <<>>
  /\ Msg.to \notin tasks \cup {"profile"}
  /\ queue' = Tail(queue)
  /\ UNCHANGED <<tasks, async, clashes, ruined, epd, store, phone, asked, answers, told>>

AsyncTask ==
  \/ FlushDisplay \/ EraseFlash
  \/ AppendConfig \/ QueryConfig \/ QueryOverruns \/ RemoveConfig

(***************************************************************************)
(* The timer of the panel, once a second.                                  *)
(***************************************************************************)
EpdCounts ==
  /\ epd.armed
  /\ PanelSecond(epd).timeout > 0
  /\ epd' = TimerCounts(PanelSecond(epd))
  /\ UNCHANGED <<service, store, phone, asked, answers, told>>

(* epd_flush_done(): a phone, if there is one, is told. *)
EpdEnds ==
  /\ epd.armed
  /\ PanelSecond(epd).timeout = 0
  /\ epd' = TimerEnds(PanelSecond(epd))
  /\ told' = IF epd.callback /\ phone THEN told + 1 ELSE told
  /\ UNCHANGED <<service, store, phone, asked, answers>>

EpdTimer == ~ruined /\ (EpdCounts \/ EpdEnds)

(* What a task can have done to the store when power is lost: nothing yet, *)
(* one of two sectors that it erases, or all.                              *)
Interrupted ==
  {store}
  \cup {Wiped(store, S) : S \in {x \in SUBSET {"major"} : Runs("erase") /\ x \subseteq Req.sectors}}
  \cup (IF Runs("wr_conf")
        THEN Written(store, Req.tag, Req.val) \cup Refused(store, Req.tag) ELSE {})
  \cup (IF Runs("del_conf") THEN {Deleted(store, Req.tag)} ELSE {})

(* Power is lost, or the watchdog bites. *)
Reboot ==
  /\ \E st \in Interrupted : store' = Mounted(st)
  /\ \E rest \in OpenRests : epd' = EpdBoot(AbortedPicture(epd), rest)
  /\ queue' = <<>>
  /\ tasks' = {}
  /\ async' = NoTask
  /\ phone' = FALSE
  /\ asked' = <<>>
  /\ answers' = <<>>
  /\ told' = 0
  /\ clashes' = 0
  /\ ruined' = FALSE

Kernel == ~ruined /\ (Dispatch \/ AsyncTask \/ Dropped)

Phone == ~ruined /\ (PhoneConnects \/ PhoneLeaves \/ \E r \in Requests : Arrives(r))

Next ==
  \/ Phone
  \/ Kernel
  \/ EpdTimer
  \/ Reboot

Spec == Init /\ [][Next]_vars

(* The kernel goes on delivering messages and the timer goes on ticking,   *)
(* as long as RAM is sound.                                                *)
FairSpec == Spec /\ WF_vars(Kernel) /\ WF_vars(EpdTimer)

-----------------------------------------------------------------------------
(* Type invariant. *)
Message == [to : TaskIds \cup {"profile"}, n : 1..MaxRequests]

Code == {"OK", "PACKET_ERR", "OFFSET_ERR", "LENGTH_ERR", "EPD_BUSY", "TASK_ERR",
         "ADDRESS_ERR", "LEN_ERR", "WRITE_ERR", "NOT_EXIST"}

Store ==
  [work : Sector,
   sec : [Sector -> [headed : BOOLEAN, recs : [Tags -> Values \cup {NoValue}]]],
   mark : {Nil} \cup [sec : Sector, tag : Tags \cup {Gone}],
   cached : [Tags -> {Nil} \cup [sec : Sector, val : Values \cup {Erased, Gone}]],
   lost : BOOLEAN]

TypeOK ==
  /\ queue \in Seq(Message)
  /\ tasks \in SUBSET TaskIds
  /\ async \in TaskIds \cup {NoTask}
  /\ epd \in Epd
  /\ store \in Store
  /\ phone \in BOOLEAN
  /\ asked \in Seq(Requests) /\ Len(asked) <= MaxRequests
  /\ answers \in Seq(Seq(Code)) /\ Len(answers) = Len(asked)
  /\ told \in 0..MaxRequests
  /\ clashes \in 0..MaxRequests
  /\ ruined \in BOOLEAN

(***************************************************************************)
(* Requests and tasks.  async_task_id is one variable for all tasks: when  *)
(* a request is dispatched while another one's task is waiting to run,     *)
(* that task deletes the wrong one.                                        *)
(***************************************************************************)
(* The tasks in use are those that wait to run, and those that overlapping *)
(* requests left behind, no more than one for each overlap.                *)
TasksAccounted ==
  /\ Cardinality(tasks) <= Cardinality(Waiting) + clashes
  /\ clashes = 0 => tasks = {queue[i].to : i \in Waiting}

Pending == {queue[i].n : i \in 1..Len(queue)}

Unanswered ==
  {n \in 1..Len(asked) : n \notin Pending /\ asked[n].op # "unknown" /\ answers[n] = <<>>}

(* A request whose turn has passed is answered, but for no more requests   *)
(* than there were overlaps; a client that waits for each answer gets it.  *)
LostOnlyByOverlap == Cardinality(Unanswered) <= clashes

(* A client that waits for each answer gets one: the kernel does not stop, *)
(* no handler forgets to answer, no task id is lost without an overlap.    *)
(* (But a read that overruns the transmit buffer may never be answered.)   *)
Answered(n) == n \in 1..Len(asked) => answers[n] # <<>> \/ asked[n].op = "unknown"

RequestsSettle ==
  \A n \in 1..MaxRequests : n <= Len(asked) ~> Answered(n) \/ clashes > 0 \/ ruined

(***************************************************************************)
(* The panel.                                                              *)
(***************************************************************************)
(* While the panel refreshes, the timer runs, and not too short: neither   *)
(* requests nor a second epd_open() make it put the panel to sleep early.  *)
RefreshCovered ==
  epd.mode = "refresh" => epd.status = "BUSY" /\ epd.armed /\ epd.left <= epd.timeout

(* An idle driver has left the panel asleep and its pins unused, whatever  *)
(* tasks reopened it: an awake panel empties the battery.                  *)
IdleIsAsleep ==
  EpdIsIdle(epd) => epd.mode = "sleep" /\ ~epd.pins /\ ~epd.armed

(* When a phone is told that its picture is flushed, the panel shows what  *)
(* the frame buffer holds (no write came in between), or a second flush    *)
(* has torn the picture.                                                   *)
DoneIsShown == [][told' > told => epd'.shown \in {epd'.frame, Torn}]_vars

FlushesOk == {n \in 1..Len(asked) : asked[n].op = "flush" /\ "OK" \in {answers[n][i] : i \in 1..Len(answers[n])}}

(* Whoever is connected is told of the end of a refresh, but once for each *)
(* refresh, and each belongs to a FLUSH that was answered OK: nobody is    *)
(* told of a refresh that was not asked for, or twice of one, however the  *)
(* tasks overlap.                                                          *)
DoneWasAsked ==
  told + (IF EpdIsIdle(epd) THEN 0 ELSE 1) <= Cardinality(FlushesOk)

(* A refresh is cut short by a loss of power, or by the task of a second   *)
(* flush; that takes three overlapping requests: of two flushes that were  *)
(* dispatched together, the first one's task deletes the second one's.     *)
TornOnlyByOverlaps ==
  [][epd.shown # Torn /\ epd'.shown = Torn => Reboot \/ (FlushDisplay /\ clashes >= 2)]_vars

(* Every refresh comes to an end, so that the panel takes pictures again,  *)
(* unless RAM is overrun.                                                  *)
RefreshEnds == epd.status = "BUSY" ~> EpdIsIdle(epd) \/ ruined

(***************************************************************************)
(* The records.                                                            *)
(***************************************************************************)
(* A write of t was answered WRITE_CONFIG_ERR since the boot. *)
WasRefused(t) ==
  \E n \in 1..Len(asked) :
    /\ asked[n].op = "wr_conf" /\ asked[n].tag = t
    /\ \E i \in 1..Len(answers[n]) : answers[n][i] = "WRITE_ERR"

(* A record is changed by a write or a deletion of its tag.  It changes    *)
(* otherwise                                                               *)
(*  - by the write of another tag, if a write of its own was refused since *)
(*    the boot: mark_address is left at it;                                *)
(*  - by ERASE_FLASH, whose user space begins with the two sectors of the  *)
(*    store: at once, or at the next boot, when older records come back    *)
(*    because the sector in use has lost its header;                       *)
(* and nothing is said once the store is lost.                             *)
RecordsAccounted ==
  [][\A t \in Tags :
       Records(store')[t] # Records(store)[t] /\ ~store.lost =>
         \/ /\ AsyncTask \/ Reboot
            /\ \/ (Runs("wr_conf") \/ Runs("del_conf")) /\ Req.tag = t
               \/ Runs("wr_conf") /\ WasRefused(t)
               \/ Runs("erase")
         \/ Reboot /\ ~store.sec[store.work].headed]_vars

(***************************************************************************)
(* What a comment of the code says and the code does not do.               *)
(***************************************************************************)
(* "1 header + 2 tag + 2 length + at least 1 byte of data"                 *)
(* (request_handler.c, write_config): a packet that is shorter, and is     *)
(* answered so, stores nothing.                                            *)
ShortWriteStoresNothing ==
  [][AppendConfig /\ answers[Msg.n] # <<>> => Records(store') = Records(store)]_vars
=============================================================================
