----------------------------- MODULE EpdDriver -----------------------------
(***************************************************************************)
(* driver/ssd1680.c, the driver of the e-paper panel, and the panel.       *)
(*                                                                         *)
(* A driver state is a record e; an operation maps it to the next one, so  *)
(* that callers run several operations in one step, as the single thread   *)
(* of the firmware does.                                                   *)
(*                                                                         *)
(* A picture is a model value: how its pixels are split into two planes    *)
(* and shifted out is left out.  Of the panel, which is outside the code,  *)
(* the model has what the driver relies on: a hardware reset wakes it and  *)
(* aborts what it was doing, a refresh takes RefreshTime seconds, and one  *)
(* that is aborted leaves a torn picture.  os_malloc() is assumed to       *)
(* succeed.                                                                *)
(***************************************************************************)
EXTENDS Integers

CONSTANTS
  Images,      \* the pictures a frame buffer can hold
  Black,       \* the picture of a buffer of zeros
  Torn,        \* no picture: a refresh was cut short
  FlushTicks,  \* 26: busy_timeout of a refresh, in calls of the timer
  OpenWait,    \* 100: busy_timeout of a reset, in milliseconds
  RefreshTime  \* "about 25s"

ASSUME PictureAssumption == Black \in Images /\ Torn \notin Images
ASSUME TimeAssumption ==
  /\ FlushTicks \in Nat \ {0}
  /\ OpenWait \in Nat \ {0}
  /\ RefreshTime \in 1..FlushTicks

TimeoutMax == IF FlushTicks > OpenWait THEN FlushTicks ELSE OpenWait

Epd == [
  status : {"IDLE", "BUSY"},              \* epd_status
  timeout : 0..TimeoutMax,                \* busy_timeout
  armed : BOOLEAN,                        \* is epd_timer running
  callback : BOOLEAN,                     \* is callback set
  frame : Images,                         \* frameBuffer
  pins : BOOLEAN,                         \* are the port pins in use
  mode : {"sleep", "ready", "refresh"},   \* the panel,
  left : 0..RefreshTime,                  \* the seconds its refresh takes yet,
  ram : Images,                           \* its RAM
  shown : Images \cup {Torn}]             \* and what it shows

(* The first power-on: the panel shows whatever it showed, RAM is zero. *)
PoweredUp(shown) ==
  [status |-> "IDLE", timeout |-> 0, armed |-> FALSE, callback |-> FALSE,
   frame |-> Black, pins |-> FALSE, mode |-> "sleep", left |-> 0,
   ram |-> Black, shown |-> shown]

EpdInit(e) == [e EXCEPT !.pins = TRUE]

(* The panel leaves a refresh before its time. *)
AbortedPicture(e) == IF e.mode = "refresh" THEN Torn ELSE e.shown

(* Mutant of OpenRests: the loop decrements after its test. *)
BugOpenRests == (0 - 1)..(OpenWait - 1)

(* epd_open(): rest is what the loop leaves of busy_timeout, the BUSY pin  *)
(* deciding when it ends.                                                  *)
OpenRests == 0..(OpenWait - 1)

EpdOpen(e, rest) ==
  [e EXCEPT !.timeout = rest, !.shown = AbortedPicture(e), !.mode = "ready", !.left = 0]

(* Mutant of EpdSleep: the command is not sent. *)
BugEpdSleep(e) == e

EpdSleep(e) == [e EXCEPT !.shown = AbortedPicture(e), !.mode = "sleep", !.left = 0]

EpdClose(e) == [e EXCEPT !.pins = FALSE]

EpdSetFlushDoneCallback(e) == [e EXCEPT !.callback = TRUE]

EpdIsIdle(e) == e.status = "IDLE"

(* epd_write() of a picture; where the data go decides what is returned *)
EpdWriteResult(place) ==
  CASE place = "beyond" -> "OFFSET_ERR"
    [] place = "across" -> "LENGTH_ERR"
    [] OTHER -> "OK"

EpdWrite(e, place, img) == IF place = "inside" THEN [e EXCEPT !.frame = img] ELSE e

(* Mutant of EpdFlush: the timer is given the wait of a reset. *)
BugEpdFlush(e) ==
  IF e.status = "BUSY" THEN e
  ELSE [e EXCEPT !.status = "BUSY", !.ram = e.frame, !.mode = "refresh",
                 !.left = RefreshTime, !.armed = TRUE]

(* epd_flush(): nothing while BUSY, else both planes are loaded and the    *)
(* refresh is started.                                                     *)
EpdFlush(e) ==
  IF e.status = "BUSY" THEN e
  ELSE [e EXCEPT !.status = "BUSY", !.ram = e.frame, !.mode = "refresh",
                 !.left = RefreshTime, !.timeout = FlushTicks, !.armed = TRUE]

(* A second of the panel's time: what the timer waits for is its end. *)
PanelSecond(e) ==
  IF e.mode # "refresh" THEN e
  ELSE IF e.left > 1 THEN [e EXCEPT !.left = @ - 1]
  ELSE [e EXCEPT !.left = 0, !.mode = "ready", !.shown = e.ram]

(* Mutant of TimerCounts: busy_timeout stays. *)
BugTimerCounts(e) == e

(* epd_timer_callback(), its two branches; the second one calls callback. *)
TimerCounts(e) == [e EXCEPT !.timeout = @ - 1]

(* Mutant of TimerEnds: the timer is not stopped. *)
BugTimerEnds(e) == EpdClose(EpdSleep([e EXCEPT !.status = "IDLE", !.timeout = 0]))

TimerEnds(e) ==
  EpdClose(EpdSleep([e EXCEPT !.armed = FALSE, !.status = "IDLE", !.timeout = 0]))
=============================================================================
