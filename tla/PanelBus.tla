------------------------------ MODULE PanelBus ------------------------------
(***************************************************************************)
(* driver/ssd1680.c and the panel, byte by byte: the calls that requests   *)
(* and the timer make, each of which sends its bytes to its end.  Each     *)
(* byte arrives, in order, as the command or the data it was sent as; that *)
(* the wires do this is shown in PanelLink.                                *)
(*                                                                         *)
(* A picture counts as shown from the command that starts its refresh: the *)
(* time a refresh takes, and what cuts it short, are in EpdDriver.         *)
(***************************************************************************)
EXTENDS Panel, SequencesExt

VARIABLES
  frame,   \* frameBuffer
  status,  \* epd_status
  todo,    \* what the call under way has yet to send: bytes with their D/C
  panel

bus == <<frame, status, todo, panel>>

Sent(t) ==
  <<[dc |-> 0, byte |-> t.cmd]>> \o [i \in 1..Len(t.data) |-> [dc |-> 1, byte |-> t.data[i]]]

AllSent(ts) == FlattenSeq([i \in 1..Len(ts) |-> Sent(ts[i])])

(* user_proj_main(): the panel is reset, opened and put to sleep. *)
Init ==
  /\ frame = ZeroFrame
  /\ status = "IDLE"
  /\ todo = AllSent(OpenCmds \o SleepCmds)
  /\ panel = HardwareReset(PoweredOff)

Delivers ==
  /\ todo # <<>>
  /\ panel' = PanelTakes(panel, Head(todo).dc, Head(todo).byte)
  /\ todo' = Tail(todo)
  /\ UNCHANGED <<frame, status>>

(* epd_write(), from a request that found the driver idle *)
EpdWrite ==
  /\ todo = <<>>
  /\ status = "IDLE"
  /\ frame' \in Frames
  /\ UNCHANGED <<status, todo, panel>>

(* A task opens the panel and flushes the frame buffer, unless a refresh   *)
(* is under way: then epd_flush() returns.                                 *)
OpenAndFlush ==
  /\ todo = <<>>
  /\ panel' = HardwareReset(panel)
  /\ status' = "BUSY"
  /\ todo' = AllSent(OpenCmds \o (IF status = "IDLE" THEN FlushCmds(frame) ELSE <<>>))
  /\ UNCHANGED frame

(* The end of the time of a refresh. *)
EpdTimerEnds ==
  /\ todo = <<>>
  /\ status = "BUSY"
  /\ status' = "IDLE"
  /\ todo' = AllSent(SleepCmds)
  /\ UNCHANGED <<frame, panel>>

(* Power is lost, in the middle of a call or not, and comes back. *)
PowerLoss ==
  /\ frame' = ZeroFrame
  /\ status' = "IDLE"
  /\ todo' = AllSent(OpenCmds \o SleepCmds)
  /\ panel' = HardwareReset(Unpowered(panel))

Next == Delivers \/ EpdWrite \/ OpenAndFlush \/ EpdTimerEnds \/ PowerLoss

Spec == Init /\ [][Next]_bus

-----------------------------------------------------------------------------
(* When a call has sent all it has to, a busy panel shows the frame buffer *)
(* pixel by pixel, in its colours: the window, the counters that wrap by   *)
(* themselves between the planes, the bit order and the masks agree, and a *)
(* second epd_open() during the refresh disturbs nothing that was shown.   *)
PictureArrives == todo = <<>> /\ status = "BUSY" => Shows(panel.shown, frame)

(* ... and the panel of an idle driver is in deep sleep. *)
IdleSleeps == todo = <<>> /\ status = "IDLE" => ~panel.awake
=============================================================================
