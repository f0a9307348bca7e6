----------------------------- MODULE PanelLink -----------------------------
(***************************************************************************)
(* The wires between driver and panel, in both builds of the firmware:     *)
(* with softspi.c (USE_SOFT_SPI), where the processor moves each wire, and *)
(* with the SSP of the chip, which shifts out what is in its FIFO while    *)
(* the processor goes on.  In both the driver moves the D/C wire itself,   *)
(* and the panel looks at it when a byte is complete.                      *)
(*                                                                         *)
(* A call is a program of steps of the processor.  The SSP is outside the  *)
(* code: it takes bytes while it is disabled too, shifts while it is       *)
(* enabled, and shifts a byte whole.                                       *)
(***************************************************************************)
EXTENDS Panel, SequencesExt

CONSTANT Builds   \* the values of USE_SOFT_SPI

ASSUME BuildsAssumption == Builds \subseteq BOOLEAN

VARIABLES
  frame, status, panel,   \* as in PanelBus
  soft,   \* USE_SOFT_SPI
  prog,   \* the steps of the call under way
  wires,  \* D/C, CS, SCLK and MOSI
  count,  \* the bits of the present byte that were shifted out
  low,    \* is the present bit on MOSI, SCLK low
  latch,  \* the bits the panel has of a byte
  on,     \* is the SSP enabled
  fifo    \* its FIFO; dc is what a byte is meant to be

link == <<soft, prog, wires, count, low, latch, on, fifo>>
vars == <<frame, status, panel, link>>

(***************************************************************************)
(* The steps of a command.                                                 *)
(***************************************************************************)
Dc(v) == <<"dc", v>>
Cs(v) == <<"cs", v>>
Enable == <<"enable">>
Wait == <<"wait">>
Disable == <<"disable">>

Put(dc, bytes) == [i \in 1..Len(bytes) |-> <<"put", [dc |-> dc, byte |-> bytes[i]]>>]
Shift(dc, bytes) == [i \in 1..Len(bytes) |-> <<"shift", [dc |-> dc, byte |-> bytes[i]]>>]

(* softspi_write() *)
SoftspiWrite(dc, bytes, take, release) ==
  (IF take THEN <<Cs(0)>> ELSE <<>>) \o Shift(dc, bytes) \o (IF release THEN <<Cs(1)>> ELSE <<>>)

(* Mutant of SoftCmd: CS is released between a command and its data. *)
BugSoftCmd(t) ==
  <<Dc(0)>> \o SoftspiWrite(0, <<t.cmd>>, TRUE, TRUE)
  \o <<Dc(1)>> \o SoftspiWrite(1, t.data, FALSE, TRUE)

(* epd_write_cmd() with softspi.c *)
SoftCmd(t) ==
  <<Dc(0)>> \o SoftspiWrite(0, <<t.cmd>>, TRUE, FALSE)
  \o (IF t.data # <<>> THEN <<Dc(1)>> \o SoftspiWrite(1, t.data, FALSE, TRUE)
      ELSE SoftspiWrite(0, <<>>, FALSE, TRUE))

(* Mutant of SspCmd: D/C is raised while the command is shifted out. *)
BugSspCmd(t) ==
  <<Dc(0)>> \o Put(0, <<t.cmd>>) \o <<Enable>>
  \o (IF t.data # <<>> THEN <<Dc(1)>> \o Put(1, t.data) \o <<Wait, Disable>> ELSE <<>>)

(* epd_write_cmd() with the SSP, which stays enabled after a command       *)
(* without data                                                            *)
SspCmd(t) ==
  <<Dc(0)>> \o Put(0, <<t.cmd>>) \o <<Enable, Wait>>
  \o (IF t.data # <<>> THEN <<Dc(1)>> \o Put(1, t.data) \o <<Wait, Disable>> ELSE <<>>)

(* epd_flush(): the two planes, CS held over both of them, ... *)
SoftPlanes(bw, red) ==
  <<Dc(0)>> \o SoftspiWrite(0, <<bw.cmd>>, TRUE, FALSE)
  \o <<Dc(1)>> \o SoftspiWrite(1, bw.data, FALSE, FALSE)
  \o <<Dc(0)>> \o SoftspiWrite(0, <<red.cmd>>, FALSE, FALSE)
  \o <<Dc(1)>> \o SoftspiWrite(1, red.data, FALSE, TRUE)

(* ... or in chunks, each of which has to be out before the next. *)
SspPlane(t) ==
  <<Dc(0)>> \o Put(0, <<t.cmd>>) \o <<Enable, Wait, Dc(1)>>
  \o FlattenSeq([i \in 1..(EpdPartRamSize \div ChunkSize) |->
       Put(1, SubSeq(t.data, (i - 1) * ChunkSize + 1, i * ChunkSize)) \o <<Wait>>])
  \o <<Disable>>

Commands(ts) ==
  FlattenSeq([i \in 1..Len(ts) |-> IF soft THEN SoftCmd(ts[i]) ELSE SspCmd(ts[i])])

Planes(bw, red) == IF soft THEN SoftPlanes(bw, red) ELSE SspPlane(bw) \o SspPlane(red)

Flush(f) ==
  LET ts == FlushCmds(f)
  IN  Planes(ts[1], ts[2]) \o Commands(SubSeq(ts, 3, Len(ts)))

-----------------------------------------------------------------------------
(* epd_init(): D/C is high, and with softspi.c so is CS, and MOSI and SCLK *)
(* are low.                                                                *)
WiresInit(w) ==
  IF soft THEN [dc |-> 1, cs |-> 1, sclk |-> 0, mosi |-> 0] ELSE [w EXCEPT !.dc = 1]

Init ==
  /\ soft \in Builds
  /\ frame = ZeroFrame
  /\ status = "IDLE"
  /\ panel = HardwareReset(PoweredOff)
  /\ wires = [dc |-> 1, cs |-> 1, sclk |-> 0, mosi |-> 0]
  /\ prog = Commands(OpenCmds \o SleepCmds)
  /\ count = 0
  /\ low = FALSE
  /\ latch = <<>>
  /\ on = FALSE
  /\ fifo = <<>>

Head1 == IF prog = <<>> THEN "none" ELSE prog[1][1]

SetDc ==
  /\ Head1 = "dc"
  /\ wires' = [wires EXCEPT !.dc = prog[1][2]]
  /\ prog' = Tail(prog)
  /\ UNCHANGED <<frame, status, panel, soft, count, low, latch, on, fifo>>

(* A byte that is not complete is forgotten with CS high. *)
SetCs ==
  /\ Head1 = "cs"
  /\ wires' = [wires EXCEPT !.cs = prog[1][2]]
  /\ latch' = IF prog[1][2] = 1 THEN <<>> ELSE latch
  /\ prog' = Tail(prog)
  /\ UNCHANGED <<frame, status, panel, soft, count, low, on, fifo>>

(* softspi_write(): SCLK falls and MOSI has the next bit, the highest      *)
(* first, ...                                                              *)
LowerSclk ==
  /\ Head1 = "shift"
  /\ ~low
  /\ wires' = [wires EXCEPT !.sclk = 0, !.mosi = (prog[1][2].byte \div 2^(7 - count)) % 2]
  /\ low' = TRUE
  /\ UNCHANGED <<frame, status, panel, soft, prog, count, latch, on, fifo>>

Value(bits) ==
  128 * bits[1] + 64 * bits[2] + 32 * bits[3] + 16 * bits[4]
  + 8 * bits[5] + 4 * bits[6] + 2 * bits[7] + bits[8]

(* ... SCLK rises, and a panel that is selected takes the bit. *)
RaiseSclk ==
  /\ Head1 = "shift"
  /\ low
  /\ wires' = [wires EXCEPT !.sclk = 1]
  /\ low' = FALSE
  /\ LET bits == IF wires.cs = 0 THEN Append(latch, wires.mosi) ELSE <<>>
     IN  /\ latch' = IF Len(bits) = 8 THEN <<>> ELSE bits
         /\ panel' = IF Len(bits) = 8 THEN PanelTakes(panel, wires.dc, Value(bits)) ELSE panel
  /\ count' = (count + 1) % 8
  /\ prog' = IF count = 7 THEN Tail(prog) ELSE prog
  /\ UNCHANGED <<frame, status, soft, on, fifo>>

PutByte ==
  /\ Head1 = "put"
  /\ fifo' = Append(fifo, prog[1][2])
  /\ prog' = Tail(prog)
  /\ UNCHANGED <<frame, status, panel, soft, wires, count, low, latch, on>>

(* Mutant of SetEnable: the SSP is not enabled. *)
BugSetEnable ==
  /\ Head1 \in {"enable", "disable"}
  /\ on' = FALSE
  /\ prog' = Tail(prog)
  /\ UNCHANGED <<frame, status, panel, soft, wires, count, low, latch, fifo>>

SetEnable ==
  /\ Head1 \in {"enable", "disable"}
  /\ on' = (Head1 = "enable")
  /\ prog' = Tail(prog)
  /\ UNCHANGED <<frame, status, panel, soft, wires, count, low, latch, fifo>>

WaitBusyBit ==
  /\ Head1 = "wait"
  /\ fifo = <<>>
  /\ prog' = Tail(prog)
  /\ UNCHANGED <<frame, status, panel, soft, wires, count, low, latch, on, fifo>>

Processor == SetDc \/ SetCs \/ LowerSclk \/ RaiseSclk \/ PutByte \/ SetEnable \/ WaitBusyBit

SspShifts ==
  /\ on
  /\ fifo # <<>>
  /\ panel' = PanelTakes(panel, wires.dc, Head(fifo).byte)
  /\ fifo' = Tail(fifo)
  /\ UNCHANGED <<frame, status, soft, prog, wires, count, low, latch, on>>

EpdWrite ==
  /\ prog = <<>>
  /\ status = "IDLE"
  /\ frame' \in Frames
  /\ UNCHANGED <<status, panel, link>>

(* epd_init(), epd_open() and epd_flush() in a task *)
OpenAndFlush ==
  /\ prog = <<>>
  /\ wires' = WiresInit(wires)
  /\ IF soft THEN latch' = <<>> /\ UNCHANGED <<on, fifo>>
             ELSE on' = FALSE /\ fifo' = <<>> /\ UNCHANGED latch
  /\ panel' = HardwareReset(panel)
  /\ status' = "BUSY"
  /\ prog' = Commands(OpenCmds) \o (IF status = "IDLE" THEN Flush(frame) ELSE <<>>)
  /\ UNCHANGED <<frame, soft, count, low>>

(* epd_timer_callback() sets up the SSP again before epd_sleep(). *)
EpdTimerEnds ==
  /\ prog = <<>>
  /\ status = "BUSY"
  /\ status' = "IDLE"
  /\ IF soft THEN UNCHANGED <<on, fifo>> ELSE on' = FALSE /\ fifo' = <<>>
  /\ prog' = Commands(SleepCmds)
  /\ UNCHANGED <<frame, panel, soft, wires, count, low, latch>>

PowerLoss ==
  /\ frame' = ZeroFrame
  /\ status' = "IDLE"
  /\ panel' = HardwareReset(Unpowered(panel))
  /\ wires' = [dc |-> 1, cs |-> 1, sclk |-> 0, mosi |-> 0]
  /\ prog' = Commands(OpenCmds \o SleepCmds)
  /\ count' = 0
  /\ low' = FALSE
  /\ latch' = <<>>
  /\ on' = FALSE
  /\ fifo' = <<>>
  /\ UNCHANGED soft

Next == Processor \/ SspShifts \/ EpdWrite \/ OpenAndFlush \/ EpdTimerEnds \/ PowerLoss

(* The processor and the SSP go on. *)
Spec == Init /\ [][Next]_vars /\ WF_vars(Processor) /\ WF_vars(SspShifts)

-----------------------------------------------------------------------------
(* What is put between two waits: a chunk, or the data of a command. *)
FifoBound == IF ChunkSize < 4 THEN 4 ELSE ChunkSize

(* Type invariant. *)
TypeOK ==
  /\ frame \in Frames \cup {ZeroFrame}
  /\ status \in {"IDLE", "BUSY"}
  /\ wires \in [dc : {0, 1}, cs : {0, 1}, sclk : {0, 1}, mosi : {0, 1}]
  /\ count \in 0..7
  /\ Len(latch) = count
  /\ Len(fifo) <= FifoBound
  /\ soft => fifo = <<>> /\ ~on
  /\ ~soft => latch = <<>> /\ ~low

(* The bytes that are still to come, as what they are meant to be. *)
Remaining ==
  fifo \o FlattenSeq([i \in 1..Len(prog) |->
            IF prog[i][1] \in {"put", "shift"} THEN <<prog[i][2]>> ELSE <<>>])

(* Both builds deliver every byte once, in order, commands as commands and *)
(* data as data: they implement the byte-wise bus.                         *)
Bus == INSTANCE PanelBus WITH todo <- Remaining

ImplementsPanelBus == Bus!Spec

(* What is stated of the bus. *)
PictureArrives == Bus!PictureArrives
IdleSleeps == Bus!IdleSleeps

(* No call hangs: whatever the processor waits for comes, if the power     *)
(* stays long enough.                                                      *)
CallsEnd == []<>(prog = <<>>) \/ []<><<PowerLoss>>_vars
=============================================================================
