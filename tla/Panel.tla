------------------------------- MODULE Panel -------------------------------
(***************************************************************************)
(* driver/ssd1680.c, what it says to the panel: the commands and the two   *)
(* planes of pixels that epd_open(), epd_flush() and epd_sleep() send, and *)
(* what the panel makes of them.  PanelBus has the calls of the driver,    *)
(* PanelLink the wires.                                                    *)
(*                                                                         *)
(* The panel (an SSD1680) is outside the code.  It has what the driver     *)
(* relies on: a RAM for each plane, larger than the picture, a window and  *)
(* two counters that step through it, and a reset, which undoes the window *)
(* and wakes it.  In deep sleep it loses its RAM.  How long a refresh      *)
(* takes is in EpdDriver.                                                  *)
(***************************************************************************)
EXTENDS Integers, Sequences

CONSTANTS
  RamWidth,                 \* EPD_RAM_WIDTH, in bytes of a plane
  Height,                   \* EPD_HEIGHT
  PanelWidth, PanelHeight,  \* of the panel's RAM
  ChunkSize,                \* 32: bytes between two waits for the SSP
  Frames                    \* the contents of frameBuffer

EpdPartRamSize == RamWidth * Height
EpdRamSize == 2 * EpdPartRamSize
Byte == 0..255

ASSUME SizeAssumption ==
  /\ RamWidth \in Nat \ {0} /\ Height \in Nat \ {0} /\ ChunkSize \in Nat \ {0}
  /\ EpdPartRamSize % ChunkSize = 0
  /\ RamWidth <= PanelWidth /\ Height <= PanelHeight
  /\ PanelWidth \in 1..256 /\ PanelHeight \in 1..256
  /\ Frames \subseteq [0..(EpdRamSize - 1) -> Byte]

SW_RESET == 18
DRIVER_OUTPUT_CTRL == 1
DEEP_SLP_MODE == 16
DATA_ENTRY_MODE == 17
SET_RAM_X_ADDR == 68
SET_RAM_Y_ADDR == 69
BORDER_WAVEFORM_CTRL == 60
TEMP_SENSOR_CTRL == 24
DISP_UPDATE_CTRL == 33
SET_RAM_X_COUNTER == 78
SET_RAM_Y_COUNTER == 79
WRITE_RAM_BW == 36
WRITE_RAM_RED == 38
DISPLAY_UPDATE_CTRL2 == 34
MASTER_ACTIVATION == 32

ZeroFrame == [i \in 0..(EpdRamSize - 1) |-> 0]

(***************************************************************************)
(* The planes.  frameBuffer has four pixels a byte, the first in the low   *)
(* bits; a plane has eight, the first in the high bit.                     *)
(***************************************************************************)
COLOR_MASK_BW == 1
COLOR_MASK_RED == 2

Pixel(frame, p) == (frame[p \div 4] \div 4^(p % 4)) % 4

MaskedBit(pixel, mask) == IF mask = COLOR_MASK_BW THEN pixel % 2 ELSE pixel \div 2

(* Mutant of BitScale: the first pixel goes to the low bit. *)
BugBitScale(frame, index, mask) ==
  LET bit(k) == MaskedBit(Pixel(frame, 8 * index + k), mask) * 2^k
  IN  bit(0) + bit(1) + bit(2) + bit(3) + bit(4) + bit(5) + bit(6) + bit(7)

BitScale(frame, index, mask) ==
  LET bit(k) == MaskedBit(Pixel(frame, 8 * index + k), mask) * 2^(7 - k)
  IN  bit(0) + bit(1) + bit(2) + bit(3) + bit(4) + bit(5) + bit(6) + bit(7)

DisplayRam(frame, mask) ==
  [i \in 1..EpdPartRamSize |-> BitScale(frame, i - 1, mask)]

(***************************************************************************)
(* The calls, as commands with their data.                                 *)
(***************************************************************************)
Cmd(c, data) == [cmd |-> c, data |-> data, plane |-> FALSE]
Plane(c, data) == [cmd |-> c, data |-> data, plane |-> TRUE]

(* epd_open().  The last byte of the Y window is the letter 'x', for want  *)
(* of a backslash; the panel looks at its lowest bit only.                 *)
OpenCmds ==
  <<Cmd(SW_RESET, <<>>),
    Cmd(DRIVER_OUTPUT_CTRL, <<Height - 1, 0, 0>>),
    Cmd(DATA_ENTRY_MODE, <<3>>),
    Cmd(SET_RAM_X_ADDR, <<0, RamWidth - 1>>),
    Cmd(SET_RAM_Y_ADDR, <<0, 0, Height - 1, 120>>),
    Cmd(BORDER_WAVEFORM_CTRL, <<5>>),
    Cmd(TEMP_SENSOR_CTRL, <<128>>),
    Cmd(DISP_UPDATE_CTRL, <<0, 128>>),
    Cmd(SET_RAM_X_COUNTER, <<0>>),
    Cmd(SET_RAM_Y_COUNTER, <<0, 0>>)>>

(* epd_flush().  Between the planes nothing sets the counters back: they   *)
(* have to be at the start of the window again by themselves.              *)
FlushCmds(frame) ==
  <<Plane(WRITE_RAM_BW, DisplayRam(frame, COLOR_MASK_BW)),
    Plane(WRITE_RAM_RED, DisplayRam(frame, COLOR_MASK_RED)),
    Cmd(DISPLAY_UPDATE_CTRL2, <<247>>),
    Cmd(MASTER_ACTIVATION, <<>>)>>

SleepCmds == <<Cmd(DEEP_SLP_MODE, <<3>>)>>

(***************************************************************************)
(* The panel.                                                              *)
(***************************************************************************)
Lost == 256   \* no byte: RAM after a deep sleep

Cell == (0..(PanelWidth - 1)) \X (0..(PanelHeight - 1))
NoRam == [c \in Cell |-> Lost]

Registers ==
  [cmd |-> 0, args |-> 0, x |-> 0, y |-> 0,
   xs |-> 0, xe |-> PanelWidth - 1, ys |-> 0, ye |-> PanelHeight - 1]

PoweredOff == [awake |-> FALSE, reg |-> Registers, bw |-> NoRam, red |-> NoRam,
            shown |-> <<NoRam, NoRam>>]

(* Without power only the picture stays. *)
Unpowered(p) == [PoweredOff EXCEPT !.shown = p.shown]

HardwareReset(p) == [p EXCEPT !.awake = TRUE, !.reg = Registers]

(* The counters step along a row of the window, then down its rows, and    *)
(* from its end to its start.                                              *)
Stepped(r) ==
  CASE r.x # r.xe -> [r EXCEPT !.x = (@ + 1) % PanelWidth]
    [] r.x = r.xe /\ r.y # r.ye -> [r EXCEPT !.x = r.xs, !.y = (@ + 1) % PanelHeight]
    [] OTHER -> [r EXCEPT !.x = r.xs, !.y = r.ys]

TakesCommand(p, b) ==
  LET reg == [p.reg EXCEPT !.cmd = b, !.args = 0]
  IN  CASE b = SW_RESET -> [p EXCEPT !.reg = [Registers EXCEPT !.cmd = b]]
        [] b = MASTER_ACTIVATION -> [p EXCEPT !.reg = reg, !.shown = <<p.bw, p.red>>]
        [] OTHER -> [p EXCEPT !.reg = reg]

(* Of an address of two bytes, nine bits count. *)
High(old, b) == (old % 256) + 256 * (b % 2)

TakesData(p, b) ==
  LET n == p.reg.args
      reg == [p.reg EXCEPT !.args = @ + 1]
  IN  CASE p.reg.cmd = WRITE_RAM_BW ->
             [p EXCEPT !.reg = Stepped(p.reg), !.bw[<<p.reg.x, p.reg.y>>] = b]
        [] p.reg.cmd = WRITE_RAM_RED ->
             [p EXCEPT !.reg = Stepped(p.reg), !.red[<<p.reg.x, p.reg.y>>] = b]
        [] p.reg.cmd = SET_RAM_X_ADDR ->
             [p EXCEPT !.reg = IF n = 0 THEN [reg EXCEPT !.xs = b] ELSE [reg EXCEPT !.xe = b]]
        [] p.reg.cmd = SET_RAM_Y_ADDR ->
             [p EXCEPT !.reg = CASE n = 0 -> [reg EXCEPT !.ys = b]
                                 [] n = 1 -> [reg EXCEPT !.ys = High(@, b)]
                                 [] n = 2 -> [reg EXCEPT !.ye = b]
                                 [] OTHER -> [reg EXCEPT !.ye = High(@, b)]]
        [] p.reg.cmd = SET_RAM_X_COUNTER -> [p EXCEPT !.reg = [reg EXCEPT !.x = b]]
        [] p.reg.cmd = SET_RAM_Y_COUNTER ->
             [p EXCEPT !.reg = IF n = 0 THEN [reg EXCEPT !.y = b]
                                        ELSE [reg EXCEPT !.y = High(@, b)]]
        [] p.reg.cmd = DEEP_SLP_MODE ->
             IF b = 0 THEN p ELSE [p EXCEPT !.awake = FALSE, !.bw = NoRam, !.red = NoRam]
        [] OTHER -> [p EXCEPT !.reg = reg]

(* A byte that arrives while the D/C wire says dc; nothing in deep sleep. *)
PanelTakes(p, dc, b) ==
  CASE ~p.awake -> p
    [] p.awake /\ dc = 0 -> TakesCommand(p, b)
    [] OTHER -> TakesData(p, b)

(***************************************************************************)
(* The colour pixel p has on the panel: "For Red pixel: Content of Write   *)
(* RAM(RED) = 1", "For Black pixel: Content of Write RAM(BW) = 0".         *)
(***************************************************************************)
ShownColor(shown, p) ==
  LET cell == <<(p \div 8) % RamWidth, (p \div 8) \div RamWidth>>
      bit(b) == (b \div 2^(7 - (p % 8))) % 2
  IN  CASE bit(shown[2][cell]) = 1 -> "COLOR_RED"
        [] bit(shown[2][cell]) = 0 /\ bit(shown[1][cell]) = 0 -> "COLOR_BLACK"
        [] OTHER -> "COLOR_WHITE"

(* The colours of ssd1680.h; two has none. *)
Color(pixel) ==
  CASE pixel = 0 -> "COLOR_BLACK"
    [] pixel = 1 -> "COLOR_WHITE"
    [] pixel = 3 -> "COLOR_RED"

(* What is shown is the frame buffer, pixel by pixel in its colours. *)
Shows(shown, f) ==
  \A p \in 0..(4 * EpdRamSize - 1) :
    Pixel(f, p) # 2 => ShownColor(shown, p) = Color(Pixel(f, p))
=============================================================================
