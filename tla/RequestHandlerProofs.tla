------------------------ MODULE RequestHandlerProofs ------------------------
(***************************************************************************)
(* What requests, tasks, the timer and losses of power can do to the panel *)
(* leaves it asleep whenever the driver is idle, and awake for as long as  *)
(* it refreshes, for all pictures, requests, tasks and waiting times; what *)
(* EPD_UPDATE_OK announces has been shown; and the records change by       *)
(* requests about them, by erasures, and by the strike of a mark_address   *)
(* that a refused write left behind, as long as the store is not lost.     *)
(***************************************************************************)
EXTENDS RequestHandler, FiniteSetTheorems, SequenceTheorems, TLAPS

(* A busy driver has its timer running: it is never busy for good. *)
BusyIsTimed == epd.status = "BUSY" => epd.armed

PInv == epd \in Epd /\ RefreshCovered /\ IdleIsAsleep /\ BusyIsTimed

LEMMA Ranges ==
  /\ OpenRests \subseteq 0..TimeoutMax
  /\ FlushTicks \in 0..TimeoutMax
  /\ 0 \in 0..TimeoutMax
  /\ 0 \in 0..RefreshTime /\ RefreshTime \in 0..RefreshTime
  /\ RefreshTime <= FlushTicks
BY TimeAssumption DEF OpenRests, TimeoutMax

-----------------------------------------------------------------------------
(* The operations of the driver *)

LEMMA AbortedType ==
  ASSUME NEW e \in Epd
  PROVE  AbortedPicture(e) \in Images \cup {Torn}
BY Zenon DEF Epd, AbortedPicture

LEMMA OpenedFacts ==
  ASSUME NEW e \in Epd, NEW rest \in OpenRests
  PROVE  LET o == EpdSetFlushDoneCallback(EpdOpen(EpdInit(e), rest)) IN
         /\ o \in Epd
         /\ o.status = e.status /\ o.armed = e.armed /\ o.mode = "ready"
<1>. DEFINE i == EpdInit(e)
            p == EpdOpen(i, rest)
            o == EpdSetFlushDoneCallback(p)
<1>1. i \in Epd /\ i.status = e.status /\ i.armed = e.armed
  BY Zenon DEF EpdInit, Epd
<1>. HIDE DEF i
<1>2. /\ AbortedPicture(i) \in Images \cup {Torn}
      /\ rest \in 0..TimeoutMax /\ 0 \in 0..RefreshTime
  BY <1>1, AbortedType, Ranges
<1>3. p \in Epd /\ p.status = i.status /\ p.armed = i.armed /\ p.mode = "ready"
  BY <1>1, <1>2, Zenon DEF EpdOpen, Epd
<1>. HIDE DEF p
<1>4. o \in Epd /\ o.status = p.status /\ o.armed = p.armed /\ o.mode = p.mode
  BY <1>3, Zenon DEF EpdSetFlushDoneCallback, Epd
<1>. HIDE DEF o
<1>5. o \in Epd /\ o.status = e.status /\ o.armed = e.armed /\ o.mode = "ready"
  BY <1>1, <1>3, <1>4
<1>. USE DEF i, p, o
<1>. QED BY <1>5

(* A panel put to sleep, with its pins given back *)
LEMMA ClosedFacts ==
  ASSUME NEW e \in Epd
  PROVE  LET c == EpdClose(EpdSleep(e)) IN
         /\ c \in Epd
         /\ c.status = e.status /\ c.armed = e.armed
         /\ c.mode = "sleep" /\ ~c.pins
<1>. DEFINE s == EpdSleep(e)
            c == EpdClose(s)
<1>1. AbortedPicture(e) \in Images \cup {Torn} /\ 0 \in 0..RefreshTime
  BY AbortedType, Ranges
<1>2. s \in Epd /\ s.status = e.status /\ s.armed = e.armed /\ s.mode = "sleep"
  BY <1>1, Zenon DEF EpdSleep, Epd
<1>. HIDE DEF s
<1>3. /\ c \in Epd
      /\ c.status = s.status /\ c.armed = s.armed /\ c.mode = s.mode
      /\ ~c.pins
  BY <1>2, Zenon DEF EpdClose, Epd
<1>. HIDE DEF c
<1>4. c \in Epd /\ c.status = e.status /\ c.armed = e.armed /\ c.mode = "sleep" /\ ~c.pins
  BY <1>2, <1>3
<1>. USE DEF s, c
<1>. QED BY <1>4

LEMMA BootFacts ==
  ASSUME NEW shown \in Images \cup {Torn}, NEW rest \in OpenRests
  PROVE  LET b == EpdBoot(shown, rest) IN
         b \in Epd /\ b.status = "IDLE" /\ b.mode = "sleep" /\ ~b.pins /\ ~b.armed
<1>. DEFINE z == PoweredUp(shown)
            i == EpdInit(z)
            p == EpdOpen(i, rest)
            b == EpdClose(EpdSleep(p))
<1>1. z \in Epd /\ z.status = "IDLE" /\ ~z.armed
  BY Ranges, PictureAssumption, Zenon DEF PoweredUp, Epd
<1>. HIDE DEF z
<1>2. i \in Epd /\ i.status = z.status /\ i.armed = z.armed
  BY <1>1, Zenon DEF EpdInit, Epd
<1>. HIDE DEF i
<1>3. /\ AbortedPicture(i) \in Images \cup {Torn}
      /\ rest \in 0..TimeoutMax /\ 0 \in 0..RefreshTime
  BY <1>2, AbortedType, Ranges
<1>4. p \in Epd /\ p.status = i.status /\ p.armed = i.armed
  BY <1>2, <1>3, Zenon DEF EpdOpen, Epd
<1>. HIDE DEF p
<1>5. /\ b \in Epd /\ b.status = p.status /\ b.armed = p.armed
      /\ b.mode = "sleep" /\ ~b.pins
  BY <1>4, ClosedFacts
<1>. HIDE DEF b
<1>6. b \in Epd /\ b.status = "IDLE" /\ b.mode = "sleep" /\ ~b.pins /\ ~b.armed
  BY <1>1, <1>2, <1>4, <1>5
<1>. USE DEF z, i, p, b
<1>. QED BY <1>6 DEF EpdBoot

LEMMA FlushFacts ==
  ASSUME NEW e \in Epd, e.status # "BUSY"
  PROVE  LET f == EpdFlush(e) IN
         /\ f \in Epd
         /\ f.status = "BUSY" /\ f.armed
         /\ f.left = RefreshTime /\ f.timeout = FlushTicks
<1>. DEFINE f == EpdFlush(e)
<1>1. f = [e EXCEPT !.status = "BUSY", !.ram = e.frame, !.mode = "refresh",
                    !.left = RefreshTime, !.timeout = FlushTicks, !.armed = TRUE]
  BY DEF EpdFlush
<1>2. e.frame \in Images
  BY Zenon DEF Epd
<1>3. FlushTicks \in 0..TimeoutMax /\ RefreshTime \in 0..RefreshTime
  BY Ranges
<1>. HIDE DEF f
<1>4. f \in Epd /\ f.status = "BUSY" /\ f.armed
  BY <1>1, <1>2, <1>3, Zenon DEF Epd
<1>5. f.left = RefreshTime /\ f.timeout = FlushTicks
  BY <1>1, Zenon DEF Epd
<1>. USE DEF f
<1>. QED BY <1>4, <1>5

(* A second of the panel's time *)
LEMMA SecondFacts ==
  ASSUME NEW e \in Epd
  PROVE  LET s == PanelSecond(e) IN
         /\ s \in Epd
         /\ s.status = e.status /\ s.armed = e.armed /\ s.timeout = e.timeout
         /\ s.mode = "refresh" => e.mode = "refresh" /\ s.left + 1 = e.left
<1>. DEFINE s == PanelSecond(e)
<1>1. CASE e.mode # "refresh"
  BY <1>1 DEF PanelSecond
<1>2. CASE e.mode = "refresh" /\ e.left > 1
  <2>1. s = [e EXCEPT !.left = e.left - 1]
    BY <1>2 DEF PanelSecond
  <2>2. e.left \in 0..RefreshTime
    BY Zenon DEF Epd
  <2>3. e.left - 1 \in 0..RefreshTime /\ (e.left - 1) + 1 = e.left
    BY <1>2, <2>2, TimeAssumption
  <2>. HIDE DEF s
  <2>4. /\ s \in Epd
        /\ s.status = e.status /\ s.armed = e.armed /\ s.timeout = e.timeout
        /\ s.left = e.left - 1
    BY <2>1, <2>3, Zenon DEF Epd
  <2>. USE DEF s
  <2>. QED BY <1>2, <2>3, <2>4
<1>3. CASE e.mode = "refresh" /\ ~(e.left > 1)
  <2>1. s = [e EXCEPT !.left = 0, !.mode = "ready", !.shown = e.ram]
    BY <1>3 DEF PanelSecond
  <2>2. e.ram \in Images \cup {Torn} /\ 0 \in 0..RefreshTime
    BY Ranges, Zenon DEF Epd
  <2>. HIDE DEF s
  <2>3. /\ s \in Epd
        /\ s.status = e.status /\ s.armed = e.armed /\ s.timeout = e.timeout
        /\ s.mode = "ready"
    BY <2>1, <2>2, Zenon DEF Epd
  <2>. USE DEF s
  <2>. QED BY <2>3
<1>. QED BY <1>1, <1>2, <1>3

-----------------------------------------------------------------------------
(* The steps *)

LEMMA PInit == Init => PInv
<1>. SUFFICES ASSUME Init PROVE PInv
  OBVIOUS
<1>1. PICK img \in Images, rest \in OpenRests : epd = EpdBoot(img, rest)
  BY DEF Init
<1>2. epd \in Epd /\ epd.status = "IDLE" /\ epd.mode = "sleep" /\ ~epd.pins /\ ~epd.armed
  BY <1>1, BootFacts
<1>. QED BY <1>2 DEF PInv, RefreshCovered, IdleIsAsleep, BusyIsTimed

(* The task of a flush finds the driver idle or busy. *)
LEMMA FlushStep == PInv /\ FlushDisplay => PInv'
<1>. SUFFICES ASSUME PInv, FlushDisplay PROVE PInv'
  OBVIOUS
<1>1. PICK rest \in OpenRests :
        epd' = EpdFlush(EpdSetFlushDoneCallback(EpdOpen(EpdInit(epd), rest)))
  BY DEF FlushDisplay
<1>. DEFINE o == EpdSetFlushDoneCallback(EpdOpen(EpdInit(epd), rest))
<1>2. /\ o \in Epd
      /\ o.status = epd.status /\ o.armed = epd.armed /\ o.mode = "ready"
  BY OpenedFacts DEF PInv
<1>3. epd' = EpdFlush(o)
  BY <1>1
<1>. HIDE DEF o
<1>4. CASE epd.status = "BUSY"
  <2>1. epd' = o
    BY <1>2, <1>3, <1>4 DEF EpdFlush
  <2>. QED BY <1>2, <1>4, <2>1
           DEF PInv, RefreshCovered, IdleIsAsleep, BusyIsTimed, EpdIsIdle
<1>5. CASE epd.status # "BUSY"
  <2>1. /\ epd' \in Epd
        /\ epd'.status = "BUSY" /\ epd'.armed
        /\ epd'.left = RefreshTime /\ epd'.timeout = FlushTicks
    BY <1>2, <1>3, <1>5, FlushFacts
  <2>2. epd'.left <= epd'.timeout
    BY <2>1, Ranges
  <2>. QED BY <2>1, <2>2 DEF PInv, RefreshCovered, IdleIsAsleep, BusyIsTimed, EpdIsIdle
<1>. QED BY <1>4, <1>5

LEMMA CountStep == PInv /\ EpdCounts => PInv'
<1>. SUFFICES ASSUME PInv, EpdCounts PROVE PInv'
  OBVIOUS
<1>. DEFINE s == PanelSecond(epd)
<1>1. s.timeout > 0 /\ epd' = TimerCounts(s) /\ epd.armed
  BY DEF EpdCounts
<1>2. /\ s \in Epd
      /\ s.status = epd.status /\ s.armed = epd.armed /\ s.timeout = epd.timeout
      /\ s.mode = "refresh" => epd.mode = "refresh" /\ s.left + 1 = epd.left
  BY SecondFacts DEF PInv
<1>. HIDE DEF s
<1>3. s.timeout \in 0..TimeoutMax /\ s.left \in 0..RefreshTime
  BY <1>2, Zenon DEF Epd
<1>4. s.timeout - 1 \in 0..TimeoutMax
  BY <1>1, <1>3, TimeAssumption DEF TimeoutMax
<1>5. epd' = [s EXCEPT !.timeout = s.timeout - 1]
  BY <1>1 DEF TimerCounts
<1>6. /\ epd' \in Epd
      /\ epd'.status = s.status /\ epd'.armed = s.armed /\ epd'.mode = s.mode
      /\ epd'.left = s.left /\ epd'.timeout = s.timeout - 1
  BY <1>2, <1>4, <1>5, Zenon DEF Epd
<1>7. epd.status = "BUSY"
  <2>1. epd.status \in {"IDLE", "BUSY"}
    BY Zenon DEF PInv, Epd
  <2>. QED BY <1>1, <2>1 DEF PInv, IdleIsAsleep, EpdIsIdle
<1>8. ASSUME epd'.mode = "refresh" PROVE epd'.left <= epd'.timeout
  <2>1. epd.mode = "refresh" /\ s.left + 1 = epd.left /\ epd.timeout = s.timeout
    BY <1>2, <1>6, <1>8
  <2>2. epd.left <= epd.timeout
    BY <2>1 DEF PInv, RefreshCovered
  <2>. QED BY <1>3, <1>6, <2>1, <2>2, TimeAssumption DEF TimeoutMax
<1>9. epd'.armed /\ epd'.status = "BUSY"
  BY <1>1, <1>2, <1>6, <1>7
<1>. QED BY <1>6, <1>8, <1>9 DEF PInv, RefreshCovered, IdleIsAsleep, BusyIsTimed, EpdIsIdle

LEMMA EndStep == PInv /\ EpdEnds => PInv'
<1>. SUFFICES ASSUME PInv, EpdEnds PROVE PInv'
  OBVIOUS
<1>. DEFINE s == PanelSecond(epd)
            d == [s EXCEPT !.armed = FALSE, !.status = "IDLE", !.timeout = 0]
<1>1. epd' = EpdClose(EpdSleep(d))
  BY DEF EpdEnds, TimerEnds
<1>2. s \in Epd
  BY SecondFacts DEF PInv
<1>. HIDE DEF s
<1>3. d \in Epd /\ d.status = "IDLE" /\ ~d.armed
  BY <1>2, Ranges, Zenon DEF Epd
<1>. HIDE DEF d
<1>4. /\ epd' \in Epd
      /\ epd'.status = "IDLE" /\ ~epd'.armed /\ epd'.mode = "sleep" /\ ~epd'.pins
  BY <1>1, <1>3, ClosedFacts
<1>. QED BY <1>4 DEF PInv, RefreshCovered, IdleIsAsleep, BusyIsTimed

LEMMA RebootStep == PInv /\ Reboot => PInv'
<1>. SUFFICES ASSUME PInv, Reboot PROVE PInv'
  OBVIOUS
<1>1. PICK rest \in OpenRests : epd' = EpdBoot(AbortedPicture(epd), rest)
  BY DEF Reboot
<1>2. AbortedPicture(epd) \in Images \cup {Torn}
  BY AbortedType DEF PInv
<1>3. /\ epd' \in Epd
      /\ epd'.status = "IDLE" /\ epd'.mode = "sleep" /\ ~epd'.pins /\ ~epd'.armed
  BY <1>1, <1>2, BootFacts
<1>. QED BY <1>3 DEF PInv, RefreshCovered, IdleIsAsleep, BusyIsTimed

(* A write to the frame buffer changes the buffer only. *)
LEMMA WriteStep ==
  ASSUME PInv, NEW img \in Images, epd' = [epd EXCEPT !.frame = img]
  PROVE  PInv'
<1>1. /\ epd' \in Epd
      /\ epd'.status = epd.status /\ epd'.armed = epd.armed /\ epd'.mode = epd.mode
      /\ epd'.pins = epd.pins /\ epd'.left = epd.left /\ epd'.timeout = epd.timeout
  BY Zenon DEF PInv, Epd
<1>. QED BY <1>1 DEF PInv, RefreshCovered, IdleIsAsleep, BusyIsTimed, EpdIsIdle

-----------------------------------------------------------------------------
(* The messages *)

(* Every message is about a request that has arrived. *)
QInv ==
  /\ asked \in Seq(Requests)
  /\ queue \in Seq([to : TaskIds \cup {"profile"}, n : 1..Len(asked)])

LEMMA TailStep ==
  ASSUME QInv, queue # <<>>, queue' = Tail(queue), asked' = asked
  PROVE  QInv'
BY DEF QInv

LEMMA RequestArrived ==
  ASSUME QInv, queue # <<>>
  PROVE  Msg.n \in 1..Len(asked) /\ Req \in Requests
<1>. DEFINE M == [to : TaskIds \cup {"profile"}, n : 1..Len(asked)]
<1>1. queue \in Seq(M)
  BY DEF QInv
<1>. HIDE DEF M
<1>2. Head(queue) \in M
  BY <1>1
<1>3. Head(queue).n \in 1..Len(asked)
  BY <1>2 DEF M
<1>. QED BY <1>3 DEF QInv, Msg, Req

LEMMA ArrivesStep ==
  ASSUME QInv, NEW r \in Requests, Arrives(r)
  PROVE  QInv'
<1>. DEFINE M(k) == [to : TaskIds \cup {"profile"}, n : 1..k]
            k == Len(asked)
            m == [to |-> "profile", n |-> k + 1]
<1>1. asked' \in Seq(Requests) /\ Len(asked') = k + 1 /\ k \in Nat
  BY DEF QInv, Arrives
<1>2. queue \in Seq(M(k)) /\ queue' = Append(queue, m)
  BY DEF QInv, Arrives
<1>3. M(k) \subseteq M(k + 1) /\ m \in M(k + 1)
  BY <1>1
<1>. HIDE DEF M, m
<1>4. queue' \in Seq(M(k + 1))
  BY <1>2, <1>3
<1>. QED BY <1>1, <1>4 DEF QInv, M

LEMMA PostStep ==
  ASSUME QInv, queue # <<>>, NEW id \in TaskIds,
         queue' = Append(Tail(queue), [to |-> id, n |-> Msg.n]), asked' = asked
  PROVE  QInv'
<1>. DEFINE M == [to : TaskIds \cup {"profile"}, n : 1..Len(asked)]
            m == [to |-> id, n |-> Msg.n]
<1>1. m \in M
  BY RequestArrived
<1>2. queue \in Seq(M)
  BY DEF QInv
<1>. HIDE DEF M, m
<1>3. Append(Tail(queue), m) \in Seq(M)
  BY <1>1, <1>2
<1>. QED BY <1>3 DEF QInv, M, m

LEMMA StartsStep ==
  ASSUME QInv, queue # <<>>, asked' = asked, NEW said, NEW err, StartsTask(said, err)
  PROVE  QInv'
<1>1. CASE queue' = Tail(queue)
  BY <1>1, TailStep
<1>2. CASE \E id \in TaskIds : queue' = Append(Tail(queue), [to |-> id, n |-> Msg.n])
  BY <1>2, PostStep
<1>. QED BY <1>1, <1>2 DEF StartsTask, Replies

LEMMA EndsStep ==
  ASSUME QInv, queue # <<>>, asked' = asked, NEW code, Ends(code)
  PROVE  QInv'
BY TailStep DEF Ends

LEMMA RepliesStep ==
  ASSUME QInv, queue # <<>>, asked' = asked, NEW codes, Replies(codes)
  PROVE  QInv'
BY TailStep DEF Replies

LEMMA DispatchStep == QInv /\ Dispatch => QInv'
<1>. SUFFICES ASSUME QInv, Dispatch PROVE QInv'
  OBVIOUS
<1>1. queue # <<>> /\ asked' = asked
  BY DEF Dispatch, Handles, UnknownOpcode, WriteDisplayRam, FlushScreen, ReadDisplayRam,
         ReadHardwareInfo, EraseFlashSector, WriteConfig, ReadConfig, DeleteConfig
<1>2. CASE UnknownOpcode
  BY <1>1, <1>2, RepliesStep DEF UnknownOpcode
<1>3. CASE WriteDisplayRam
  BY <1>1, <1>3, RepliesStep DEF WriteDisplayRam, Reply
<1>4. CASE FlushScreen
  BY <1>1, <1>4, RepliesStep, StartsStep DEF FlushScreen, Reply
<1>5. CASE ReadDisplayRam
  BY <1>1, <1>5, RepliesStep DEF ReadDisplayRam, Reply
<1>6. CASE ReadHardwareInfo
  BY <1>1, <1>6, RepliesStep DEF ReadHardwareInfo, Reply
<1>7. CASE EraseFlashSector
  BY <1>1, <1>7, RepliesStep, StartsStep DEF EraseFlashSector, Reply
<1>8. CASE WriteConfig
  BY <1>1, <1>8, StartsStep DEF WriteConfig
<1>9. CASE ReadConfig
  BY <1>1, <1>9, RepliesStep, StartsStep DEF ReadConfig, Reply
<1>10. CASE DeleteConfig
  BY <1>1, <1>10, StartsStep DEF DeleteConfig
<1>. QED BY <1>2, <1>3, <1>4, <1>5, <1>6, <1>7, <1>8, <1>9, <1>10 DEF Dispatch

LEMMA TaskStep == QInv /\ AsyncTask => QInv'
<1>. SUFFICES ASSUME QInv, AsyncTask PROVE QInv'
  OBVIOUS
<1>1. queue # <<>> /\ asked' = asked
  BY DEF AsyncTask, Runs, FlushDisplay, EraseFlash, AppendConfig, QueryConfig, QueryOverruns,
         RemoveConfig
<1>2. CASE FlushDisplay
  BY <1>1, <1>2, EndsStep DEF FlushDisplay
<1>3. CASE EraseFlash
  BY <1>1, <1>3, EndsStep DEF EraseFlash
<1>4. CASE AppendConfig
  BY <1>1, <1>4, EndsStep DEF AppendConfig
<1>5. CASE QueryConfig
  BY <1>1, <1>5, EndsStep DEF QueryConfig
<1>6. CASE QueryOverruns
  BY <1>6 DEF QueryOverruns, QInv
<1>7. CASE RemoveConfig
  BY <1>1, <1>7, EndsStep DEF RemoveConfig
<1>. QED BY <1>2, <1>3, <1>4, <1>5, <1>6, <1>7 DEF AsyncTask

LEMMA QNext == QInv /\ [Next]_vars => QInv'
<1>. SUFFICES ASSUME QInv, [Next]_vars PROVE QInv'
  OBVIOUS
<1>1. CASE UNCHANGED <<queue, asked>>
  BY <1>1 DEF QInv
<1>2. CASE \E r \in Requests : Arrives(r)
  BY <1>2, ArrivesStep
<1>3. CASE Dispatch
  BY <1>3, DispatchStep
<1>4. CASE AsyncTask
  BY <1>4, TaskStep
<1>5. CASE Dropped
  BY <1>5, TailStep DEF Dropped
<1>6. CASE Reboot
  BY <1>6 DEF Reboot, QInv
<1>7. UNCHANGED vars \/ PhoneConnects \/ PhoneLeaves \/ EpdTimer => UNCHANGED <<queue, asked>>
  BY DEF vars, service, PhoneConnects, PhoneLeaves, EpdTimer, EpdCounts, EpdEnds
<1>. QED BY <1>1, <1>2, <1>3, <1>4, <1>5, <1>6, <1>7 DEF Next, Kernel, Phone

-----------------------------------------------------------------------------
(* The panel invariant *)

LEMMA WriteRamStep == PInv /\ QInv /\ WriteDisplayRam => PInv'
<1>. SUFFICES ASSUME PInv, QInv, WriteDisplayRam PROVE PInv'
  OBVIOUS
<1>1. CASE epd' = epd
  BY <1>1 DEF PInv, RefreshCovered, IdleIsAsleep, BusyIsTimed
<1>2. CASE epd' # epd
  <2>1. epd' = [epd EXCEPT !.frame = Req.img] /\ Req.place = "inside" /\ Req.op = "wr_ram"
    BY <1>2 DEF WriteDisplayRam, EpdWrite, Handles
  <2>2. Req \in Requests
    BY RequestArrived DEF WriteDisplayRam, Handles
  <2>3. Req.img \in Images
    BY <2>1, <2>2, RequestsAssumption
  <2>. QED BY <2>1, <2>3, WriteStep
<1>. QED BY <1>1, <1>2

LEMMA PNext == PInv /\ QInv /\ [Next]_vars => PInv'
<1>. SUFFICES ASSUME PInv, QInv, [Next]_vars PROVE PInv'
  OBVIOUS
<1>1. CASE UNCHANGED epd
  BY <1>1 DEF PInv, RefreshCovered, IdleIsAsleep, BusyIsTimed
<1>2. CASE WriteDisplayRam
  BY <1>2, WriteRamStep
<1>3. CASE FlushDisplay
  BY <1>3, FlushStep
<1>4. CASE EpdTimer
  BY <1>4, CountStep, EndStep DEF EpdTimer
<1>5. CASE Reboot
  BY <1>5, RebootStep
<1>6. PhoneConnects \/ PhoneLeaves \/ (\E r \in Requests : Arrives(r)) \/ Dropped
      \/ UNCHANGED vars => UNCHANGED epd
  BY DEF PhoneConnects, PhoneLeaves, Arrives, Dropped, vars
<1>7. Dispatch => WriteDisplayRam \/ UNCHANGED epd
  BY DEF Dispatch, UnknownOpcode, FlushScreen, ReadDisplayRam, ReadHardwareInfo,
         EraseFlashSector, WriteConfig, ReadConfig, DeleteConfig
<1>8. AsyncTask => FlushDisplay \/ UNCHANGED epd
  BY DEF AsyncTask, EraseFlash, AppendConfig, QueryConfig, QueryOverruns, RemoveConfig
<1>. QED BY <1>1, <1>2, <1>3, <1>4, <1>5, <1>6, <1>7, <1>8 DEF Next, Kernel, Phone

-----------------------------------------------------------------------------
(* The picture *)

(* What a busy driver refreshes is what the frame buffer holds. *)
PictureKept ==
  epd.status = "BUSY" =>
    /\ epd.ram = epd.frame
    /\ epd.mode # "sleep"
    /\ epd.mode = "ready" => epd.shown \in {epd.frame, Torn}

(* What a step can do to the panel *)

Writing == EpdIsIdle(epd) /\ \E img \in Images : epd' = [epd EXCEPT !.frame = img]

LEMMA PanelKinds ==
  ASSUME QInv, [Next]_vars
  PROVE  \/ UNCHANGED epd /\ UNCHANGED told
         \/ Writing /\ UNCHANGED told
         \/ FlushDisplay \/ EpdCounts \/ EpdEnds \/ Reboot
<1>1. PhoneConnects \/ PhoneLeaves \/ (\E r \in Requests : Arrives(r)) \/ Dropped
      \/ UNCHANGED vars => UNCHANGED epd /\ UNCHANGED told
  BY DEF PhoneConnects, PhoneLeaves, Arrives, Dropped, vars
<1>2. Dispatch => WriteDisplayRam \/ (UNCHANGED epd /\ UNCHANGED told)
  BY DEF Dispatch, UnknownOpcode, FlushScreen, ReadDisplayRam, ReadHardwareInfo,
         EraseFlashSector, WriteConfig, ReadConfig, DeleteConfig
<1>3. AsyncTask => FlushDisplay \/ (UNCHANGED epd /\ UNCHANGED told)
  BY DEF AsyncTask, EraseFlash, AppendConfig, QueryConfig, QueryOverruns, RemoveConfig
<1>4. ASSUME WriteDisplayRam, epd' # epd PROVE Writing /\ UNCHANGED told
  <2>1. /\ EpdIsIdle(epd) /\ told' = told
        /\ epd' = [epd EXCEPT !.frame = Req.img]
        /\ Req.place = "inside" /\ Req.op = "wr_ram" /\ queue # <<>>
    BY <1>4 DEF WriteDisplayRam, EpdWrite, Handles
  <2>2. Req.img \in Images
    BY <2>1, RequestArrived, RequestsAssumption
  <2>. QED BY <2>1, <2>2 DEF Writing
<1>5. WriteDisplayRam => UNCHANGED told
  BY DEF WriteDisplayRam
<1>. QED BY <1>1, <1>2, <1>3, <1>4, <1>5 DEF Next, Kernel, Phone, EpdTimer

LEMMA WritingFacts ==
  ASSUME PInv, Writing
  PROVE  /\ epd'.status = epd.status /\ epd.status = "IDLE" /\ epd'.shown = epd.shown
<1>1. PICK img \in Images : epd' = [epd EXCEPT !.frame = img]
  BY DEF Writing
<1>2. epd'.status = epd.status /\ epd'.shown = epd.shown
  BY <1>1, Zenon DEF PInv, Epd
<1>. QED BY <1>2 DEF Writing, EpdIsIdle

(* A flush that finds a refresh under way aborts it, and does nothing else. *)
LEMMA FlushPicture ==
  ASSUME PInv, FlushDisplay
  PROVE  /\ epd'.status = "BUSY" /\ epd'.shown = AbortedPicture(epd)
         /\ epd'.frame = epd.frame
         /\ epd.status = "BUSY" => epd'.ram = epd.ram /\ epd'.mode = "ready"
         /\ epd.status # "BUSY" => epd'.ram = epd.frame /\ epd'.mode = "refresh"
<1>1. PICK rest \in OpenRests :
        epd' = EpdFlush(EpdSetFlushDoneCallback(EpdOpen(EpdInit(epd), rest)))
  BY DEF FlushDisplay
<1>. DEFINE i == EpdInit(epd)
            p == EpdOpen(i, rest)
            o == EpdSetFlushDoneCallback(p)
<1>2. epd \in Epd
  BY DEF PInv
<1>3. /\ i \in Epd /\ i.status = epd.status /\ i.ram = epd.ram /\ i.frame = epd.frame
      /\ AbortedPicture(i) = AbortedPicture(epd)
  <2>1. /\ i \in Epd /\ i.status = epd.status /\ i.ram = epd.ram /\ i.frame = epd.frame
        /\ i.mode = epd.mode /\ i.shown = epd.shown
    BY <1>2, Zenon DEF EpdInit, Epd
  <2>. QED BY <2>1 DEF AbortedPicture
<1>. HIDE DEF i
<1>4. /\ AbortedPicture(i) \in Images \cup {Torn}
      /\ rest \in 0..TimeoutMax /\ 0 \in 0..RefreshTime
  BY <1>3, AbortedType, Ranges
<1>5. /\ p \in Epd /\ p.status = i.status /\ p.ram = i.ram /\ p.frame = i.frame
      /\ p.mode = "ready" /\ p.shown = AbortedPicture(i)
  BY <1>3, <1>4, Zenon DEF EpdOpen, Epd
<1>. HIDE DEF p
<1>6. /\ o \in Epd /\ o.status = p.status /\ o.ram = p.ram /\ o.frame = p.frame
      /\ o.mode = p.mode /\ o.shown = p.shown
  BY <1>5, Zenon DEF EpdSetFlushDoneCallback, Epd
<1>7. epd' = EpdFlush(o)
  BY <1>1 DEF p, i
<1>. HIDE DEF o
<1>8. CASE epd.status = "BUSY"
  BY <1>3, <1>5, <1>6, <1>7, <1>8 DEF EpdFlush
<1>9. CASE epd.status # "BUSY"
  <2>1. epd' = [o EXCEPT !.status = "BUSY", !.ram = o.frame, !.mode = "refresh",
                         !.left = RefreshTime, !.timeout = FlushTicks, !.armed = TRUE]
    BY <1>3, <1>5, <1>6, <1>7, <1>9 DEF EpdFlush
  <2>2. /\ epd'.status = "BUSY" /\ epd'.shown = o.shown /\ epd'.frame = o.frame
        /\ epd'.ram = o.frame /\ epd'.mode = "refresh"
    BY <1>6, <2>1, Zenon DEF Epd
  <2>. QED BY <1>3, <1>5, <1>6, <1>9, <2>2
<1>. QED BY <1>8, <1>9

LEMMA SecondPicture ==
  ASSUME NEW e \in Epd
  PROVE  LET s == PanelSecond(e) IN
         /\ s.ram = e.ram /\ s.frame = e.frame
         /\ \/ s.mode = e.mode /\ s.shown = e.shown
            \/ e.mode = "refresh" /\ s.mode = "ready" /\ s.shown = e.ram
<1>. DEFINE s == PanelSecond(e)
<1>1. CASE e.mode # "refresh"
  BY <1>1 DEF PanelSecond
<1>2. CASE e.mode = "refresh" /\ e.left > 1
  <2>1. s = [e EXCEPT !.left = e.left - 1]
    BY <1>2 DEF PanelSecond
  <2>. HIDE DEF s
  <2>2. s.ram = e.ram /\ s.frame = e.frame /\ s.mode = e.mode /\ s.shown = e.shown
    BY <2>1, Zenon DEF Epd
  <2>. USE DEF s
  <2>. QED BY <2>2
<1>3. CASE e.mode = "refresh" /\ ~(e.left > 1)
  <2>1. s = [e EXCEPT !.left = 0, !.mode = "ready", !.shown = e.ram]
    BY <1>3 DEF PanelSecond
  <2>. HIDE DEF s
  <2>2. s.ram = e.ram /\ s.frame = e.frame /\ s.mode = "ready" /\ s.shown = e.ram
    BY <2>1, Zenon DEF Epd
  <2>. USE DEF s
  <2>. QED BY <1>3, <2>2
<1>. QED BY <1>1, <1>2, <1>3

LEMMA CountsPicture ==
  ASSUME PInv, EpdCounts
  PROVE  /\ epd'.status = epd.status /\ told' = told
         /\ epd'.ram = epd.ram /\ epd'.frame = epd.frame
         /\ \/ epd'.mode = epd.mode /\ epd'.shown = epd.shown
            \/ epd.mode = "refresh" /\ epd'.mode = "ready" /\ epd'.shown = epd.ram
<1>. DEFINE s == PanelSecond(epd)
<1>1. epd' = [s EXCEPT !.timeout = s.timeout - 1] /\ told' = told
  BY DEF EpdCounts, TimerCounts
<1>2. /\ s \in Epd /\ s.status = epd.status /\ s.ram = epd.ram /\ s.frame = epd.frame
      /\ \/ s.mode = epd.mode /\ s.shown = epd.shown
         \/ epd.mode = "refresh" /\ s.mode = "ready" /\ s.shown = epd.ram
  BY SecondFacts, SecondPicture DEF PInv
<1>. HIDE DEF s
<1>3. /\ epd'.status = s.status /\ epd'.ram = s.ram /\ epd'.frame = s.frame
      /\ epd'.mode = s.mode /\ epd'.shown = s.shown
  BY <1>1, <1>2, Zenon DEF Epd
<1>. QED BY <1>1, <1>2, <1>3

(* The timer ends when the refresh has. *)
LEMMA EndsPicture ==
  ASSUME PInv, EpdEnds
  PROVE  /\ epd.status = "BUSY" /\ epd'.status = "IDLE" /\ epd'.frame = epd.frame
         /\ \/ epd.mode # "refresh" /\ epd'.shown = epd.shown
            \/ epd.mode = "refresh" /\ epd'.shown = epd.ram
<1>. DEFINE s == PanelSecond(epd)
            d == [s EXCEPT !.armed = FALSE, !.status = "IDLE", !.timeout = 0]
            z == EpdSleep(d)
<1>1. epd' = EpdClose(z) /\ s.timeout = 0 /\ epd.armed
  BY DEF EpdEnds, TimerEnds
<1>2. /\ s \in Epd /\ s.ram = epd.ram /\ s.frame = epd.frame /\ s.timeout = epd.timeout
      /\ \/ s.mode = epd.mode /\ s.shown = epd.shown
         \/ epd.mode = "refresh" /\ s.mode = "ready" /\ s.shown = epd.ram
      /\ s.mode = "refresh" => epd.mode = "refresh" /\ s.left + 1 = epd.left
  BY SecondFacts, SecondPicture DEF PInv
<1>. HIDE DEF s
<1>3. s.mode # "refresh"
  <2>1. SUFFICES ASSUME s.mode = "refresh" PROVE FALSE
    OBVIOUS
  <2>2. s.left + 1 <= 0
    BY <1>1, <1>2, <2>1 DEF PInv, RefreshCovered
  <2>3. s.left \in 0..RefreshTime
    BY <1>2, Zenon DEF Epd
  <2>. QED BY <2>2, <2>3, TimeAssumption
<1>4. /\ d \in Epd /\ d.status = "IDLE" /\ d.mode = s.mode /\ d.shown = s.shown
      /\ d.frame = s.frame
  BY <1>2, Ranges, Zenon DEF Epd
<1>. HIDE DEF d
<1>5. AbortedPicture(d) = s.shown
  BY <1>3, <1>4 DEF AbortedPicture
<1>6. z \in Epd /\ z.status = "IDLE" /\ z.shown = s.shown /\ z.frame = s.frame
  <2>1. AbortedPicture(d) \in Images \cup {Torn} /\ 0 \in 0..RefreshTime
    BY <1>4, AbortedType, Ranges
  <2>. QED BY <1>4, <1>5, <2>1, Zenon DEF EpdSleep, Epd
<1>. HIDE DEF z
<1>7. epd'.status = "IDLE" /\ epd'.shown = s.shown /\ epd'.frame = s.frame
  BY <1>1, <1>6, Zenon DEF EpdClose, Epd
<1>8. epd.status = "BUSY"
  <2>1. epd.status \in {"IDLE", "BUSY"}
    BY Zenon DEF PInv, Epd
  <2>. QED BY <1>1, <2>1 DEF PInv, IdleIsAsleep, EpdIsIdle
<1>. QED BY <1>2, <1>3, <1>7, <1>8

LEMMA RebootIdle ==
  ASSUME PInv, Reboot
  PROVE  epd'.status = "IDLE"
<1>1. PICK rest \in OpenRests : epd' = EpdBoot(AbortedPicture(epd), rest)
  BY DEF Reboot
<1>. QED BY <1>1, AbortedType, BootFacts DEF PInv

LEMMA PictureNext == PInv /\ QInv /\ PictureKept /\ [Next]_vars => PictureKept'
<1>. SUFFICES ASSUME PInv, QInv, PictureKept, [Next]_vars PROVE PictureKept'
  OBVIOUS
<1>1. CASE UNCHANGED epd
  BY <1>1 DEF PictureKept
<1>2. CASE Writing
  BY <1>2, WritingFacts DEF PictureKept
<1>3. CASE FlushDisplay
  <2>1. epd.mode \in {"sleep", "ready", "refresh"}
    BY Zenon DEF PInv, Epd
  <2>. QED BY <1>3, <2>1, FlushPicture DEF PictureKept, AbortedPicture
<1>4. CASE EpdCounts
  BY <1>4, CountsPicture DEF PictureKept
<1>5. CASE EpdEnds
  BY <1>5, EndsPicture DEF PictureKept
<1>6. CASE Reboot
  BY <1>6, RebootIdle DEF PictureKept
<1>. QED BY <1>1, <1>2, <1>3, <1>4, <1>5, <1>6, PanelKinds

-----------------------------------------------------------------------------
(* The records *)

(* The parts of a store *)
Half == [headed : BOOLEAN, recs : [Tags -> Values \cup {NoValue}]]
Places == {Nil} \cup [sec : Sector, tag : Tags \cup {Gone}]
Caches == [Tags -> {Nil} \cup [sec : Sector, val : Values \cup {Erased, Gone}]]

LEMMA StoreIs ==
  Store = [work : Sector, sec : [Sector -> Half], mark : Places, cached : Caches, lost : BOOLEAN]
BY DEF Store, Half, Places, Caches

(* mark_address is the record of u, and no strike of it is lost. *)
MarkAt(st, u) == st.mark # Nil /\ st.mark.tag = u

Headed(st) == st.sec[st.work].headed

LEMMA OtherIs == \A s \in Sector : Other(s) \in Sector /\ Other(s) # s
BY DEF Sector, Other

LEMMA UncachedIs == Uncached \in Caches
BY DEF Uncached, Caches

(* One record of one sector is written. *)
Put(sec, s, t, v) == [sec EXCEPT ![s].recs[t] = v]

LEMMA RecordPut ==
  ASSUME NEW sec \in [Sector -> Half], NEW s \in Sector, NEW t, NEW v \in Values \cup {NoValue}
  PROVE  LET n == Put(sec, s, t, v) IN
         /\ n \in [Sector -> Half]
         /\ \A q \in Sector : n[q].headed = sec[q].headed
         /\ \A q \in Sector, u \in Tags : q # s \/ u # t => n[q].recs[u] = sec[q].recs[u]
<1>. DEFINE F == [Tags -> Values \cup {NoValue}]
            recs == [sec[s].recs EXCEPT ![t] = v]
            half == [sec[s] EXCEPT !.recs = recs]
            n == [sec EXCEPT ![s] = half]
<1>1. sec[s] \in [headed : BOOLEAN, recs : F]
  BY DEF Half
<1>2. recs \in F /\ \A u \in Tags : u # t => recs[u] = sec[s].recs[u]
  BY <1>1
<1>. HIDE DEF F, recs
<1>3. half \in [headed : BOOLEAN, recs : F] /\ half.recs = recs /\ half.headed = sec[s].headed
  BY <1>1, <1>2
<1>4. half \in Half
  BY <1>3 DEF Half, F
<1>. HIDE DEF half
<1>5. n \in [Sector -> Half] /\ n[s] = half /\ \A q \in Sector : q # s => n[q] = sec[q]
  BY <1>4
<1>6. n = Put(sec, s, t, v)
  BY DEF n, half, recs, Put
<1>. HIDE DEF n
<1>7. /\ n \in [Sector -> Half]
      /\ \A q \in Sector : n[q].headed = sec[q].headed
      /\ \A q \in Sector, u \in Tags : q # s \/ u # t => n[q].recs[u] = sec[q].recs[u]
  BY <1>2, <1>3, <1>5
<1>. QED BY <1>6, <1>7

LEMMA WipedStore ==
  ASSUME NEW st \in Store, NEW S
  PROVE  LET x == Wiped(st, S) IN
         /\ x \in Store /\ x.work = st.work /\ x.lost = st.lost
         /\ \A s \in Sector : s \notin S => x.sec[s] = st.sec[s]
         /\ \A u \in Tags : MarkAt(x, u) => MarkAt(st, u)
<1>. DEFINE sec == [s \in Sector |-> IF s \in S THEN Blank ELSE st.sec[s]]
            mark == IF st.mark # Nil /\ st.mark.sec \in S THEN [st.mark EXCEPT !.tag = Gone]
                                                          ELSE st.mark
            cached == [t \in Tags |-> IF st.cached[t] # Nil /\ st.cached[t].sec \in S
                                      THEN [st.cached[t] EXCEPT !.val = Erased] ELSE st.cached[t]]
<1>1. /\ st \in [work : Sector, sec : [Sector -> Half], mark : Places, cached : Caches,
                 lost : BOOLEAN]
  BY StoreIs
<1>2. Blank \in Half
  BY DEF Blank, Empty, Half
<1>3. sec \in [Sector -> Half] /\ \A s \in Sector : s \notin S => sec[s] = st.sec[s]
  BY <1>1, <1>2
<1>4. /\ mark \in Places
      /\ \A u \in Tags : mark # Nil /\ mark.tag = u => st.mark # Nil /\ st.mark.tag = u
  <2>1. CASE st.mark # Nil /\ st.mark.sec \in S
    <3>1. st.mark \in [sec : Sector, tag : Tags \cup {Gone}]
      BY <1>1, <2>1 DEF Places
    <3>2. [st.mark EXCEPT !.tag = Gone] \in [sec : Sector, tag : Tags \cup {Gone}]
          /\ [st.mark EXCEPT !.tag = Gone].tag = Gone
      BY <3>1
    <3>. QED BY <2>1, <3>2, RequestsAssumption DEF Places
  <2>2. CASE ~(st.mark # Nil /\ st.mark.sec \in S)
    BY <1>1, <2>2
  <2>. QED BY <2>1, <2>2
<1>5. cached \in Caches
  <2>1. ASSUME NEW t \in Tags
        PROVE  (IF st.cached[t] # Nil /\ st.cached[t].sec \in S
                THEN [st.cached[t] EXCEPT !.val = Erased] ELSE st.cached[t])
               \in {Nil} \cup [sec : Sector, val : Values \cup {Erased, Gone}]
    <3>1. st.cached[t] \in {Nil} \cup [sec : Sector, val : Values \cup {Erased, Gone}]
      BY <1>1 DEF Caches
    <3>. QED BY <3>1
  <2>. QED BY <2>1 DEF Caches
<1>6. Wiped(st, S) = [st EXCEPT !.sec = sec, !.mark = mark, !.cached = cached]
  BY DEF Wiped
<1>. HIDE DEF sec, mark, cached
<1>7. /\ Wiped(st, S) \in Store
      /\ Wiped(st, S).work = st.work /\ Wiped(st, S).lost = st.lost
      /\ Wiped(st, S).sec = sec /\ Wiped(st, S).mark = mark
  BY <1>1, <1>3, <1>4, <1>5, <1>6, StoreIs
<1>. QED BY <1>3, <1>4, <1>7 DEF MarkAt

LEMMA RefilledStore ==
  ASSUME NEW st \in Store
  PROVE  LET x == Refilled(st) IN
         /\ x \in Store /\ x.work = st.work /\ x.lost = st.lost
         /\ x.sec = st.sec /\ x.mark = st.mark
<1>. DEFINE cached == [t \in Tags |-> IF st.cached[t] # Nil /\ st.cached[t].sec = st.work
                                         /\ st.cached[t].val = Erased
                                      THEN [st.cached[t] EXCEPT !.val = Gone] ELSE st.cached[t]]
<1>1. /\ st \in [work : Sector, sec : [Sector -> Half], mark : Places, cached : Caches,
                 lost : BOOLEAN]
  BY StoreIs
<1>2. cached \in Caches
  <2>1. ASSUME NEW t \in Tags
        PROVE  cached[t] \in {Nil} \cup [sec : Sector, val : Values \cup {Erased, Gone}]
    <3>1. st.cached[t] \in {Nil} \cup [sec : Sector, val : Values \cup {Erased, Gone}]
      BY <1>1 DEF Caches
    <3>. QED BY <3>1
  <2>. QED BY <2>1 DEF Caches
<1>3. Refilled(st) = [st EXCEPT !.cached = cached]
  BY DEF Refilled
<1>. HIDE DEF cached
<1>. QED BY <1>1, <1>2, <1>3, StoreIs

LEMMA CollectedStore ==
  ASSUME NEW st \in Store
  PROVE  LET x == Collected(st) IN
         /\ x \in Store /\ Records(x) = Records(st) /\ Headed(x) = Headed(st)
         /\ x.lost = st.lost
         /\ \A u \in Tags : MarkAt(x, u) => MarkAt(st, u)
<1>. DEFINE o == Other(st.work)
            w == Wiped(st, {o})
            sec == [w.sec EXCEPT ![o] = st.sec[st.work]]
            c == [w EXCEPT !.work = o, !.sec = sec]
<1>1. o \in Sector /\ st.sec[st.work] \in Half
  BY OtherIs, StoreIs
<1>2. /\ w \in Store /\ w.lost = st.lost
      /\ \A u \in Tags : MarkAt(w, u) => MarkAt(st, u)
  BY WipedStore
<1>3. Collected(st) = Refilled(c)
  BY DEF Collected, c, sec, w, o
<1>. HIDE DEF o, w
<1>4. /\ w \in [work : Sector, sec : [Sector -> Half], mark : Places, cached : Caches,
                lost : BOOLEAN]
  BY <1>2, StoreIs
<1>5. sec \in [Sector -> Half] /\ sec[o] = st.sec[st.work]
  BY <1>1, <1>4
<1>. HIDE DEF sec
<1>6. /\ c \in Store /\ c.work = o /\ c.sec = sec /\ c.mark = w.mark /\ c.lost = w.lost
  BY <1>1, <1>4, <1>5, StoreIs
<1>. HIDE DEF c
<1>7. /\ Refilled(c) \in Store /\ Refilled(c).work = c.work /\ Refilled(c).sec = c.sec
      /\ Refilled(c).mark = c.mark /\ Refilled(c).lost = c.lost
  BY <1>6, RefilledStore
<1>. QED BY <1>2, <1>3, <1>5, <1>6, <1>7 DEF Records, Headed, MarkAt

LEMMA MarkedStore ==
  ASSUME NEW st \in Store, NEW t \in Tags
  PROVE  LET x == Marked(st, t) IN
         /\ x \in Store /\ Records(x) = Records(st) /\ Headed(x) = Headed(st)
         /\ x.lost = st.lost
         /\ \A u \in Tags : MarkAt(x, u) => MarkAt(st, u) \/ u = t
<1>. DEFINE place == [sec |-> st.work, tag |-> t]
            x == [st EXCEPT !.mark = place]
<1>1. /\ st \in [work : Sector, sec : [Sector -> Half], mark : Places, cached : Caches,
                 lost : BOOLEAN]
  BY StoreIs
<1>2. place \in Places /\ place.tag = t
  BY <1>1 DEF Places
<1>3. Marked(st, t) \in {st, x}
  BY DEF Marked
<1>. HIDE DEF place
<1>4. /\ x \in Store /\ x.work = st.work /\ x.sec = st.sec /\ x.lost = st.lost
      /\ x.mark = place
  BY <1>1, <1>2, StoreIs
<1>. HIDE DEF x
<1>. QED BY <1>2, <1>3, <1>4 DEF Records, Headed, MarkAt

LEMMA LocatedStore ==
  ASSUME NEW st \in Store, NEW t \in Tags, NEW x \in Located(st, t)
  PROVE  /\ x \in Store /\ Records(x) = Records(st) /\ Headed(x) = Headed(st)
         /\ x.lost = st.lost
         /\ \A u \in Tags : MarkAt(x, u) => MarkAt(st, u) \/ u = t
<1>. DEFINE m == Marked(st, t)
            c == Collected(m)
<1>1. /\ m \in Store /\ Records(m) = Records(st) /\ Headed(m) = Headed(st) /\ m.lost = st.lost
      /\ \A u \in Tags : MarkAt(m, u) => MarkAt(st, u) \/ u = t
  BY MarkedStore
<1>2. x \in {m, Marked(c, t)}
  BY DEF Located
<1>. HIDE DEF m
<1>3. /\ c \in Store /\ Records(c) = Records(m) /\ Headed(c) = Headed(m) /\ c.lost = m.lost
      /\ \A u \in Tags : MarkAt(c, u) => MarkAt(m, u)
  BY <1>1, CollectedStore
<1>. HIDE DEF c
<1>4. /\ Marked(c, t) \in Store /\ Records(Marked(c, t)) = Records(c)
      /\ Headed(Marked(c, t)) = Headed(c) /\ Marked(c, t).lost = c.lost
      /\ \A u \in Tags : MarkAt(Marked(c, t), u) => MarkAt(c, u) \/ u = t
  BY <1>3, MarkedStore
<1>. QED BY <1>1, <1>2, <1>3, <1>4

LEMMA StruckStore ==
  ASSUME NEW st \in Store
  PROVE  LET x == Struck(st) IN
         /\ x \in Store /\ x.work = st.work /\ Headed(x) = Headed(st)
         /\ \A u \in Tags : ~MarkAt(x, u)
         /\ \A u \in Tags : Records(x)[u] # Records(st)[u] => MarkAt(st, u)
<1>1. /\ st \in [work : Sector, sec : [Sector -> Half], mark : Places, cached : Caches,
                 lost : BOOLEAN]
  BY StoreIs
<1>2. Nil \in Places
  BY DEF Places
<1>3. CASE st.mark = Nil
  BY <1>3 DEF Struck, MarkAt
<1>4. CASE st.mark # Nil /\ st.mark.tag = Gone
  <2>. DEFINE x == [st EXCEPT !.mark = Nil, !.lost = TRUE]
  <2>1. Struck(st) = x
    BY <1>4 DEF Struck
  <2>2. x \in Store /\ x.work = st.work /\ x.sec = st.sec /\ x.mark = Nil
    BY <1>1, <1>2, StoreIs
  <2>. HIDE DEF x
  <2>. QED BY <2>1, <2>2 DEF Records, Headed, MarkAt
<1>5. CASE st.mark # Nil /\ st.mark.tag # Gone
  <2>. DEFINE s == st.mark.sec
              t == st.mark.tag
              sec == Put(st.sec, s, t, NoValue)
              x == [st EXCEPT !.mark = Nil, !.sec = sec]
  <2>1. s \in Sector /\ st.sec \in [Sector -> Half]
    BY <1>1, <1>5 DEF Places
  <2>. HIDE DEF s, t
  <2>2. /\ sec \in [Sector -> Half]
        /\ \A q \in Sector : sec[q].headed = st.sec[q].headed
        /\ \A q \in Sector, u \in Tags : q # s \/ u # t => sec[q].recs[u] = st.sec[q].recs[u]
    BY <2>1, RecordPut
  <2>3. Struck(st) = x
    BY <1>5 DEF Struck, s, t, Put
  <2>. HIDE DEF sec
  <2>4. x \in Store /\ x.work = st.work /\ x.sec = sec /\ x.mark = Nil
    BY <1>1, <1>2, <2>2, StoreIs
  <2>. HIDE DEF x
  <2>5. \A u \in Tags : Records(x)[u] # Records(st)[u] => u = t
    BY <1>1, <2>2, <2>4 DEF Records
  <2>. QED BY <1>1, <1>5, <2>2, <2>3, <2>4, <2>5 DEF Headed, MarkAt, t
<1>. QED BY <1>3, <1>4, <1>5

LEMMA RememberedStore ==
  ASSUME NEW st \in Store, NEW t \in Tags, NEW v \in Values, NEW x \in Remembered(st, t, v)
  PROVE  /\ x \in Store /\ x.work = st.work /\ x.lost = st.lost
         /\ x.sec = st.sec /\ x.mark = st.mark
<1>. DEFINE entry == [sec |-> st.work, val |-> v]
            first == [st.cached EXCEPT ![t] = entry]
            new == [st EXCEPT !.cached = first]
<1>1. /\ st \in [work : Sector, sec : [Sector -> Half], mark : Places, cached : Caches,
                 lost : BOOLEAN]
  BY StoreIs
<1>2. entry \in [sec : Sector, val : Values \cup {Erased, Gone}]
  BY <1>1
<1>3. first \in Caches
  BY <1>1, <1>2 DEF Caches
<1>. HIDE DEF entry, first
<1>4. /\ new \in [work : Sector, sec : [Sector -> Half], mark : Places, cached : Caches,
                  lost : BOOLEAN]
      /\ new.work = st.work /\ new.lost = st.lost /\ new.sec = st.sec /\ new.mark = st.mark
  BY <1>1, <1>3
<1>5. x = new \/ \E u \in Tags : x = [new EXCEPT !.cached[u] = Nil]
  BY DEF Remembered, new, first, entry
<1>. HIDE DEF new
<1>6. CASE x = new
  BY <1>4, <1>6, StoreIs
<1>7. ASSUME NEW u \in Tags, x = [new EXCEPT !.cached[u] = Nil]
      PROVE  /\ x \in Store /\ x.work = new.work /\ x.lost = new.lost
             /\ x.sec = new.sec /\ x.mark = new.mark
  <2>. DEFINE cached == [new.cached EXCEPT ![u] = Nil]
  <2>1. cached \in Caches
    BY <1>4 DEF Caches
  <2>2. x = [new EXCEPT !.cached = cached]
    BY <1>7
  <2>. HIDE DEF cached
  <2>. QED BY <1>4, <2>1, <2>2, StoreIs
<1>. QED BY <1>4, <1>5, <1>6, <1>7

LEMMA WrittenStore ==
  ASSUME NEW st \in Store, NEW t \in Tags, NEW v \in Values, NEW x \in Written(st, t, v)
  PROVE  /\ x \in Store /\ Headed(x) = Headed(st)
         /\ \A u \in Tags : MarkAt(x, u) => MarkAt(st, u)
         /\ \A u \in Tags : Records(x)[u] # Records(st)[u] => u = t \/ MarkAt(st, u)
<1>1. CASE st.lost
  BY <1>1 DEF Written
<1>2. CASE ~st.lost
  <2>1. PICK at \in Located(st, t) :
          x \in Remembered([Struck(Refilled(at)) EXCEPT !.sec[at.work].recs[t] = v], t, v)
    BY <1>2 DEF Written
  <2>. DEFINE r == Refilled(at)
              k == Struck(r)
              sec == Put(k.sec, at.work, t, v)
              n == [k EXCEPT !.sec = sec]
  <2>2. /\ at \in Store /\ Records(at) = Records(st) /\ Headed(at) = Headed(st)
        /\ \A u \in Tags : MarkAt(at, u) => MarkAt(st, u) \/ u = t
    BY LocatedStore
  <2>3. x \in Remembered(n, t, v)
    BY <2>1 DEF Put
  <2>4. r \in Store /\ r.work = at.work /\ r.sec = at.sec /\ r.mark = at.mark
    BY <2>2, RefilledStore
  <2>. HIDE DEF r
  <2>5. /\ k \in Store /\ k.work = r.work /\ Headed(k) = Headed(r)
        /\ \A u \in Tags : ~MarkAt(k, u)
        /\ \A u \in Tags : Records(k)[u] # Records(r)[u] => MarkAt(r, u)
    BY <2>4, StruckStore
  <2>. HIDE DEF k
  <2>6. k \in [work : Sector, sec : [Sector -> Half], mark : Places, cached : Caches,
               lost : BOOLEAN]
    BY <2>5, StoreIs
  <2>7. /\ sec \in [Sector -> Half]
        /\ \A q \in Sector : sec[q].headed = k.sec[q].headed
        /\ \A q \in Sector, u \in Tags : q # at.work \/ u # t => sec[q].recs[u] = k.sec[q].recs[u]
    BY <2>4, <2>5, <2>6, RecordPut
  <2>. HIDE DEF sec
  <2>8. n \in Store /\ n.work = k.work /\ n.sec = sec /\ n.mark = k.mark
    BY <2>6, <2>7, StoreIs
  <2>. HIDE DEF n
  <2>9. x \in Store /\ x.work = n.work /\ x.sec = n.sec /\ x.mark = n.mark
    BY <2>3, <2>8, RememberedStore
  <2>10. ASSUME NEW u \in Tags, Records(x)[u] # Records(st)[u], u # t PROVE MarkAt(st, u)
    <3>1. Records(x)[u] = Records(k)[u]
      BY <2>6, <2>7, <2>8, <2>9, <2>10 DEF Records
    <3>2. Records(r) = Records(st)
      BY <2>2, <2>4 DEF Records
    <3>3. MarkAt(r, u)
      BY <2>5, <2>10, <3>1, <3>2
    <3>. QED BY <2>2, <2>4, <2>10, <3>3 DEF MarkAt
  <2>11. Headed(x) = Headed(st)
    BY <2>2, <2>4, <2>5, <2>6, <2>7, <2>8, <2>9 DEF Headed
  <2>12. \A u \in Tags : ~MarkAt(x, u)
    BY <2>5, <2>8, <2>9 DEF MarkAt
  <2>. QED BY <2>9, <2>10, <2>11, <2>12
<1>. QED BY <1>1, <1>2

LEMMA RefusedStore ==
  ASSUME NEW st \in Store, NEW t \in Tags, NEW x \in Refused(st, t)
  PROVE  /\ x \in Store /\ Records(x) = Records(st) /\ Headed(x) = Headed(st)
         /\ \A u \in Tags : MarkAt(x, u) => MarkAt(st, u) \/ u = t
<1>1. CASE st.lost
  BY <1>1 DEF Refused
<1>2. CASE ~st.lost
  <2>. DEFINE m == Marked(st, t)
  <2>1. /\ m \in Store /\ Records(m) = Records(st) /\ Headed(m) = Headed(st)
        /\ \A u \in Tags : MarkAt(m, u) => MarkAt(st, u) \/ u = t
    BY MarkedStore
  <2>2. x \in {m, Collected(m)} \/ \E at \in Located(st, t) : x = Refilled(at)
    BY <1>2 DEF Refused
  <2>. HIDE DEF m
  <2>3. /\ Collected(m) \in Store /\ Records(Collected(m)) = Records(m)
        /\ Headed(Collected(m)) = Headed(m)
        /\ \A u \in Tags : MarkAt(Collected(m), u) => MarkAt(m, u)
    BY <2>1, CollectedStore
  <2>4. ASSUME NEW at \in Located(st, t), x = Refilled(at)
        PROVE  /\ x \in Store /\ Records(x) = Records(st) /\ Headed(x) = Headed(st)
               /\ \A u \in Tags : MarkAt(x, u) => MarkAt(st, u) \/ u = t
    <3>1. /\ at \in Store /\ Records(at) = Records(st) /\ Headed(at) = Headed(st)
          /\ \A u \in Tags : MarkAt(at, u) => MarkAt(st, u) \/ u = t
      BY LocatedStore
    <3>2. x \in Store /\ x.work = at.work /\ x.sec = at.sec /\ x.mark = at.mark
      BY <2>4, <3>1, RefilledStore
    <3>. QED BY <3>1, <3>2 DEF Records, Headed, MarkAt
  <2>. QED BY <2>1, <2>2, <2>3, <2>4
<1>. QED BY <1>1, <1>2

LEMMA DeletedStore ==
  ASSUME NEW st \in Store, NEW t \in Tags
  PROVE  LET x == Deleted(st, t) IN
         /\ x \in Store /\ Headed(x) = Headed(st)
         /\ \A u \in Tags : MarkAt(x, u) => MarkAt(st, u)
         /\ \A u \in Tags : Records(x)[u] # Records(st)[u] => u = t
<1>1. CASE st.lost
  BY <1>1 DEF Deleted
<1>2. CASE ~st.lost
  <2>. DEFINE w == st.work
              sec == Put(st.sec, w, t, NoValue)
              cached == [st.cached EXCEPT ![t] = Nil]
              x == [st EXCEPT !.sec = sec, !.cached = cached]
  <2>1. /\ st \in [work : Sector, sec : [Sector -> Half], mark : Places, cached : Caches,
                   lost : BOOLEAN]
    BY StoreIs
  <2>2. /\ sec \in [Sector -> Half]
        /\ \A q \in Sector : sec[q].headed = st.sec[q].headed
        /\ \A q \in Sector, u \in Tags : q # w \/ u # t => sec[q].recs[u] = st.sec[q].recs[u]
    <3>1. w \in Sector /\ st.sec \in [Sector -> Half]
      BY <2>1
    <3>. HIDE DEF w
    <3>. QED BY <3>1, RecordPut
  <2>3. cached \in Caches
    BY <2>1 DEF Caches
  <2>4. Deleted(st, t) = x
    BY <1>2 DEF Deleted, Put
  <2>. HIDE DEF sec, cached
  <2>5. x \in Store /\ x.work = st.work /\ x.sec = sec /\ x.mark = st.mark
    BY <2>1, <2>2, <2>3, StoreIs
  <2>. HIDE DEF x
  <2>. QED BY <2>1, <2>2, <2>4, <2>5 DEF Records, Headed, MarkAt
<1>. QED BY <1>1, <1>2

LEMMA QueriedStore ==
  ASSUME NEW st \in Store, NEW t \in Tags, NEW x \in Queried(st, t)
  PROVE  /\ x \in Store /\ Records(x) = Records(st) /\ x.mark = st.mark
<1>1. CASE x = st
  BY <1>1
<1>2. CASE x # st
  <2>1. x \in Remembered(st, t, Records(st)[t]) /\ Records(st)[t] # NoValue
    BY <1>2 DEF Queried
  <2>2. Records(st)[t] \in Values
    <3>1. st.sec[st.work].recs \in [Tags -> Values \cup {NoValue}]
      BY DEF Store
    <3>. QED BY <2>1, <3>1 DEF Records
  <2>3. x \in Store /\ x.work = st.work /\ x.sec = st.sec /\ x.mark = st.mark
    BY <2>1, <2>2, RememberedStore
  <2>. QED BY <2>3 DEF Records
<1>. QED BY <1>1, <1>2

LEMMA FormattedStore == Formatted \in Store /\ Formatted.mark = Nil
<1>1. [s \in Sector |-> [headed |-> s = "major", recs |-> Empty]] \in [Sector -> Half]
  BY DEF Half, Empty
<1>2. "major" \in Sector /\ Nil \in Places
  BY DEF Sector, Places
<1>. QED BY <1>1, <1>2, UncachedIs, StoreIs DEF Formatted

LEMMA ReadAtBootStore ==
  ASSUME NEW st \in Store
  PROVE  LET x == ReadAtBoot(st) IN
         x \in Store /\ x.mark = Nil /\ Records(x) = Records(st)
<1>. DEFINE cached == [t \in Tags |-> IF t \in BootTags /\ Records(st)[t] # NoValue
                                      THEN [sec |-> st.work, val |-> Records(st)[t]] ELSE Nil]
<1>1. /\ st \in [work : Sector, sec : [Sector -> Half], mark : Places, cached : Caches,
                 lost : BOOLEAN]
      /\ Nil \in Places
  BY StoreIs DEF Places
<1>2. cached \in Caches
  <2>1. Records(st) \in [Tags -> Values \cup {NoValue}] /\ st.work \in Sector
    BY <1>1 DEF Records, Half
  <2>. QED BY <2>1 DEF Caches
<1>3. ReadAtBoot(st) = [st EXCEPT !.mark = Nil, !.cached = cached]
  BY DEF ReadAtBoot
<1>. HIDE DEF cached
<1>. QED BY <1>1, <1>2, <1>3, StoreIs DEF Records

LEMMA MountedStore ==
  ASSUME NEW st \in Store
  PROVE  LET x == Mounted(st) IN
         /\ x \in Store /\ x.mark = Nil
         /\ st.lost \/ Headed(st) => Records(x) = Records(st)
<1>. DEFINE o == [st EXCEPT !.work = Other(@)]
<1>1. o \in Store
  BY StoreIs, OtherIs
<1>2. /\ Mounted(st) \in {ReadAtBoot(st), ReadAtBoot(o), Formatted}
      /\ st.lost \/ Headed(st) => Mounted(st) = ReadAtBoot(st)
  BY DEF Mounted, Headed
<1>. HIDE DEF o
<1>. QED BY <1>1, <1>2, ReadAtBootStore, FormattedStore

(* What a task has done to the store when power was lost *)
LEMMA InterruptedStore ==
  ASSUME QInv, store \in Store, NEW x \in Interrupted
  PROVE  /\ x \in Store
         /\ \/ Runs("erase")
            \/ /\ Headed(x) = Headed(store)
               /\ \A u \in Tags : Records(x)[u] # Records(store)[u] =>
                    \/ (Runs("wr_conf") \/ Runs("del_conf")) /\ Req.tag = u
                    \/ Runs("wr_conf") /\ MarkAt(store, u)
<1>1. CASE x = store
  BY <1>1
<1>2. ASSUME Runs("erase"), NEW S, x = Wiped(store, S) PROVE x \in Store
  BY <1>2, WipedStore
<1>3. CASE Runs("wr_conf") /\ x \in Written(store, Req.tag, Req.val) \cup Refused(store, Req.tag)
  <2>1. Req.tag \in Tags /\ Req.val \in Values
    BY <1>3, RequestArrived, RequestsAssumption DEF Runs
  <2>. QED BY <1>3, <2>1, WrittenStore, RefusedStore
<1>4. CASE Runs("del_conf") /\ x = Deleted(store, Req.tag)
  <2>1. Req.tag \in Tags
    BY <1>4, RequestArrived, RequestsAssumption DEF Runs
  <2>. QED BY <1>4, <2>1, DeletedStore
<1>. QED BY <1>1, <1>2, <1>3, <1>4 DEF Interrupted

(* What a step can do to the records, and to mark_address *)
LEMMA StoreKinds ==
  ASSUME QInv, store \in Store, [Next]_vars
  PROVE  /\ store' \in Store
         /\ \A u \in Tags : MarkAt(store', u) =>
              /\ ~Reboot
              /\ \/ MarkAt(store, u)
                 \/ Runs("wr_conf") /\ Req.tag = u /\ Ends("WRITE_ERR") /\ asked' = asked
         /\ \A u \in Tags : Records(store')[u] # Records(store)[u] =>
              \/ /\ AsyncTask \/ Reboot
                 /\ \/ (Runs("wr_conf") \/ Runs("del_conf")) /\ Req.tag = u
                    \/ Runs("wr_conf") /\ MarkAt(store, u)
                    \/ Runs("erase")
              \/ Reboot /\ ~store.sec[store.work].headed /\ ~store.lost
              \/ store.lost
<1>1. CASE UNCHANGED store /\ ~Reboot
  BY <1>1 DEF MarkAt
<1>2. CASE AppendConfig /\ ~Reboot
  <2>1. Runs("wr_conf") /\ AsyncTask /\ asked' = asked
    BY <1>2 DEF AppendConfig, AsyncTask
  <2>2. Req.tag \in Tags /\ Req.val \in Values
    BY <2>1, RequestArrived, RequestsAssumption DEF Runs
  <2>3. CASE store' \in Written(store, Req.tag, Req.val)
    BY <1>2, <2>1, <2>2, <2>3, WrittenStore
  <2>4. CASE store' \in Refused(store, Req.tag) /\ Ends("WRITE_ERR")
    BY <1>2, <2>1, <2>2, <2>4, RefusedStore
  <2>. QED BY <1>2, <2>3, <2>4 DEF AppendConfig
<1>3. CASE QueryConfig /\ ~Reboot
  <2>1. Runs("rd_conf")
    BY <1>3 DEF QueryConfig
  <2>2. Req.tag \in Tags
    BY <2>1, RequestArrived, RequestsAssumption DEF Runs
  <2>3. store' = store \/ store' \in Queried(store, Req.tag)
    BY <1>3 DEF QueryConfig
  <2>. QED BY <1>1, <1>3, <2>2, <2>3, QueriedStore DEF MarkAt
<1>4. CASE RemoveConfig /\ ~Reboot
  <2>1. Runs("del_conf") /\ AsyncTask /\ store' = Deleted(store, Req.tag)
    BY <1>4 DEF RemoveConfig, AsyncTask
  <2>2. Req.tag \in Tags
    BY <2>1, RequestArrived, RequestsAssumption DEF Runs
  <2>. QED BY <1>4, <2>1, <2>2, DeletedStore
<1>5. CASE EraseFlash /\ ~Reboot
  <2>1. Runs("erase") /\ AsyncTask /\ store' = Wiped(store, Req.sectors)
    BY <1>5 DEF EraseFlash, AsyncTask
  <2>. QED BY <1>5, <2>1, WipedStore
<1>6. CASE Reboot
  <2>1. PICK x \in Interrupted : store' = Mounted(x)
    BY <1>6 DEF Reboot
  <2>2. /\ x \in Store
        /\ \/ Runs("erase")
           \/ /\ Headed(x) = Headed(store)
              /\ \A u \in Tags : Records(x)[u] # Records(store)[u] =>
                   \/ (Runs("wr_conf") \/ Runs("del_conf")) /\ Req.tag = u
                   \/ Runs("wr_conf") /\ MarkAt(store, u)
    BY InterruptedStore
  <2>3. /\ store' \in Store /\ store'.mark = Nil
        /\ x.lost \/ Headed(x) => Records(store') = Records(x)
    BY <2>1, <2>2, MountedStore
  <2>4. \A u \in Tags : ~MarkAt(store', u)
    BY <2>3 DEF MarkAt
  <2>. QED BY <1>6, <2>2, <2>3, <2>4 DEF Headed
<1>7. PhoneConnects \/ PhoneLeaves \/ (\E r \in Requests : Arrives(r)) \/ Dropped
      \/ EpdTimer \/ UNCHANGED vars => UNCHANGED store
  BY DEF PhoneConnects, PhoneLeaves, Arrives, Dropped, EpdTimer, EpdCounts, EpdEnds, vars
<1>8. Dispatch => UNCHANGED store
  BY DEF Dispatch, UnknownOpcode, WriteDisplayRam, FlushScreen, ReadDisplayRam,
         ReadHardwareInfo, EraseFlashSector, WriteConfig, ReadConfig, DeleteConfig
<1>9. AsyncTask => AppendConfig \/ QueryConfig \/ RemoveConfig \/ EraseFlash \/ UNCHANGED store
  BY DEF AsyncTask, FlushDisplay, QueryOverruns
<1>. QED BY <1>1, <1>2, <1>3, <1>4, <1>5, <1>6, <1>7, <1>8, <1>9 DEF Next, Kernel, Phone

-----------------------------------------------------------------------------
(* The invariant of panel and records *)

KInv == PInv /\ QInv /\ PictureKept /\ told \in Nat /\ store \in Store

LEMMA KInit == Init => KInv
<1>. SUFFICES ASSUME Init PROVE KInv
  OBVIOUS
<1>1. PICK img \in Images, rest \in OpenRests : epd = EpdBoot(img, rest)
  BY DEF Init
<1>2. PictureKept
  BY <1>1, BootFacts DEF PictureKept
<1>. QED BY <1>2, PInit, FormattedStore DEF KInv, Init, QInv

LEMMA ToldNext == told \in Nat /\ QInv /\ [Next]_vars => told' \in Nat
<1>1. FlushDisplay \/ EpdCounts => told' = told
  BY DEF FlushDisplay, EpdCounts
<1>2. EpdEnds => told' \in {told, told + 1}
  BY DEF EpdEnds
<1>3. Reboot => told' = 0
  BY DEF Reboot
<1>4. told \in Nat => told + 1 \in Nat /\ 0 \in Nat
  OBVIOUS
<1>. QED BY <1>1, <1>2, <1>3, <1>4, PanelKinds

LEMMA KNext == KInv /\ [Next]_vars => KInv'
BY PNext, QNext, PictureNext, ToldNext, StoreKinds DEF KInv

LEMMA PanelInvariance == Spec => []KInv
BY KInit, KNext, PTL DEF Spec

(* However requests overlap, tasks are deleted and power is lost, a panel  *)
(* that refreshes has a busy driver, whose timer waits at least as long as *)
(* the refresh takes: no request lets epd_timer_callback() put the panel   *)
(* to sleep in the middle of a picture.                                    *)
THEOREM RefreshCoveredAlways == Spec => []RefreshCovered
<1>1. KInv => RefreshCovered
  BY DEF KInv, PInv
<1>. QED BY <1>1, PanelInvariance, PTL

(* Whenever epd_is_idle() says so, the panel is asleep, its pins are given *)
(* back and its timer is stopped, although every task that flushes opens   *)
(* the panel first and never closes it.                                    *)
THEOREM IdleIsAsleepAlways == Spec => []IdleIsAsleep
<1>1. KInv => IdleIsAsleep
  BY DEF KInv, PInv
<1>. QED BY <1>1, PanelInvariance, PTL

(* A phone that is told of the end of a refresh finds on the panel what    *)
(* the frame buffer holds, or a torn picture: no write comes in between.   *)
THEOREM DoneIsAlwaysShown == Spec => DoneIsShown
<1>1. KInv /\ [Next]_vars => [told' > told => epd'.shown \in {epd'.frame, Torn}]_vars
  <2>. SUFFICES ASSUME KInv, [Next]_vars, told' > told
                PROVE  epd'.shown \in {epd'.frame, Torn}
    OBVIOUS
  <2>1. PInv /\ QInv /\ PictureKept /\ told \in Nat
    BY DEF KInv
  <2>2. EpdEnds
    <3>1. told' # told /\ ~(0 > told)
      BY <2>1
    <3>2. ~FlushDisplay /\ ~EpdCounts /\ ~Reboot
      BY <3>1 DEF FlushDisplay, EpdCounts, Reboot
    <3>. QED BY <2>1, <3>1, <3>2, PanelKinds
  <2>3. epd.mode \in {"sleep", "ready", "refresh"}
    BY <2>1, Zenon DEF PInv, Epd
  <2>. QED BY <2>1, <2>2, <2>3, EndsPicture DEF PictureKept
<1>. QED BY <1>1, PanelInvariance, PTL DEF Spec, DoneIsShown

-----------------------------------------------------------------------------
(***************************************************************************)
(* The accounts of RequestHandler: tasks, answers, ends of a flush and     *)
(* records, however requests overlap.                                      *)
(*                                                                         *)
(* async_task_id is that of the newest task, and the message of the newest *)
(* task is the last of those that wait.  The account follows from these    *)
(* two facts: a task that runs gives back the newest id and not its own,   *)
(* so an older one costs at most one id and one answer, and each was made  *)
(* older by one overlap.                                                   *)
(***************************************************************************)

-----------------------------------------------------------------------------
(* The parts of the invariant *)

(* What was notified for a request *)
Notified(n) == {answers[n][i] : i \in 1..Len(answers[n])}

Typed ==
  /\ QInv
  /\ Len(asked) <= MaxRequests
  /\ tasks \in SUBSET TaskIds
  /\ async \in TaskIds \cup {NoTask}
  /\ answers \in Seq(Seq(Code)) /\ Len(answers) = Len(asked)
  /\ clashes \in Nat

(* A request has one message in the queue, and what its task has to say of *)
(* it is not said before the task has run.                                 *)
Done == {"OK", "WRITE_ERR"}

OneMessage == \A i, j \in 1..Len(queue) : queue[i].n = queue[j].n => i = j

PendingNotDone == \A i \in 1..Len(queue) : Done \cap Notified(queue[i].n) = {}

(* The last message that waits for a task is for the newest one. *)
NewestWaitsLast == \A i \in Waiting : (\A j \in Waiting : j <= i) => queue[i].to = async

(* The tasks but the newest one that is waited for are the price of        *)
(* overlaps, ...                                                           *)
IdsLost == Cardinality(IF Waiting = {} THEN tasks ELSE tasks \ {async}) <= clashes

(* ... and so are the answers that are missing or will be. *)
AnswersLost ==
  Cardinality(Unanswered) + Cardinality(Waiting)
    <= clashes + (IF Waiting # {} /\ async \in tasks THEN 1 ELSE 0)

NoOverlap == clashes = 0 => tasks = {queue[i].to : i \in Waiting}

(* An overlap is counted when a request is dispatched, which happens once. *)
Dispatched == {n \in 1..Len(asked) :
                 \A i \in 1..Len(queue) : queue[i].to = "profile" => queue[i].n # n}

ClashesCounted == clashes <= Cardinality(Dispatched)

(* While it is busy, no task of another flush is left, before a second     *)
(* overlap.                                                                *)
FlushesGuarded ==
  epd.status = "BUSY" /\ clashes <= 1 =>
    \A i \in Waiting : asked[queue[i].n].op = "flush" => queue[i].to \notin tasks

-----------------------------------------------------------------------------
(* The messages that wait for a task, in any queue *)

TaskMessages(q) == {i \in 1..Len(q) : q[i].to # "profile"}

LEMMA TaskMessagesFinite ==
  ASSUME NEW q, Len(q) \in Nat
  PROVE  IsFiniteSet(TaskMessages(q)) /\ Cardinality(TaskMessages(q)) \in Nat
<1>1. IsFiniteSet(1..Len(q))
  BY FS_Interval
<1>2. TaskMessages(q) \in SUBSET (1..Len(q))
  BY DEF TaskMessages
<1>3. IsFiniteSet(TaskMessages(q))
  BY <1>1, <1>2, FS_Subset
<1>. QED BY <1>3, FS_CardinalityType

(* All but the first one move up. *)
LEMMA TaskMessagesTail ==
  ASSUME NEW M, NEW q \in Seq(M), q # <<>>
  PROVE  Cardinality(TaskMessages(Tail(q))) =
           Cardinality(TaskMessages(q)) - (IF Head(q).to # "profile" THEN 1 ELSE 0)
<1>. DEFINE t == Tail(q)
            S == TaskMessages(q) \ {1}
            T == TaskMessages(t)
            f == [i \in S |-> i - 1]
<1>1. /\ Len(q) \in Nat /\ Len(q) >= 1 /\ Len(t) = Len(q) - 1
      /\ Head(q) = q[1]
      /\ \A i \in 1..Len(t) : t[i] = q[i + 1]
  BY HeadTailProperties, LenProperties, EmptySeq
<1>. HIDE DEF t
<1>2. f \in Bijection(S, T)
  <2>1. ASSUME NEW i \in S PROVE i \in 2..Len(q) /\ i - 1 \in T
    <3>1. i \in 2..Len(q) /\ q[i].to # "profile"
      BY <1>1 DEF TaskMessages
    <3>2. i - 1 \in 1..Len(t) /\ (i - 1) + 1 = i
      BY <1>1, <3>1
    <3>. QED BY <1>1, <3>1, <3>2 DEF TaskMessages
  <2>2. ASSUME NEW j \in T PROVE j + 1 \in S /\ (j + 1) - 1 = j
    <3>1. j \in 1..Len(t) /\ t[j].to # "profile"
      BY DEF TaskMessages
    <3>2. j + 1 \in 1..Len(q) /\ j + 1 # 1 /\ (j + 1) - 1 = j
      BY <1>1, <3>1
    <3>. QED BY <1>1, <3>1, <3>2 DEF TaskMessages
  <2>. HIDE DEF S, T
  <2>3. f \in [S -> T]
    BY <2>1
  <2>4. \A i, j \in S : f[i] = f[j] => i = j
    BY <2>1
  <2>5. \A j \in T : \E i \in S : f[i] = j
    BY <2>2
  <2>. HIDE DEF f
  <2>. QED BY <2>3, <2>4, <2>5 DEF Bijection, Injection, Surjection, IsInjective
<1>3. IsFiniteSet(TaskMessages(q)) /\ Cardinality(TaskMessages(q)) \in Nat
  BY <1>1, TaskMessagesFinite
<1>4. /\ IsFiniteSet(S)
      /\ Cardinality(S) = IF 1 \in TaskMessages(q) THEN Cardinality(TaskMessages(q)) - 1
                                                   ELSE Cardinality(TaskMessages(q))
  BY <1>3, FS_RemoveElement
<1>5. Cardinality(T) = Cardinality(S)
  <2>. HIDE DEF S, T, f
  <2>1. ExistsBijection(S, T)
    BY <1>2 DEF ExistsBijection
  <2>. QED BY <1>4, <2>1, FS_Bijection
<1>6. 1 \in TaskMessages(q) <=> Head(q).to # "profile"
  BY <1>1 DEF TaskMessages
<1>. QED BY <1>3, <1>4, <1>5, <1>6 DEF t

LEMMA TaskMessagesAppend ==
  ASSUME NEW M, NEW q \in Seq(M), NEW m \in M
  PROVE  /\ m.to = "profile" => TaskMessages(Append(q, m)) = TaskMessages(q)
         /\ m.to # "profile" =>
              /\ TaskMessages(Append(q, m)) = TaskMessages(q) \cup {Len(q) + 1}
              /\ Cardinality(TaskMessages(Append(q, m))) = Cardinality(TaskMessages(q)) + 1
<1>. DEFINE a == Append(q, m)
<1>1. /\ Len(q) \in Nat /\ Len(a) = Len(q) + 1
      /\ \A i \in 1..Len(q) : a[i] = q[i]
      /\ a[Len(q) + 1] = m
  BY AppendProperties, LenProperties
<1>. HIDE DEF a
<1>2. 1..Len(a) = (1..Len(q)) \cup {Len(q) + 1} /\ Len(q) + 1 \notin 1..Len(q)
  BY <1>1
<1>3. TaskMessages(a) = TaskMessages(q) \cup (IF m.to # "profile" THEN {Len(q) + 1} ELSE {})
  BY <1>1, <1>2 DEF TaskMessages
<1>4. CASE m.to = "profile"
  BY <1>3, <1>4 DEF a
<1>5. CASE m.to # "profile"
  <2>1. TaskMessages(a) = TaskMessages(q) \cup {Len(q) + 1}
    BY <1>3, <1>5
  <2>2. Len(q) + 1 \notin TaskMessages(q)
    BY <1>2 DEF TaskMessages
  <2>3. IsFiniteSet(TaskMessages(q))
    BY <1>1, TaskMessagesFinite
  <2>4. Cardinality(TaskMessages(a)) = Cardinality(TaskMessages(q)) + 1
    BY <2>1, <2>2, <2>3, FS_AddElement
  <2>. QED BY <1>5, <2>1, <2>4 DEF a
<1>. QED BY <1>4, <1>5

-----------------------------------------------------------------------------
(* What a step can do to requests, tasks and answers *)

requests == <<queue, tasks, async, asked, answers, clashes>>

Arriving == \E r \in Requests : Arrives(r)

(* A handler that answers at once, ... *)
Answering ==
  /\ queue # <<>> /\ Msg.to = "profile" /\ asked' = asked
  /\ \E codes \in Seq(Code) : /\ Replies(codes)
                              /\ codes # <<>> \/ Req.op = "unknown"

(* ... one that leaves that to a task, ... *)
Starting ==
  /\ queue # <<>> /\ Msg.to = "profile" /\ asked' = asked
  /\ Req.op = "flush" => EpdIsIdle(epd)
  /\ \E id \in TaskIds \ tasks :
       /\ tasks' = tasks \cup {id}
       /\ async' = id
       /\ queue' = Append(Tail(queue), [to |-> id, n |-> Msg.n])
  /\ clashes' = IF Waiting = {} THEN clashes ELSE clashes + 1
  /\ answers' = [answers EXCEPT ![Msg.n] = <<>>] \/ answers' = [answers EXCEPT ![Msg.n] = <<"LEN_ERR">>]

(* ... and a task. *)
Ending ==
  /\ queue # <<>> /\ Msg.to \in tasks /\ asked' = asked
  /\ \E code \in Code : Ends(code)

LEMMA CodeSeqs ==
  /\ <<>> \in Seq(Code) /\ <<"LEN_ERR">> \in Seq(Code)
  /\ \A code \in Code : <<code>> \in Seq(Code) /\ <<code>> # <<>>
  /\ \A s \in Seq(Code), code \in Code : Append(s, code) \in Seq(Code) /\ Append(s, code) # <<>>
BY DEF Code

LEMMA ReplyAnswers ==
  ASSUME NEW code \in Code, queue # <<>>, Msg.to = "profile", asked' = asked, Reply(code)
  PROVE  Answering
BY CodeSeqs DEF Answering, Reply

LEMMA StartsTaskSplits ==
  ASSUME queue # <<>>, Msg.to = "profile", asked' = asked,
         NEW said \in {<<>>, <<"LEN_ERR">>}, StartsTask(said, "TASK_ERR"),
         Req.op = "flush" => EpdIsIdle(epd)
  PROVE  Answering \/ Starting
<1>1. CASE Replies(Append(said, "TASK_ERR"))
  <2>1. "TASK_ERR" \in Code /\ said \in Seq(Code)
    BY CodeSeqs DEF Code
  <2>2. Append(said, "TASK_ERR") \in Seq(Code) /\ Append(said, "TASK_ERR") # <<>>
    BY <2>1, CodeSeqs
  <2>. QED BY <1>1, <2>2 DEF Answering
<1>2. CASE ~Replies(Append(said, "TASK_ERR"))
  BY <1>2 DEF StartsTask, Starting
<1>. QED BY <1>1, <1>2

LEMMA DispatchKinds == QInv /\ Dispatch => Answering \/ Starting
<1>. SUFFICES ASSUME QInv, Dispatch PROVE Answering \/ Starting
  OBVIOUS
<1>1. queue # <<>> /\ Msg.to = "profile" /\ asked' = asked
  BY DEF Dispatch, Handles, UnknownOpcode, WriteDisplayRam, FlushScreen, ReadDisplayRam,
         ReadHardwareInfo, EraseFlashSector, WriteConfig, ReadConfig, DeleteConfig
<1>2. /\ Req \in Requests
      /\ {"OK", "PACKET_ERR", "OFFSET_ERR", "LENGTH_ERR", "EPD_BUSY", "ADDRESS_ERR", "LEN_ERR",
          "NOT_EXIST"} \subseteq Code
  BY <1>1, RequestArrived DEF Code
<1>3. CASE UnknownOpcode
  BY <1>1, <1>3, CodeSeqs DEF UnknownOpcode, Answering, Handles
<1>4. CASE WriteDisplayRam
  <2>1. EpdWriteResult(Req.place) \in Code
    BY <1>2 DEF EpdWriteResult
  <2>. QED BY <1>1, <1>2, <1>4, <2>1, ReplyAnswers DEF WriteDisplayRam
<1>5. CASE FlushScreen
  BY <1>1, <1>2, <1>5, ReplyAnswers, StartsTaskSplits DEF FlushScreen
<1>6. CASE ReadDisplayRam
  BY <1>1, <1>2, <1>6, ReplyAnswers DEF ReadDisplayRam
<1>7. CASE ReadHardwareInfo
  BY <1>1, <1>2, <1>7, ReplyAnswers DEF ReadHardwareInfo
<1>8. CASE EraseFlashSector
  <2>1. Req.op = "erase" /\ Req.range \in {"ok", "ADDRESS_ERR", "LENGTH_ERR"}
    BY <1>2, <1>8, RequestsAssumption DEF EraseFlashSector, Handles
  <2>. QED BY <1>1, <1>2, <1>8, <2>1, ReplyAnswers, StartsTaskSplits DEF EraseFlashSector
<1>9. CASE WriteConfig
  <2>1. Req.op = "wr_conf"
    BY <1>9 DEF WriteConfig, Handles
  <2>. QED BY <1>1, <1>9, <2>1, StartsTaskSplits DEF WriteConfig
<1>10. CASE ReadConfig
  <2>1. Req.op = "rd_conf"
    BY <1>10 DEF ReadConfig, Handles
  <2>. QED BY <1>1, <1>2, <1>10, <2>1, ReplyAnswers, StartsTaskSplits DEF ReadConfig
<1>11. CASE DeleteConfig
  <2>1. Req.op = "del_conf"
    BY <1>11 DEF DeleteConfig, Handles
  <2>. QED BY <1>1, <1>11, <2>1, StartsTaskSplits DEF DeleteConfig
<1>. QED BY <1>3, <1>4, <1>5, <1>6, <1>7, <1>8, <1>9, <1>10, <1>11 DEF Dispatch

LEMMA TaskKinds == AsyncTask => Ending \/ UNCHANGED requests
<1>. SUFFICES ASSUME AsyncTask, ~QueryOverruns PROVE Ending
  BY DEF QueryOverruns, requests
<1>1. queue # <<>> /\ Msg.to \in tasks /\ asked' = asked
  BY DEF AsyncTask, Runs, FlushDisplay, EraseFlash, AppendConfig, QueryConfig, RemoveConfig
<1>2. {"OK", "WRITE_ERR", "NOT_EXIST"} \subseteq Code
  BY DEF Code
<1>3. \E code \in {"OK", "WRITE_ERR", "NOT_EXIST"} : Ends(code)
  BY DEF AsyncTask, FlushDisplay, EraseFlash, AppendConfig, QueryConfig, RemoveConfig
<1>. QED BY <1>1, <1>2, <1>3 DEF Ending

LEMMA StepKinds ==
  QInv /\ [Next]_vars =>
    Arriving \/ Answering \/ Starting \/ Ending \/ Dropped \/ Reboot \/ UNCHANGED requests
<1>1. PhoneConnects \/ PhoneLeaves \/ EpdTimer \/ UNCHANGED vars => UNCHANGED requests
  BY DEF PhoneConnects, PhoneLeaves, EpdTimer, EpdCounts, EpdEnds, vars, service, requests
<1>. QED BY <1>1, DispatchKinds, TaskKinds DEF Next, Kernel, Phone, Arriving

-----------------------------------------------------------------------------
(* The queue, position by position *)

LEMMA QueueHead ==
  ASSUME QInv, queue # <<>>
  PROVE  /\ Len(queue) \in Nat /\ Len(queue) >= 1
         /\ Msg = queue[1]
         /\ Msg.n \in 1..Len(asked) /\ Msg.to \in TaskIds \cup {"profile"}
         /\ \A i \in 1..Len(queue) : queue[i].n \in 1..Len(asked)
         /\ Len(asked) \in Nat
<1>. DEFINE M == [to : TaskIds \cup {"profile"}, n : 1..Len(asked)]
<1>1. queue \in Seq(M)
  BY DEF QInv
<1>2. Len(asked) \in Nat
  BY DEF QInv
<1>. HIDE DEF M
<1>3. /\ Len(queue) \in Nat /\ Len(queue) >= 1 /\ Head(queue) = queue[1]
      /\ \A i \in 1..Len(queue) : queue[i] \in M
  BY <1>1, ElementOfSeq, EmptySeq, LenProperties, HeadTailProperties
<1>. QED BY <1>2, <1>3 DEF M, Msg

LEMMA QueueTail ==
  ASSUME QInv, queue # <<>>
  PROVE  /\ Len(Tail(queue)) = Len(queue) - 1
         /\ \A i \in 1..Len(Tail(queue)) : Tail(queue)[i] = queue[i + 1] /\ i + 1 \in 2..Len(queue)
         /\ \A j \in 2..Len(queue) : j - 1 \in 1..Len(Tail(queue)) /\ Tail(queue)[j - 1] = queue[j]
<1>. DEFINE t == Tail(queue)
<1>1. Len(queue) \in Nat /\ Len(queue) >= 1
  BY QueueHead
<1>2. Len(t) = Len(queue) - 1 /\ \A i \in 1..Len(t) : t[i] = queue[i + 1]
  BY HeadTailProperties DEF QInv
<1>. HIDE DEF t
<1>3. ASSUME NEW j \in 2..Len(queue) PROVE j - 1 \in 1..Len(t) /\ t[j - 1] = queue[j]
  <2>1. j - 1 \in 1..Len(t) /\ (j - 1) + 1 = j
    BY <1>1, <1>2
  <2>. QED BY <1>2, <2>1
<1>4. \A i \in 1..Len(t) : i + 1 \in 2..Len(queue)
  BY <1>1, <1>2
<1>. QED BY <1>2, <1>3, <1>4 DEF t

LEMMA QueuePosted ==
  ASSUME QInv, queue # <<>>, NEW id \in TaskIds,
         queue' = Append(Tail(queue), [to |-> id, n |-> Msg.n])
  PROVE  /\ Len(queue') = Len(queue)
         /\ \A i \in 1..(Len(queue) - 1) : queue'[i] = queue[i + 1] /\ i + 1 \in 2..Len(queue)
         /\ queue'[Len(queue)] = [to |-> id, n |-> Msg.n]
<1>. DEFINE M == [to : TaskIds \cup {"profile"}, n : 1..Len(asked)]
            t == Tail(queue)
            m == [to |-> id, n |-> Msg.n]
<1>1. /\ Len(queue) \in Nat /\ Len(queue) >= 1 /\ Len(t) = Len(queue) - 1
      /\ \A i \in 1..Len(t) : t[i] = queue[i + 1] /\ i + 1 \in 2..Len(queue)
  BY QueueHead, QueueTail
<1>2. t \in Seq(M) /\ m \in M
  <2>1. m \in M
    BY QueueHead
  <2>2. queue \in Seq(M)
    BY DEF QInv
  <2>. HIDE DEF M
  <2>. QED BY <2>1, <2>2, HeadTailProperties
<1>. HIDE DEF M, t, m
<1>3. queue' = Append(t, m)
  BY DEF t, m
<1>4. /\ Len(queue') = Len(t) + 1 /\ queue'[Len(t) + 1] = m
      /\ \A i \in 1..Len(t) : queue'[i] = t[i]
  <2>1. /\ Len(Append(t, m)) = Len(t) + 1 /\ Append(t, m)[Len(t) + 1] = m
        /\ \A i \in 1..Len(t) : Append(t, m)[i] = t[i]
    BY <1>2, AppendProperties
  <2>. QED BY <1>3, <2>1
<1>5. Len(t) + 1 = Len(queue)
  BY <1>1
<1>. QED BY <1>1, <1>4, <1>5 DEF m

LEMMA QueueArrived ==
  ASSUME QInv, NEW r, Arrives(r)
  PROVE  /\ Len(asked) \in Nat /\ Len(asked') = Len(asked) + 1
         /\ \A n \in 1..Len(asked) : asked'[n] = asked[n]
         /\ asked'[Len(asked) + 1] = r
         /\ Len(queue) \in Nat /\ Len(queue') = Len(queue) + 1
         /\ \A i \in 1..Len(queue) : queue'[i] = queue[i] /\ queue[i].n \in 1..Len(asked)
         /\ queue'[Len(queue) + 1] = [to |-> "profile", n |-> Len(asked) + 1]
<1>. DEFINE M == [to : TaskIds \cup {"profile"}, n : 1..Len(asked)]
            m == [to |-> "profile", n |-> Len(asked) + 1]
<1>1. /\ asked' = Append(asked, r) /\ queue' = Append(queue, m)
      /\ asked \in Seq(Requests) /\ queue \in Seq(M)
  BY DEF Arrives, QInv
<1>. HIDE DEF m, M
<1>2. /\ Len(asked) \in Nat /\ Len(asked') = Len(asked) + 1
      /\ \A n \in 1..Len(asked) : asked'[n] = asked[n]
      /\ asked'[Len(asked) + 1] = r
  BY <1>1
<1>3. /\ Len(queue) \in Nat /\ Len(queue') = Len(queue) + 1
      /\ \A i \in 1..Len(queue) : queue'[i] = queue[i] /\ queue[i] \in M
      /\ queue'[Len(queue) + 1] = m
  BY <1>1
<1>. QED BY <1>2, <1>3 DEF m, M

-----------------------------------------------------------------------------
(* The types *)

LEMMA AnswersArrive ==
  ASSUME Typed, NEW r, Arrives(r)
  PROVE  /\ answers' \in Seq(Seq(Code)) /\ Len(answers') = Len(asked')
         /\ \A n \in 1..Len(asked) : answers'[n] = answers[n]
         /\ answers'[Len(asked) + 1] = <<>>
<1>1. answers \in Seq(Seq(Code)) /\ Len(answers) = Len(asked) /\ answers' = Append(answers, <<>>)
  BY DEF Typed, Arrives
<1>2. <<>> \in Seq(Code)
  BY CodeSeqs
<1>3. /\ answers' \in Seq(Seq(Code)) /\ Len(answers') = Len(answers) + 1
      /\ \A n \in 1..Len(answers) : answers'[n] = answers[n]
      /\ answers'[Len(answers) + 1] = <<>>
  <2>. DEFINE S == Seq(Code)
  <2>. HIDE DEF S
  <2>1. answers \in Seq(S) /\ <<>> \in S
    BY <1>1, <1>2 DEF S
  <2>2. /\ answers' \in Seq(S) /\ Len(answers') = Len(answers) + 1
        /\ \A n \in 1..Len(answers) : answers'[n] = answers[n]
        /\ answers'[Len(answers) + 1] = <<>>
    BY <1>1, <2>1, AppendProperties
  <2>. QED BY <2>2 DEF S
<1>4. Len(asked') = Len(asked) + 1
  BY QueueArrived DEF Typed
<1>. QED BY <1>1, <1>3, <1>4

(* An answer replaces what was said before on the request of the message. *)
LEMMA AnswersChange ==
  ASSUME Typed, queue # <<>>, NEW codes \in Seq(Code),
         answers' = [answers EXCEPT ![Msg.n] = codes]
  PROVE  /\ answers' \in Seq(Seq(Code)) /\ Len(answers') = Len(asked)
         /\ answers'[Msg.n] = codes
         /\ \A n \in 1..Len(asked) : n # Msg.n => answers'[n] = answers[n]
<1>. DEFINE S == Seq(Code)
<1>1. answers \in Seq(S) /\ Len(answers) = Len(asked) /\ Msg.n \in 1..Len(asked) /\ codes \in S
  BY QueueHead DEF Typed
<1>. HIDE DEF S
<1>2. answers \in [1..Len(asked) -> S] /\ Len(asked) \in Nat
  BY <1>1, LenProperties
<1>3. /\ answers' \in [1..Len(asked) -> S] /\ answers'[Msg.n] = codes
      /\ \A n \in 1..Len(asked) : n # Msg.n => answers'[n] = answers[n]
  BY <1>1, <1>2
<1>4. answers' \in Seq(S) /\ Len(answers') = Len(asked)
  BY <1>2, <1>3, SeqDef, LenProperties
<1>. QED BY <1>3, <1>4 DEF S

LEMMA EndingAnswers ==
  ASSUME Typed, Ending
  PROVE  \E code \in Code : \E codes \in Seq(Code) :
           /\ codes = Append(answers[Msg.n], code) /\ codes # <<>>
           /\ Ends(code)
           /\ answers' = [answers EXCEPT ![Msg.n] = codes]
<1>1. PICK code \in Code : Ends(code)
  BY DEF Ending
<1>2. answers[Msg.n] \in Seq(Code)
  BY QueueHead, ElementOfSeq DEF Typed, Ending
<1>3. Append(answers[Msg.n], code) \in Seq(Code) /\ Append(answers[Msg.n], code) # <<>>
  BY <1>2, CodeSeqs
<1>. QED BY <1>1, <1>3 DEF Ends

(* In each of these steps the request at the head of the queue gets codes. *)
LEMMA AnswersFollow ==
  ASSUME Typed, Answering \/ Starting \/ Ending
  PROVE  /\ queue # <<>> /\ asked' = asked
         /\ \E codes \in Seq(Code) : answers' = [answers EXCEPT ![Msg.n] = codes]
BY EndingAnswers, CodeSeqs DEF Answering, Starting, Ending, Replies

LEMMA TypedNext == Typed /\ [Next]_vars => Typed'
<1>. SUFFICES ASSUME Typed, [Next]_vars PROVE Typed'
  OBVIOUS
<1>1. QInv'
  BY QNext DEF Typed
<1>2. QInv
  BY DEF Typed
<1>3. CASE Arriving
  <2>1. PICK r \in Requests : Arrives(r)
    BY <1>3 DEF Arriving
  <2>2. Len(asked') <= MaxRequests
    BY <1>2, <2>1, QueueArrived, RequestsAssumption DEF Arrives
  <2>. QED BY <1>1, <2>1, <2>2, AnswersArrive DEF Typed, Arrives
<1>4. CASE Answering \/ Starting \/ Ending
  <2>1. answers' \in Seq(Seq(Code)) /\ Len(answers') = Len(asked') /\ asked' = asked
    BY <1>4, AnswersFollow, AnswersChange
  <2>2. /\ tasks' \in SUBSET TaskIds /\ async' \in TaskIds \cup {NoTask}
        /\ clashes' \in Nat
    <3>1. CASE Answering
      BY <3>1 DEF Typed, Answering, Replies
    <3>2. CASE Starting
      BY <3>2 DEF Typed, Starting
    <3>3. CASE Ending
      BY <3>3 DEF Typed, Ending, Ends
    <3>. QED BY <1>4, <3>1, <3>2, <3>3
  <2>. QED BY <1>1, <2>1, <2>2 DEF Typed
<1>5. CASE Dropped
  BY <1>1, <1>5 DEF Typed, Dropped
<1>6. CASE Reboot
  BY <1>1, <1>6, RequestsAssumption DEF Typed, Reboot
<1>7. CASE UNCHANGED requests
  BY <1>1, <1>7 DEF Typed, requests
<1>. QED BY <1>2, <1>3, <1>4, <1>5, <1>6, <1>7, StepKinds

-----------------------------------------------------------------------------
(* A request has one message, and one that is pending is not done.         *)

LEMMA OneMessageNext == Typed /\ OneMessage /\ [Next]_vars => OneMessage'
<1>. SUFFICES ASSUME Typed, OneMessage, [Next]_vars PROVE OneMessage'
  OBVIOUS
<1>1. QInv
  BY DEF Typed
<1>2. CASE Arriving
  <2>1. PICK r \in Requests : Arrives(r)
    BY <1>2 DEF Arriving
  <2>2. /\ Len(asked) \in Nat /\ Len(queue) \in Nat /\ Len(queue') = Len(queue) + 1
        /\ \A i \in 1..Len(queue) : queue'[i] = queue[i] /\ queue[i].n \in 1..Len(asked)
        /\ queue'[Len(queue) + 1].n = Len(asked) + 1
    BY <1>1, <2>1, QueueArrived
  <2>3. \A i \in 1..Len(queue') : i \in 1..Len(queue) \/ i = Len(queue) + 1
    BY <2>2
  <2>4. \A n \in 1..Len(asked) : n # Len(asked) + 1
    BY <2>2
  <2>. QED BY <2>2, <2>3, <2>4 DEF OneMessage
<1>3. ASSUME queue # <<>>, queue' = Tail(queue) PROVE OneMessage'
  <2>1. \A i, j \in 1..Len(Tail(queue)) : i + 1 = j + 1 => i = j
    BY <1>1, <1>3, QueueHead, QueueTail
  <2>2. \A i \in 1..Len(Tail(queue)) : Tail(queue)[i] = queue[i + 1] /\ i + 1 \in 1..Len(queue)
    BY <1>1, <1>3, QueueHead, QueueTail
  <2>. QED BY <1>3, <2>1, <2>2 DEF OneMessage
<1>4. CASE Starting
  <2>1. PICK id \in TaskIds : queue' = Append(Tail(queue), [to |-> id, n |-> Msg.n])
    BY <1>4 DEF Starting
  <2>2. queue # <<>>
    BY <1>4 DEF Starting
  <2>3. /\ Len(queue) \in Nat /\ Len(queue') = Len(queue) /\ Len(queue) >= 1 /\ Msg = queue[1]
        /\ \A i \in 1..(Len(queue) - 1) : queue'[i] = queue[i + 1] /\ i + 1 \in 2..Len(queue)
        /\ queue'[Len(queue)].n = Msg.n
    BY <1>1, <2>1, <2>2, QueueHead, QueuePosted
  <2>4. \A i \in 1..Len(queue) : i \in 1..(Len(queue) - 1) \/ i = Len(queue)
    BY <2>3
  <2>5. 1 \in 1..Len(queue) /\ \A i \in 2..Len(queue) : i \in 1..Len(queue) /\ i # 1
    BY <2>3
  <2>6. \A i \in 2..Len(queue) : queue[i].n # Msg.n
    BY <2>3, <2>5 DEF OneMessage
  <2>7. \A i, j \in 1..(Len(queue) - 1) : i + 1 = j + 1 => i = j
    BY <2>3
  <2>. QED BY <2>3, <2>4, <2>5, <2>6, <2>7 DEF OneMessage
<1>5. CASE UNCHANGED queue
  BY <1>5 DEF OneMessage
<1>6. CASE Reboot
  BY <1>6 DEF Reboot, OneMessage
<1>. QED BY <1>1, <1>2, <1>3, <1>4, <1>5, <1>6, StepKinds
         DEF Answering, Replies, Ending, Ends, Dropped, requests

(* The other messages are about other requests. *)
LEMMA OthersPending ==
  ASSUME QInv, OneMessage, queue # <<>>
  PROVE  \A i \in 1..Len(Tail(queue)) : Tail(queue)[i].n # Msg.n
<1>1. /\ Len(queue) \in Nat /\ Len(queue) >= 1 /\ Msg = queue[1]
  BY QueueHead
<1>2. 1 \in 1..Len(queue) /\ \A i \in 2..Len(queue) : i \in 1..Len(queue) /\ i # 1
  BY <1>1
<1>3. \A i \in 2..Len(queue) : queue[i].n # Msg.n
  BY <1>1, <1>2 DEF OneMessage
<1>. QED BY <1>3, QueueTail

LEMMA PendingNext ==
  Typed /\ OneMessage /\ PendingNotDone /\ [Next]_vars => PendingNotDone'
<1>. SUFFICES ASSUME Typed, OneMessage, PendingNotDone, [Next]_vars PROVE PendingNotDone'
  OBVIOUS
<1>1. QInv
  BY DEF Typed
<1>2. CASE Arriving
  <2>1. PICK r \in Requests : Arrives(r)
    BY <1>2 DEF Arriving
  <2>2. /\ Len(queue) \in Nat /\ Len(queue') = Len(queue) + 1
        /\ \A i \in 1..Len(queue) : queue'[i] = queue[i] /\ queue[i].n \in 1..Len(asked)
        /\ queue'[Len(queue) + 1].n = Len(asked) + 1
        /\ \A n \in 1..Len(asked) : answers'[n] = answers[n]
        /\ answers'[Len(asked) + 1] = <<>>
    BY <1>1, <2>1, QueueArrived, AnswersArrive
  <2>3. \A i \in 1..Len(queue') : i \in 1..Len(queue) \/ i = Len(queue) + 1
    BY <2>2
  <2>4. ASSUME NEW i \in 1..Len(queue') PROVE Done \cap Notified(queue[i].n)' = {}
    <3>1. CASE i \in 1..Len(queue)
      BY <2>2, <3>1 DEF PendingNotDone, Notified
    <3>2. CASE i = Len(queue) + 1
      <4>1. answers'[queue'[i].n] = <<>> /\ Len(<<>>) = 0
        BY <2>2, <3>2
      <4>. QED BY <4>1 DEF Notified
    <3>. QED BY <2>3, <3>1, <3>2
  <2>. QED BY <2>4 DEF PendingNotDone
<1>3. ASSUME queue # <<>>, queue' = Tail(queue), answers' = answers PROVE PendingNotDone'
  <2>1. \A i \in 1..Len(Tail(queue)) : Tail(queue)[i] = queue[i + 1] /\ i + 1 \in 1..Len(queue)
    BY <1>1, <1>3, QueueHead, QueueTail
  <2>. QED BY <1>3, <2>1 DEF PendingNotDone, Notified
<1>4. CASE Answering \/ Ending
  <2>1. queue # <<>> /\ queue' = Tail(queue)
    BY <1>4 DEF Answering, Ending, Replies, Ends
  <2>2. \A n \in 1..Len(asked) : n # Msg.n => answers'[n] = answers[n]
    BY <1>4, AnswersFollow, AnswersChange
  <2>3. \A i \in 1..Len(Tail(queue)) :
          /\ Tail(queue)[i] = queue[i + 1] /\ i + 1 \in 1..Len(queue)
          /\ queue[i + 1].n \in 1..Len(asked) /\ queue[i + 1].n # Msg.n
    BY <1>1, <2>1, QueueHead, QueueTail, OthersPending
  <2>. QED BY <2>1, <2>2, <2>3 DEF PendingNotDone, Notified
<1>5. CASE Starting
  <2>1. PICK id \in TaskIds : queue' = Append(Tail(queue), [to |-> id, n |-> Msg.n])
    BY <1>5 DEF Starting
  <2>2. queue # <<>>
    BY <1>5 DEF Starting
  <2>3. /\ Len(queue) \in Nat /\ Len(queue') = Len(queue) /\ Len(queue) >= 1
        /\ Len(Tail(queue)) = Len(queue) - 1
        /\ \A i \in 1..(Len(queue) - 1) : queue'[i] = queue[i + 1] /\ i + 1 \in 1..Len(queue)
        /\ queue'[Len(queue)].n = Msg.n
    BY <1>1, <2>1, <2>2, QueueHead, QueueTail, QueuePosted
  <2>4. \A i \in 1..Len(queue) : i \in 1..(Len(queue) - 1) \/ i = Len(queue)
    BY <2>3
  <2>5. \A n \in 1..Len(asked) : n # Msg.n => answers'[n] = answers[n]
    BY <1>5, AnswersFollow, AnswersChange
  <2>6. \A i \in 1..(Len(queue) - 1) : queue[i + 1].n \in 1..Len(asked) /\ queue[i + 1].n # Msg.n
    <3>1. \A i \in 1..(Len(queue) - 1) : queue[i + 1].n \in 1..Len(asked)
      BY <1>1, <2>2, <2>3, QueueHead
    <3>2. \A i \in 1..(Len(queue) - 1) : Tail(queue)[i] = queue[i + 1] /\ Tail(queue)[i].n # Msg.n
      BY <1>1, <2>2, <2>3, QueueTail, OthersPending
    <3>. QED BY <3>1, <3>2
  <2>7. answers'[Msg.n] \in {<<>>, <<"LEN_ERR">>}
    BY <1>5, CodeSeqs, AnswersChange DEF Starting
  <2>8. ASSUME NEW i \in 1..Len(queue') PROVE Done \cap Notified(queue[i].n)' = {}
    <3>1. CASE i = Len(queue)
      BY <2>3, <2>7, <3>1 DEF Notified, Done
    <3>2. CASE i \in 1..(Len(queue) - 1)
      <4>1. queue'[i] = queue[i + 1] /\ Done \cap Notified(queue[i + 1].n) = {}
        BY <2>3, <3>2 DEF PendingNotDone
      <4>2. answers'[queue'[i].n] = answers[queue[i + 1].n]
        BY <2>5, <2>6, <3>2, <4>1
      <4>. QED BY <4>1, <4>2 DEF Notified
    <3>. QED BY <2>3, <2>4, <3>1, <3>2
  <2>. QED BY <2>8 DEF PendingNotDone
<1>6. CASE UNCHANGED requests
  BY <1>6 DEF PendingNotDone, Notified, requests
<1>7. CASE Reboot
  BY <1>7 DEF Reboot, PendingNotDone
<1>. QED BY <1>1, <1>2, <1>3, <1>4, <1>5, <1>6, <1>7, StepKinds DEF Dropped

-----------------------------------------------------------------------------
(* Overlaps: what they leave behind of tasks, and which answers they cost. *)

LEMMA WaitingIs == Waiting = TaskMessages(queue)
BY DEF Waiting, TaskMessages

LEMMA WaitingCount ==
  ASSUME QInv
  PROVE  /\ IsFiniteSet(Waiting) /\ Cardinality(Waiting) \in Nat
         /\ Cardinality(Waiting) = 0 <=> Waiting = {}
<1>1. Len(queue) \in Nat
  BY LenProperties DEF QInv
<1>2. IsFiniteSet(Waiting) /\ Cardinality(Waiting) \in Nat
  BY <1>1, TaskMessagesFinite, WaitingIs
<1>. QED BY <1>2, FS_EmptySet

LEMMA WaitingFinite ==
  ASSUME Typed'
  PROVE  IsFiniteSet(Waiting') /\ Cardinality(Waiting') \in Nat
<1>1. Len(queue') \in Nat
  BY LenProperties DEF Typed, QInv
<1>2. IsFiniteSet(TaskMessages(queue')) /\ Cardinality(TaskMessages(queue')) \in Nat
  BY <1>1, TaskMessagesFinite
<1>3. Waiting' = TaskMessages(queue')
  BY DEF Waiting, TaskMessages
<1>. QED BY <1>2, <1>3

LEMMA WaitingTail ==
  ASSUME QInv, queue # <<>>, queue' = Tail(queue)
  PROVE  /\ \A i \in Waiting' : i + 1 \in Waiting /\ queue'[i] = queue[i + 1]
         /\ \A j \in Waiting : j = 1 \/ (j - 1 \in Waiting' /\ queue'[j - 1] = queue[j])
         /\ 1 \in Waiting <=> Msg.to # "profile"
         /\ Cardinality(Waiting') =
              Cardinality(Waiting) - (IF Msg.to # "profile" THEN 1 ELSE 0)
<1>. DEFINE M == [to : TaskIds \cup {"profile"}, n : 1..Len(asked)]
<1>1. /\ Len(queue) \in Nat /\ Len(queue) >= 1 /\ Msg = queue[1]
      /\ Len(queue') = Len(queue) - 1
      /\ \A i \in 1..Len(queue') : queue'[i] = queue[i + 1] /\ i + 1 \in 2..Len(queue)
      /\ \A j \in 2..Len(queue) : j - 1 \in 1..Len(queue') /\ queue'[j - 1] = queue[j]
  BY QueueHead, QueueTail
<1>2. 2..Len(queue) \subseteq 1..Len(queue) /\ 1 \in 1..Len(queue)
  BY <1>1
<1>3. \A j \in 1..Len(queue) : j = 1 \/ j \in 2..Len(queue)
  BY <1>1
<1>4. \A i \in Waiting' : i + 1 \in Waiting /\ queue'[i] = queue[i + 1]
  BY <1>1, <1>2 DEF Waiting
<1>5. \A j \in Waiting : j = 1 \/ (j - 1 \in Waiting' /\ queue'[j - 1] = queue[j])
  BY <1>1, <1>3 DEF Waiting
<1>6. 1 \in Waiting <=> Msg.to # "profile"
  BY <1>1, <1>2 DEF Waiting
<1>7. queue \in Seq(M)
  BY DEF QInv
<1>. HIDE DEF M
<1>8. Cardinality(TaskMessages(Tail(queue))) =
        Cardinality(TaskMessages(queue)) - (IF Msg.to # "profile" THEN 1 ELSE 0)
  BY <1>7, TaskMessagesTail DEF Msg
<1>9. Waiting' = TaskMessages(Tail(queue))
  BY DEF Waiting, TaskMessages
<1>. QED BY <1>4, <1>5, <1>6, <1>8, <1>9, WaitingIs

LEMMA WaitingPosted ==
  ASSUME QInv, queue # <<>>, Msg.to = "profile", NEW id \in TaskIds,
         queue' = Append(Tail(queue), [to |-> id, n |-> Msg.n])
  PROVE  /\ Len(queue) \in Waiting' /\ queue'[Len(queue)] = [to |-> id, n |-> Msg.n]
         /\ \A i \in Waiting' : i = Len(queue) \/ (i + 1 \in Waiting /\ queue'[i] = queue[i + 1])
         /\ \A j \in Waiting : j - 1 \in Waiting' /\ queue'[j - 1] = queue[j]
         /\ \A i \in Waiting' : i <= Len(queue)
         /\ Cardinality(Waiting') = Cardinality(Waiting) + 1
<1>. DEFINE M == [to : TaskIds \cup {"profile"}, n : 1..Len(asked)]
            m == [to |-> id, n |-> Msg.n]
            t == Tail(queue)
<1>1. /\ Len(queue) \in Nat /\ Len(queue) >= 1 /\ Msg = queue[1]
      /\ Len(queue') = Len(queue)
      /\ \A i \in 1..(Len(queue) - 1) : queue'[i] = queue[i + 1] /\ i + 1 \in 2..Len(queue)
      /\ queue'[Len(queue)] = [to |-> id, n |-> Msg.n]
  BY QueueHead, QueuePosted
<1>2. id # "profile"
  BY RequestsAssumption
<1>3. /\ Len(queue) \in 1..Len(queue')
      /\ \A i \in 1..Len(queue') : i = Len(queue) \/ i \in 1..(Len(queue) - 1)
      /\ \A j \in 1..Len(queue) :
           j = 1 \/ (j - 1 \in 1..(Len(queue) - 1) /\ j - 1 \in 1..Len(queue') /\ (j - 1) + 1 = j)
      /\ 2..Len(queue) \subseteq 1..Len(queue)
  <2>1. ASSUME NEW L \in Nat, L >= 1
        PROVE  /\ L \in 1..L
               /\ \A i \in 1..L : i = L \/ i \in 1..(L - 1)
               /\ \A j \in 1..L : j = 1 \/ (j - 1 \in 1..(L - 1) /\ j - 1 \in 1..L /\ (j - 1) + 1 = j)
               /\ 2..L \subseteq 1..L
    BY <2>1
  <2>. QED BY <1>1, <2>1
<1>4. Len(queue) \in Waiting'
  <2>1. queue'[Len(queue)].to # "profile"
    BY <1>1, <1>2
  <2>. QED BY <1>3, <2>1 DEF Waiting
<1>5. \A i \in Waiting' : i = Len(queue) \/ (i + 1 \in Waiting /\ queue'[i] = queue[i + 1])
  BY <1>1, <1>3 DEF Waiting
<1>6. ASSUME NEW j \in Waiting PROVE j - 1 \in Waiting' /\ queue'[j - 1] = queue[j]
  <2>1. j \in 1..Len(queue) /\ queue[j].to # "profile"
    BY DEF Waiting
  <2>2. j # 1
    BY <1>1, <2>1
  <2>3. j - 1 \in 1..(Len(queue) - 1) /\ j - 1 \in 1..Len(queue') /\ (j - 1) + 1 = j
    BY <1>3, <2>1, <2>2
  <2>4. queue'[j - 1] = queue[j]
    BY <1>1, <2>3
  <2>. QED BY <2>1, <2>3, <2>4 DEF Waiting
<1>7. \A i \in Waiting' : i <= Len(queue)
  <2>1. \A i \in Waiting' : i \in 1..Len(queue)
    BY <1>1 DEF Waiting
  <2>. QED BY <1>1, <2>1
<1>8. Cardinality(TaskMessages(Append(t, m))) = Cardinality(TaskMessages(t)) + 1
  <2>1. m \in M
    BY QueueHead
  <2>2. queue \in Seq(M)
    BY DEF QInv
  <2>3. m.to # "profile"
    BY <1>2
  <2>. HIDE DEF M, m
  <2>. QED BY <2>1, <2>2, <2>3, HeadTailProperties, TaskMessagesAppend
<1>9. Cardinality(TaskMessages(t)) = Cardinality(TaskMessages(queue))
  <2>1. queue \in Seq(M)
    BY DEF QInv
  <2>2. Cardinality(TaskMessages(queue)) \in Nat
    BY <1>1, TaskMessagesFinite
  <2>. HIDE DEF M
  <2>. QED BY <2>1, <2>2, TaskMessagesTail DEF Msg
<1>10. Waiting' = TaskMessages(Append(t, m))
  BY DEF Waiting, TaskMessages
<1>. QED BY <1>1, <1>4, <1>5, <1>6, <1>7, <1>8, <1>9, <1>10, WaitingIs

LEMMA WaitingArrived ==
  ASSUME QInv, NEW r, Arrives(r)
  PROVE  /\ Waiting' = Waiting
         /\ \A i \in Waiting : queue'[i] = queue[i]
<1>1. /\ Len(queue) \in Nat /\ Len(queue') = Len(queue) + 1
      /\ \A i \in 1..Len(queue) : queue'[i] = queue[i]
      /\ queue'[Len(queue) + 1].to = "profile"
  BY QueueArrived
<1>2. 1..Len(queue') = (1..Len(queue)) \cup {Len(queue) + 1}
  BY <1>1
<1>. QED BY <1>1, <1>2 DEF Waiting

LEMMA UnansweredCount ==
  ASSUME Typed
  PROVE  IsFiniteSet(Unanswered) /\ Cardinality(Unanswered) \in Nat
<1>1. Len(asked) \in Nat
  BY LenProperties DEF Typed, QInv
<1>2. IsFiniteSet(1..Len(asked))
  BY <1>1, FS_Interval
<1>3. Unanswered \in SUBSET (1..Len(asked))
  BY DEF Unanswered
<1>. QED BY <1>2, <1>3, FS_Subset, FS_CardinalityType

LEMMA PendingTail ==
  ASSUME QInv, queue # <<>>, queue' = Tail(queue)
  PROVE  Pending \subseteq Pending' \cup {Msg.n}
<1>1. /\ Len(queue) \in Nat /\ Len(queue) >= 1 /\ Msg = queue[1]
      /\ \A j \in 2..Len(queue) : j - 1 \in 1..Len(queue') /\ queue'[j - 1] = queue[j]
  BY QueueHead, QueueTail
<1>2. \A j \in 1..Len(queue) : j = 1 \/ j \in 2..Len(queue)
  BY <1>1
<1>. QED BY <1>1, <1>2 DEF Pending

(* No step but a lost message leaves a request without its answer. *)
LEMMA UnansweredShrinks ==
  ASSUME Typed, Arriving \/ Answering \/ Starting \/ Ending
  PROVE  Unanswered' \subseteq Unanswered
<1>1. QInv
  BY DEF Typed
<1>2. CASE Arriving
  <2>1. PICK r \in Requests : Arrives(r)
    BY <1>2 DEF Arriving
  <2>2. /\ Len(queue) \in Nat /\ Len(queue') = Len(queue) + 1
        /\ Len(asked) \in Nat /\ Len(asked') = Len(asked) + 1
        /\ \A i \in 1..Len(queue) : queue'[i] = queue[i] /\ queue[i].n \in 1..Len(asked)
        /\ queue'[Len(queue) + 1].n = Len(asked) + 1
        /\ \A n \in 1..Len(asked) : answers'[n] = answers[n] /\ asked'[n] = asked[n]
    BY <1>1, <2>1, QueueArrived, AnswersArrive
  <2>3. 1..Len(queue') = (1..Len(queue)) \cup {Len(queue) + 1}
    BY <2>2
  <2>4. 1..Len(asked') = (1..Len(asked)) \cup {Len(asked) + 1}
    BY <2>2
  <2>5. Pending \subseteq Pending' /\ Len(asked) + 1 \in Pending'
    BY <2>2, <2>3 DEF Pending
  <2>. QED BY <2>2, <2>4, <2>5 DEF Unanswered
<1>3. CASE Answering \/ Ending
  <2>1. PICK codes \in Seq(Code) :
          /\ answers' = [answers EXCEPT ![Msg.n] = codes]
          /\ codes # <<>> \/ Req.op = "unknown"
    BY <1>3, EndingAnswers DEF Answering, Replies
  <2>2. queue # <<>> /\ queue' = Tail(queue) /\ asked' = asked
    BY <1>3 DEF Answering, Ending, Replies, Ends
  <2>3. /\ answers'[Msg.n] = codes
        /\ \A n \in 1..Len(asked) : n # Msg.n => answers'[n] = answers[n]
    BY <2>1, <2>2, AnswersChange
  <2>4. Pending \subseteq Pending' \cup {Msg.n}
    BY <1>1, <2>2, PendingTail
  <2>. QED BY <2>1, <2>2, <2>3, <2>4 DEF Unanswered, Req
<1>4. CASE Starting
  <2>1. PICK id \in TaskIds : queue' = Append(Tail(queue), [to |-> id, n |-> Msg.n])
    BY <1>4 DEF Starting
  <2>2. queue # <<>> /\ asked' = asked
    BY <1>4 DEF Starting
  <2>3. /\ Len(queue) \in Nat /\ Len(queue) >= 1 /\ Msg = queue[1] /\ Len(queue') = Len(queue)
        /\ \A i \in 1..(Len(queue) - 1) : queue'[i] = queue[i + 1]
        /\ queue'[Len(queue)].n = Msg.n
    BY <1>1, <2>1, <2>2, QueueHead, QueuePosted
  <2>4. \A n \in 1..Len(asked) : n # Msg.n => answers'[n] = answers[n]
    BY <1>4, AnswersFollow, AnswersChange
  <2>5. Msg.n \in Pending'
    BY <2>3 DEF Pending
  <2>6. ASSUME NEW j \in 1..Len(queue) PROVE queue[j].n \in Pending'
    <3>1. CASE j = 1
      BY <2>3, <2>5, <3>1
    <3>2. CASE j # 1
      <4>1. j - 1 \in 1..(Len(queue) - 1) /\ j - 1 \in 1..Len(queue') /\ (j - 1) + 1 = j
        BY <2>3, <3>2
      <4>. QED BY <2>3, <4>1 DEF Pending
    <3>. QED BY <3>1, <3>2
  <2>7. Pending \subseteq Pending'
    BY <2>6 DEF Pending
  <2>. QED BY <2>2, <2>4, <2>5, <2>7 DEF Unanswered
<1>. QED BY <1>2, <1>3, <1>4

LEMMA UnansweredFewer ==
  ASSUME Typed, Arriving \/ Answering \/ Starting \/ Ending
  PROVE  /\ Cardinality(Unanswered') \in Nat
         /\ Cardinality(Unanswered') <= Cardinality(Unanswered)
<1>1. Unanswered' \in SUBSET Unanswered
  BY UnansweredShrinks
<1>. QED BY <1>1, UnansweredCount, FS_Subset, FS_CardinalityType

LEMMA UnansweredDropped ==
  ASSUME Typed, Dropped
  PROVE  Unanswered' \subseteq Unanswered \cup {Msg.n}
BY PendingTail DEF Typed, Dropped, Unanswered

OverlapInv == NewestWaitsLast /\ IdsLost /\ AnswersLost /\ NoOverlap

LEMMA TasksCount ==
  ASSUME Typed, NEW id
  PROVE  /\ IsFiniteSet(tasks) /\ Cardinality(tasks) \in Nat
         /\ IsFiniteSet(tasks \ {id}) /\ Cardinality(tasks \ {id}) \in Nat
         /\ Cardinality(tasks) =
              Cardinality(tasks \ {id}) + (IF id \in tasks THEN 1 ELSE 0)
<1>1. IsFiniteSet(tasks)
  BY RequestsAssumption, FS_Subset DEF Typed
<1>2. Cardinality(tasks) \in Nat
  BY <1>1, FS_CardinalityType
<1>3. /\ IsFiniteSet(tasks \ {id})
      /\ Cardinality(tasks \ {id}) =
           IF id \in tasks THEN Cardinality(tasks) - 1 ELSE Cardinality(tasks)
  BY <1>1, FS_RemoveElement
<1>4. Cardinality(tasks \ {id}) \in Nat
  BY <1>3, FS_CardinalityType
<1>. QED BY <1>1, <1>2, <1>3, <1>4

(* Without overlaps one message waits at most. *)
LEMMA OneWaits ==
  ASSUME Typed, AnswersLost, clashes = 0
  PROVE  Cardinality(Waiting) <= 1 /\ \A i, j \in Waiting : i = j
<1>1. /\ IsFiniteSet(Waiting) /\ Cardinality(Waiting) \in Nat
      /\ Cardinality(Waiting) = 0 <=> Waiting = {}
  BY WaitingCount DEF Typed
<1>2. Cardinality(Unanswered) \in Nat
  BY UnansweredCount
<1>3. Cardinality(Waiting) <= 1
  BY <1>1, <1>2 DEF AnswersLost
<1>4. Cardinality(Waiting) = 1 => \E x : Waiting = {x}
  BY <1>1, FS_Singleton
<1>5. Cardinality(Waiting) = 0 \/ Cardinality(Waiting) = 1
  BY <1>1, <1>3
<1>. QED BY <1>1, <1>3, <1>4, <1>5

(* The last message that waits is for the newest task. *)
LEMMA LastIsNewest ==
  ASSUME QInv, NewestWaitsLast, queue # <<>>, queue' = Tail(queue), Msg.to # "profile",
         Waiting' = {}
  PROVE  Msg.to = async
<1>1. 1 \in Waiting /\ \A j \in Waiting : j = 1
  BY WaitingTail
<1>2. queue[1].to = async
  <2>1. \A j \in Waiting : j <= 1
    BY <1>1
  <2>. QED BY <1>1, <2>1 DEF NewestWaitsLast
<1>. QED BY <1>2, QueueHead

LEMMA OverlapArriving ==
  ASSUME Typed, OverlapInv, Arriving
  PROVE  OverlapInv'
<1>1. PICK r \in Requests : Arrives(r)
  BY DEF Arriving
<1>2. /\ Waiting' = Waiting
      /\ \A i \in Waiting : queue'[i] = queue[i]
      /\ UNCHANGED <<tasks, async, clashes>>
  BY <1>1, WaitingArrived DEF Typed, Arrives
<1>3. Cardinality(Unanswered') <= Cardinality(Unanswered)
  BY UnansweredFewer
<1>5. /\ Cardinality(Unanswered) \in Nat /\ Cardinality(Unanswered') \in Nat
      /\ Cardinality(Waiting) \in Nat /\ clashes \in Nat
  BY UnansweredCount, UnansweredFewer, WaitingCount DEF Typed
<1>6. AnswersLost'
  BY <1>2, <1>3, <1>5 DEF OverlapInv, AnswersLost
<1>7. NewestWaitsLast' /\ IdsLost' /\ NoOverlap'
  BY <1>2 DEF OverlapInv, NewestWaitsLast, IdsLost, NoOverlap
<1>. QED BY <1>6, <1>7 DEF OverlapInv

(* A message leaves the queue that was not for a task: nothing changes. *)
LEMMA OverlapAnswering ==
  ASSUME Typed, Typed', OverlapInv, Answering
  PROVE  OverlapInv'
<1>1. /\ queue # <<>> /\ queue' = Tail(queue) /\ Msg.to = "profile"
      /\ UNCHANGED <<tasks, async, clashes>>
  BY DEF Answering, Replies
<1>2. /\ \A i \in Waiting' : i + 1 \in Waiting /\ queue'[i] = queue[i + 1]
      /\ \A j \in Waiting : j - 1 \in Waiting' /\ queue'[j - 1] = queue[j]
      /\ Cardinality(Waiting') = Cardinality(Waiting)
  <2>1. /\ \A i \in Waiting' : i + 1 \in Waiting /\ queue'[i] = queue[i + 1]
        /\ \A j \in Waiting : j = 1 \/ (j - 1 \in Waiting' /\ queue'[j - 1] = queue[j])
        /\ 1 \notin Waiting
        /\ Cardinality(Waiting') = Cardinality(Waiting) - 0
    BY <1>1, WaitingTail DEF Typed
  <2>2. Cardinality(Waiting) \in Nat
    BY WaitingCount DEF Typed
  <2>. QED BY <2>1, <2>2
<1>3. Waiting' = {} <=> Waiting = {}
  BY <1>2
<1>4. Cardinality(Unanswered') <= Cardinality(Unanswered)
  BY UnansweredFewer
<1>5. /\ Cardinality(Unanswered) \in Nat /\ Cardinality(Unanswered') \in Nat
      /\ Cardinality(Waiting) \in Nat /\ clashes \in Nat
  BY UnansweredCount, UnansweredFewer, WaitingCount DEF Typed
<1>6. AnswersLost'
  BY <1>1, <1>2, <1>3, <1>4, <1>5 DEF OverlapInv, AnswersLost
<1>7. ASSUME NEW i \in Waiting', \A j \in Waiting' : j <= i PROVE queue'[i].to = async'
  <2>1. ASSUME NEW j \in Waiting PROVE j <= i + 1
    <3>1. j - 1 \in Waiting'
      BY <1>2
    <3>2. j \in Int /\ i \in Int
      BY DEF Waiting
    <3>3. j - 1 <= i
      BY <1>7, <3>1
    <3>. QED BY <3>2, <3>3
  <2>. QED BY <1>1, <1>2, <2>1 DEF OverlapInv, NewestWaitsLast
<1>8. {queue[j].to : j \in Waiting}' = {queue[j].to : j \in Waiting}
  BY <1>2
<1>9. IdsLost' /\ NoOverlap'
  BY <1>1, <1>3, <1>8 DEF OverlapInv, IdsLost, NoOverlap
<1>. QED BY <1>6, <1>7, <1>9 DEF OverlapInv, NewestWaitsLast

(* A new task: an overlap, if another one waits. *)
LEMMA OverlapStarting ==
  ASSUME Typed, Typed', OverlapInv, Starting
  PROVE  OverlapInv'
<1>1. PICK id \in TaskIds \ tasks :
        /\ tasks' = tasks \cup {id} /\ async' = id
        /\ queue' = Append(Tail(queue), [to |-> id, n |-> Msg.n])
  BY DEF Starting
<1>2. /\ queue # <<>> /\ Msg.to = "profile"
      /\ clashes' = IF Waiting = {} THEN clashes ELSE clashes + 1
  BY DEF Starting
<1>3. /\ Len(queue) \in Waiting' /\ queue'[Len(queue)] = [to |-> id, n |-> Msg.n]
      /\ \A i \in Waiting' : i = Len(queue) \/ (i + 1 \in Waiting /\ queue'[i] = queue[i + 1])
      /\ \A i \in Waiting' : i <= Len(queue)
      /\ Cardinality(Waiting') = Cardinality(Waiting) + 1
  BY <1>1, <1>2, WaitingPosted DEF Typed
<1>4. Cardinality(Unanswered') <= Cardinality(Unanswered)
  BY UnansweredFewer
<1>5. /\ Cardinality(Unanswered) \in Nat /\ Cardinality(Unanswered') \in Nat
      /\ Cardinality(Waiting) \in Nat /\ clashes \in Nat
      /\ Cardinality(Waiting) = 0 <=> Waiting = {}
  BY UnansweredCount, UnansweredFewer, WaitingCount DEF Typed
<1>6. AnswersLost'
  <2>1. Waiting' # {} /\ async' \in tasks'
    BY <1>1, <1>3
  <2>2. Cardinality(Unanswered) + Cardinality(Waiting) + 1 <= clashes' + 1
    BY <1>2, <1>5 DEF OverlapInv, AnswersLost
  <2>3. Cardinality(Unanswered') + Cardinality(Waiting') <= clashes' + 1
    BY <1>2, <1>3, <1>4, <1>5, <2>2
  <2>. QED BY <2>1, <2>3 DEF AnswersLost
<1>7. ASSUME NEW i \in Waiting', \A j \in Waiting' : j <= i PROVE queue'[i].to = async'
  <2>1. Len(queue) <= i /\ i <= Len(queue) /\ i \in Int /\ Len(queue) \in Int
    BY <1>2, <1>3, <1>7, QueueHead DEF Waiting, Typed
  <2>2. i = Len(queue)
    BY <2>1
  <2>3. queue'[i].to = id
    BY <1>3, <2>2
  <2>. QED BY <1>1, <2>3
<1>8. IdsLost'
  <2>1. Waiting' # {} /\ tasks' \ {async'} = tasks
    BY <1>1, <1>3
  <2>2. /\ Cardinality(tasks) \in Nat /\ Cardinality(tasks \ {async}) \in Nat
        /\ Cardinality(tasks) <= Cardinality(tasks \ {async}) + 1
    BY TasksCount
  <2>3. Cardinality(tasks) <= clashes'
    BY <1>2, <1>5, <2>2 DEF OverlapInv, IdsLost
  <2>. QED BY <2>1, <2>3 DEF IdsLost
<1>9. ASSUME clashes' = 0 PROVE tasks' = {queue[j].to : j \in Waiting}'
  <2>1. Waiting = {} /\ clashes = 0
    BY <1>2, <1>5, <1>9
  <2>2. tasks = {}
    BY <2>1 DEF OverlapInv, NoOverlap
  <2>3. Waiting' = {Len(queue)}
    BY <1>3, <2>1
  <2>4. queue'[Len(queue)].to = id
    BY <1>3
  <2>. QED BY <1>1, <2>2, <2>3, <2>4
<1>. QED BY <1>6, <1>7, <1>8, <1>9 DEF OverlapInv, NewestWaitsLast, NoOverlap

(* The newest of the messages that stay is the newest. *)
LEMMA NewestStays ==
  ASSUME Typed, OverlapInv, queue # <<>>, queue' = Tail(queue), async' = async
  PROVE  NewestWaitsLast'
<1>1. /\ \A i \in Waiting' : i + 1 \in Waiting /\ queue'[i] = queue[i + 1]
      /\ \A j \in Waiting : j = 1 \/ (j - 1 \in Waiting' /\ queue'[j - 1] = queue[j])
  BY WaitingTail DEF Typed
<1>2. ASSUME NEW i \in Waiting', \A j \in Waiting' : j <= i PROVE queue'[i].to = async'
  <2>1. ASSUME NEW j \in Waiting PROVE j <= i + 1
    <3>1. j \in Int /\ i \in Int /\ i >= 1
      BY DEF Waiting
    <3>2. CASE j = 1
      BY <3>1, <3>2
    <3>3. CASE j # 1
      <4>1. j - 1 <= i
        BY <1>1, <1>2, <3>3
      <4>. QED BY <3>1, <4>1
    <3>. QED BY <3>2, <3>3
  <2>. QED BY <1>1, <2>1 DEF OverlapInv, NewestWaitsLast
<1>. QED BY <1>2 DEF NewestWaitsLast

(* A task runs, and deletes the newest. *)
LEMMA OverlapEnding ==
  ASSUME Typed, Typed', OverlapInv, Ending
  PROVE  OverlapInv'
<1>1. /\ queue # <<>> /\ queue' = Tail(queue) /\ Msg.to \in tasks
      /\ tasks' = tasks \ {async} /\ UNCHANGED <<async, clashes>>
  BY DEF Ending, Ends
<1>2. Msg.to # "profile"
  BY <1>1, RequestsAssumption DEF Typed
<1>3. /\ 1 \in Waiting /\ Cardinality(Waiting') = Cardinality(Waiting) - 1
      /\ \A j \in Waiting : j = 1 \/ (j - 1 \in Waiting' /\ queue'[j - 1] = queue[j])
      /\ \A i \in Waiting' : i + 1 \in Waiting /\ queue'[i] = queue[i + 1]
  BY <1>1, <1>2, WaitingTail DEF Typed
<1>4. Cardinality(Unanswered') <= Cardinality(Unanswered)
  BY UnansweredFewer
<1>5. /\ Cardinality(Unanswered) \in Nat /\ Cardinality(Unanswered') \in Nat
      /\ Cardinality(Waiting) \in Nat /\ clashes \in Nat
  BY UnansweredCount, UnansweredFewer, WaitingCount DEF Typed
<1>6. AnswersLost'
  <2>1. async' \notin tasks'
    BY <1>1
  <2>2. Cardinality(Unanswered) + Cardinality(Waiting) <= clashes + 1
    BY <1>5 DEF OverlapInv, AnswersLost
  <2>3. Cardinality(Unanswered') + Cardinality(Waiting') <= clashes' + 0
    BY <1>1, <1>3, <1>4, <1>5, <2>2
  <2>. QED BY <2>1, <2>3 DEF AnswersLost
<1>7. IdsLost'
  <2>1. Cardinality(tasks \ {async}) <= clashes
    BY <1>3 DEF OverlapInv, IdsLost
  <2>2. tasks' \ {async'} = tasks'
    BY <1>1
  <2>. QED BY <1>1, <2>1, <2>2 DEF IdsLost
<1>8. NewestWaitsLast'
  BY <1>1, NewestStays
<1>9. ASSUME clashes' = 0 PROVE tasks' = {queue[j].to : j \in Waiting}'
  <2>1. \A i, j \in Waiting : i = j
    BY <1>1, <1>9, OneWaits DEF OverlapInv
  <2>2. Waiting = {1}
    BY <1>3, <2>1
  <2>3. Waiting' = {}
    <3>1. ASSUME NEW i \in Waiting' PROVE FALSE
      <4>1. i + 1 = 1 /\ i \in Nat /\ i >= 1
        BY <1>3, <2>2 DEF Waiting
      <4>. QED BY <4>1
    <3>. QED BY <3>1
  <2>4. tasks = {Msg.to} /\ Msg.to = async
    <3>1. Msg = queue[1]
      BY <1>1, QueueHead DEF Typed
    <3>2. tasks = {queue[1].to}
      BY <1>1, <1>9, <2>2 DEF OverlapInv, NoOverlap
    <3>. QED BY <1>1, <1>2, <2>3, <3>1, <3>2, LastIsNewest DEF OverlapInv, Typed
  <2>. QED BY <1>1, <2>3, <2>4
<1>. QED BY <1>6, <1>7, <1>8, <1>9 DEF OverlapInv, NoOverlap

(* A message is lost: its task was deleted by another one. *)
LEMMA OverlapDropped ==
  ASSUME Typed, Typed', OverlapInv, Dropped
  PROVE  OverlapInv'
<1>1. /\ queue # <<>> /\ queue' = Tail(queue) /\ Msg.to \notin tasks /\ Msg.to # "profile"
      /\ UNCHANGED <<tasks, async, clashes>>
  BY DEF Dropped
<1>2. /\ 1 \in Waiting /\ Cardinality(Waiting') = Cardinality(Waiting) - 1
  BY <1>1, WaitingTail DEF Typed
<1>3. /\ Cardinality(Unanswered) \in Nat
      /\ Cardinality(Waiting) \in Nat /\ clashes \in Nat
  BY UnansweredCount, WaitingCount DEF Typed
<1>4. /\ Cardinality(Unanswered') \in Nat
      /\ Cardinality(Unanswered') <= Cardinality(Unanswered) + 1
  <2>1. IsFiniteSet(Unanswered)
    BY UnansweredCount
  <2>2. /\ IsFiniteSet(Unanswered \cup {Msg.n})
        /\ Cardinality(Unanswered \cup {Msg.n}) <= Cardinality(Unanswered) + 1
    BY <1>3, <2>1, FS_AddElement
  <2>3. /\ Cardinality(Unanswered') <= Cardinality(Unanswered \cup {Msg.n})
        /\ Cardinality(Unanswered') \in Nat
    BY <2>2, UnansweredDropped, FS_Subset, FS_CardinalityType
  <2>4. Cardinality(Unanswered \cup {Msg.n}) \in Nat
    BY <2>2, FS_CardinalityType
  <2>. QED BY <1>3, <2>2, <2>3, <2>4
<1>5. Waiting' = {} => async \notin tasks
  BY <1>1, LastIsNewest DEF OverlapInv, Typed
<1>6. AnswersLost'
  <2>1. Cardinality(Unanswered) + Cardinality(Waiting)
          <= clashes + (IF async \in tasks THEN 1 ELSE 0)
    BY <1>2 DEF OverlapInv, AnswersLost
  <2>2. Cardinality(Unanswered') + Cardinality(Waiting')
          <= Cardinality(Unanswered) + Cardinality(Waiting)
    BY <1>2, <1>3, <1>4
  <2>3. Waiting' # {} /\ async \in tasks <=> async \in tasks
    BY <1>5
  <2>4. Cardinality(Waiting') \in Int
    BY <1>2, <1>3
  <2>5. Cardinality(Unanswered') + Cardinality(Waiting')
          <= clashes + (IF async \in tasks THEN 1 ELSE 0)
    BY <1>3, <1>4, <2>1, <2>2, <2>4
  <2>. QED BY <1>1, <2>3, <2>5 DEF AnswersLost
<1>7. IdsLost'
  <2>1. Cardinality(tasks \ {async}) <= clashes
    BY <1>2 DEF OverlapInv, IdsLost
  <2>2. Waiting' = {} => tasks \ {async} = tasks
    BY <1>5
  <2>. QED BY <1>1, <2>1, <2>2 DEF IdsLost
<1>8. NewestWaitsLast'
  BY <1>1, NewestStays
<1>9. clashes # 0
  <2>1. SUFFICES ASSUME clashes = 0 PROVE FALSE
    OBVIOUS
  <2>2. queue[1].to \in tasks
    BY <1>2, <2>1 DEF OverlapInv, NoOverlap
  <2>. QED BY <1>1, <2>2, QueueHead DEF Typed
<1>. QED BY <1>1, <1>6, <1>7, <1>8, <1>9 DEF OverlapInv, NoOverlap

LEMMA OverlapInit ==
  ASSUME queue = <<>>, tasks = {}, clashes = 0, asked = <<>>
  PROVE  OverlapInv
<1>1. Waiting = {} /\ Unanswered = {}
  BY DEF Waiting, Unanswered
<1>2. NewestWaitsLast /\ NoOverlap
  BY <1>1 DEF NewestWaitsLast, NoOverlap
<1>3. IdsLost /\ AnswersLost
  BY <1>1, FS_EmptySet DEF IdsLost, AnswersLost
<1>. QED BY <1>2, <1>3 DEF OverlapInv

LEMMA OverlapNext == Typed /\ OverlapInv /\ [Next]_vars => OverlapInv'
<1>. SUFFICES ASSUME Typed, OverlapInv, [Next]_vars PROVE OverlapInv'
  OBVIOUS
<1>1. Typed'
  BY TypedNext
<1>2. CASE Reboot
  <2>1. queue' = <<>> /\ tasks' = {} /\ clashes' = 0 /\ asked' = <<>>
    BY <1>2 DEF Reboot
  <2>2. Waiting' = {} /\ Unanswered' = {}
    BY <2>1 DEF Waiting, Unanswered
  <2>. QED BY <2>1, <2>2, FS_EmptySet
           DEF OverlapInv, NewestWaitsLast, NoOverlap, IdsLost, AnswersLost
<1>3. CASE UNCHANGED requests
  BY <1>3 DEF requests, OverlapInv, NewestWaitsLast, NoOverlap, IdsLost, AnswersLost,
              Waiting, Unanswered, Pending
<1>. QED BY <1>1, <1>2, <1>3, StepKinds, OverlapArriving, OverlapAnswering, OverlapStarting,
            OverlapEnding, OverlapDropped DEF Typed

-----------------------------------------------------------------------------
(* An overlap is counted once for the request that makes it. *)

LEMMA IntervalCount == \A k \in Nat : IsFiniteSet(1..k) /\ Cardinality(1..k) = k
<1>. SUFFICES ASSUME NEW k \in Nat PROVE IsFiniteSet(1..k) /\ Cardinality(1..k) = k
  OBVIOUS
<1>1. IsFiniteSet(1..k) /\ Cardinality(1..k) = IF 1 > k THEN 0 ELSE k - 1 + 1
  BY FS_Interval
<1>2. (IF 1 > k THEN 0 ELSE k - 1 + 1) = k
  OBVIOUS
<1>. QED BY <1>1, <1>2

LEMMA CountedWithin ==
  ASSUME NEW k \in Nat, NEW S \in SUBSET (1..k)
  PROVE  IsFiniteSet(S) /\ Cardinality(S) \in Nat /\ Cardinality(S) <= k
<1>1. IsFiniteSet(1..k) /\ Cardinality(1..k) = k
  BY IntervalCount
<1>2. IsFiniteSet(S) /\ Cardinality(S) <= k
  BY <1>1, FS_Subset
<1>. QED BY <1>2, FS_CardinalityType

LEMMA DispatchedCount ==
  ASSUME QInv
  PROVE  /\ IsFiniteSet(Dispatched) /\ Cardinality(Dispatched) \in Nat
         /\ Cardinality(Dispatched) <= Len(asked)
BY CountedWithin, LenProperties DEF QInv, Dispatched

LEMMA DispatchedFinite ==
  ASSUME Typed'
  PROVE  IsFiniteSet(Dispatched') /\ Cardinality(Dispatched') \in Nat
<1>1. Len(asked') \in Nat
  BY LenProperties DEF Typed, QInv
<1>2. Dispatched' \in SUBSET (1..Len(asked'))
  BY DEF Dispatched
<1>. QED BY <1>1, <1>2, CountedWithin

LEMMA ClashesNext ==
  Typed /\ OneMessage /\ ClashesCounted /\ [Next]_vars => ClashesCounted'
<1>. SUFFICES ASSUME Typed, OneMessage, ClashesCounted, [Next]_vars PROVE ClashesCounted'
  OBVIOUS
<1>1. /\ QInv /\ clashes \in Nat
      /\ IsFiniteSet(Dispatched) /\ Cardinality(Dispatched) \in Nat
      /\ IsFiniteSet(Dispatched') /\ Cardinality(Dispatched') \in Nat
  BY DispatchedCount, DispatchedFinite, TypedNext DEF Typed
<1>2. ASSUME Dispatched \subseteq Dispatched', clashes' = clashes PROVE ClashesCounted'
  <2>1. Cardinality(Dispatched) <= Cardinality(Dispatched')
    BY <1>1, <1>2, FS_Subset
  <2>. QED BY <1>1, <1>2, <2>1 DEF ClashesCounted
<1>3. CASE Arriving
  <2>1. PICK r \in Requests : Arrives(r)
    BY <1>3 DEF Arriving
  <2>2. /\ Len(queue) \in Nat /\ Len(queue') = Len(queue) + 1
        /\ Len(asked) \in Nat /\ Len(asked') = Len(asked) + 1
        /\ \A i \in 1..Len(queue) : queue'[i] = queue[i]
        /\ queue'[Len(queue) + 1].n = Len(asked) + 1
    BY <1>1, <2>1, QueueArrived
  <2>3. 1..Len(queue') = (1..Len(queue)) \cup {Len(queue) + 1}
    BY <2>2
  <2>4. 1..Len(asked) \subseteq 1..Len(asked') /\ \A n \in 1..Len(asked) : n # Len(asked) + 1
    BY <2>2
  <2>5. Dispatched \subseteq Dispatched'
    BY <2>2, <2>3, <2>4 DEF Dispatched
  <2>. QED BY <1>2, <2>1, <2>5 DEF Arrives
<1>4. ASSUME queue # <<>>, queue' = Tail(queue), asked' = asked PROVE Dispatched \subseteq Dispatched'
  <2>1. /\ \A i \in 1..Len(queue') : queue'[i] = queue[i + 1] /\ i + 1 \in 2..Len(queue)
        /\ \A i \in 2..Len(queue) : i \in 1..Len(queue)
    BY <1>1, <1>4, QueueHead, QueueTail
  <2>. QED BY <1>4, <2>1 DEF Dispatched
<1>5. CASE Starting
  <2>1. PICK id \in TaskIds \ tasks : queue' = Append(Tail(queue), [to |-> id, n |-> Msg.n])
    BY <1>5 DEF Starting
  <2>2. queue # <<>> /\ Msg.to = "profile" /\ asked' = asked /\ id # "profile"
    BY <1>5, RequestsAssumption DEF Starting
  <2>3. /\ Len(queue) \in Nat /\ Len(queue) >= 1 /\ Msg = queue[1]
        /\ Len(queue') = Len(queue) /\ Len(Tail(queue)) = Len(queue) - 1
        /\ \A i \in 1..(Len(queue) - 1) :
             /\ queue'[i] = queue[i + 1] /\ i + 1 \in 1..Len(queue)
             /\ queue[i + 1].n # Msg.n
        /\ queue'[Len(queue)].to = id
        /\ Msg.n \in 1..Len(asked)
    <3>1. /\ Len(queue) \in Nat /\ Len(queue) >= 1 /\ Msg = queue[1] /\ Msg.n \in 1..Len(asked)
      BY <1>1, <2>2, QueueHead
    <3>2. /\ Len(queue') = Len(queue) /\ queue'[Len(queue)].to = id
          /\ \A i \in 1..(Len(queue) - 1) : queue'[i] = queue[i + 1] /\ i + 1 \in 1..Len(queue)
      BY <1>1, <2>1, <2>2, <3>1, QueuePosted
    <3>3. /\ Len(Tail(queue)) = Len(queue) - 1
          /\ \A i \in 1..(Len(queue) - 1) : Tail(queue)[i] = queue[i + 1]
      BY <1>1, <2>2, <3>1, QueueTail
    <3>4. \A i \in 1..(Len(queue) - 1) : Tail(queue)[i].n # Msg.n
      BY <1>1, <2>2, <3>3, OthersPending
    <3>. QED BY <3>1, <3>2, <3>3, <3>4
  <2>4. /\ 1 \in 1..Len(queue)
        /\ \A i \in 1..Len(queue) : i \in 1..(Len(queue) - 1) \/ i = Len(queue)
    BY <2>3
  <2>5. Msg.n \notin Dispatched
    BY <2>2, <2>3, <2>4 DEF Dispatched
  <2>6. Dispatched \cup {Msg.n} \subseteq Dispatched'
    BY <2>2, <2>3, <2>4 DEF Dispatched
  <2>7. Cardinality(Dispatched \cup {Msg.n}) = Cardinality(Dispatched) + 1
    BY <1>1, <2>5, FS_AddElement
  <2>8. Cardinality(Dispatched \cup {Msg.n}) <= Cardinality(Dispatched')
    BY <1>1, <2>6, FS_Subset
  <2>9. clashes' <= clashes + 1 /\ clashes' \in Nat
    BY <1>1, <1>5 DEF Starting
  <2>. QED BY <1>1, <2>7, <2>8, <2>9 DEF ClashesCounted
<1>6. CASE Answering \/ Ending \/ Dropped
  BY <1>2, <1>4, <1>6 DEF Answering, Replies, Ending, Ends, Dropped
<1>7. CASE UNCHANGED requests
  BY <1>2, <1>7 DEF requests, Dispatched
<1>8. CASE Reboot
  BY <1>1, <1>8 DEF Reboot, ClashesCounted
<1>. QED BY <1>1, <1>3, <1>5, <1>6, <1>7, <1>8, StepKinds

-----------------------------------------------------------------------------
(* What the panel shows, and who is told of it. *)

LEMMA FlushesCount ==
  ASSUME QInv
  PROVE  /\ IsFiniteSet(FlushesOk) /\ Cardinality(FlushesOk) \in Nat
         /\ Cardinality(FlushesOk) <= Len(asked)
BY CountedWithin, LenProperties DEF QInv, FlushesOk

LEMMA FlushesFinite ==
  ASSUME Typed'
  PROVE  IsFiniteSet(FlushesOk') /\ Cardinality(FlushesOk') \in Nat
<1>1. Len(asked') \in Nat
  BY LenProperties DEF Typed, QInv
<1>2. FlushesOk' \in SUBSET (1..Len(asked'))
  BY DEF FlushesOk
<1>. QED BY <1>1, <1>2, CountedWithin

LEMMA FlushesOkIs == FlushesOk = {n \in 1..Len(asked) : asked[n].op = "flush" /\ "OK" \in Notified(n)}
BY DEF FlushesOk, Notified

(* A flush that was answered OK stays so. *)
LEMMA FlushesGrow ==
  ASSUME Typed, PendingNotDone, [Next]_vars, ~Reboot
  PROVE  FlushesOk \subseteq FlushesOk'
<1>1. CASE Arriving
  <2>1. PICK r \in Requests : Arrives(r)
    BY <1>1 DEF Arriving
  <2>2. /\ Len(asked) \in Nat /\ Len(asked') = Len(asked) + 1
        /\ \A n \in 1..Len(asked) : answers'[n] = answers[n] /\ asked'[n] = asked[n]
    BY <2>1, QueueArrived, AnswersArrive DEF Typed
  <2>3. 1..Len(asked) \subseteq 1..Len(asked')
    BY <2>2
  <2>. QED BY <2>2, <2>3 DEF FlushesOk
<1>2. CASE Answering \/ Starting \/ Ending
  <2>1. queue # <<>> /\ asked' = asked /\ \A n \in 1..Len(asked) : n # Msg.n => answers'[n] = answers[n]
    BY <1>2, AnswersFollow, AnswersChange
  <2>2. Msg.n \notin FlushesOk
    <3>1. 1 \in 1..Len(queue) /\ Msg = queue[1]
      BY <2>1, QueueHead DEF Typed
    <3>2. Done \cap Notified(Msg.n) = {}
      BY <3>1 DEF PendingNotDone
    <3>. QED BY <3>2, FlushesOkIs DEF Done
  <2>. QED BY <2>1, <2>2 DEF FlushesOk
<1>3. CASE Dropped \/ UNCHANGED requests
  BY <1>3 DEF Dropped, requests, FlushesOk
<1>. QED BY <1>1, <1>2, <1>3, StepKinds DEF Typed

(* The answer of a task is a new one. *)
LEMMA FlushAnswered ==
  ASSUME Typed, PendingNotDone, FlushDisplay
  PROVE  FlushesOk \cup {Msg.n} \subseteq FlushesOk' /\ Msg.n \notin FlushesOk
<1>1. queue # <<>> /\ asked' = asked /\ Req.op = "flush" /\ Ends("OK") /\ AsyncTask
  BY DEF FlushDisplay, Runs, AsyncTask
<1>2. 1 \in 1..Len(queue) /\ Msg = queue[1] /\ Msg.n \in 1..Len(asked)
  BY <1>1, QueueHead DEF Typed
<1>3. Msg.n \notin FlushesOk
  BY <1>2, FlushesOkIs DEF PendingNotDone, Done
<1>4. answers[Msg.n] \in Seq(Code) /\ "OK" \in Code
  BY <1>2, ElementOfSeq DEF Typed, Code
<1>. DEFINE codes == Append(answers[Msg.n], "OK")
<1>5. codes \in Seq(Code) /\ \E i \in 1..Len(codes) : codes[i] = "OK"
  BY <1>4, AppendProperties, LenProperties
<1>. HIDE DEF codes
<1>6. answers' = [answers EXCEPT ![Msg.n] = codes]
  BY <1>1 DEF Ends, codes
<1>7. answers'[Msg.n] = codes /\ \A n \in 1..Len(asked) : n # Msg.n => answers'[n] = answers[n]
  BY <1>1, <1>5, <1>6, AnswersChange
<1>8. Msg.n \in FlushesOk'
  BY <1>1, <1>2, <1>5, <1>7 DEF FlushesOk, Req
<1>9. FlushesOk \subseteq FlushesOk'
  BY <1>1, <1>3, <1>7 DEF FlushesOk
<1>. QED BY <1>3, <1>8, <1>9

(* Who is told of a refresh was asked for it. *)
LEMMA DoneNext ==
  ASSUME PInv, Typed, PendingNotDone, told \in Nat, DoneWasAsked, [Next]_vars
  PROVE  DoneWasAsked'
<1>1. /\ QInv /\ Typed'
      /\ IsFiniteSet(FlushesOk) /\ Cardinality(FlushesOk) \in Nat
      /\ IsFiniteSet(FlushesOk') /\ Cardinality(FlushesOk') \in Nat
  BY TypedNext, FlushesCount, FlushesFinite DEF Typed
<1>2. CASE Reboot
  <2>1. told' = 0 /\ epd'.status = "IDLE"
    BY <1>2, RebootIdle DEF Reboot
  <2>. QED BY <1>1, <2>1 DEF DoneWasAsked, EpdIsIdle
<1>3. ASSUME ~Reboot PROVE Cardinality(FlushesOk) <= Cardinality(FlushesOk')
  BY <1>1, <1>3, FlushesGrow, FS_Subset
<1>4. ASSUME epd'.status = epd.status, told' = told, ~Reboot
      PROVE  DoneWasAsked'
  BY <1>1, <1>3, <1>4 DEF DoneWasAsked, EpdIsIdle
<1>5. CASE FlushDisplay
  <2>1. FlushesOk \cup {Msg.n} \subseteq FlushesOk' /\ Msg.n \notin FlushesOk
    BY <1>5, FlushAnswered
  <2>2. Cardinality(FlushesOk \cup {Msg.n}) = Cardinality(FlushesOk) + 1
    BY <1>1, <2>1, FS_AddElement
  <2>3. Cardinality(FlushesOk \cup {Msg.n}) <= Cardinality(FlushesOk')
    BY <1>1, <2>1, FS_Subset
  <2>4. told' = told
    BY <1>5 DEF FlushDisplay
  <2>. QED BY <1>1, <2>2, <2>3, <2>4 DEF DoneWasAsked, EpdIsIdle
<1>6. CASE EpdEnds
  <2>1. FlushesOk' = FlushesOk
    BY <1>6 DEF EpdEnds, service, FlushesOk
  <2>2. told' \in {told, told + 1}
    BY <1>6 DEF EpdEnds
  <2>3. epd.status = "BUSY" /\ epd'.status = "IDLE"
    BY <1>6, EndsPicture
  <2>. QED BY <1>1, <2>1, <2>2, <2>3 DEF DoneWasAsked, EpdIsIdle
<1>7. CASE EpdCounts /\ ~Reboot
  BY <1>4, <1>7, CountsPicture
<1>8. CASE Writing /\ UNCHANGED told /\ ~Reboot
  BY <1>4, <1>8, WritingFacts
<1>9. CASE UNCHANGED epd /\ UNCHANGED told /\ ~Reboot
  BY <1>4, <1>9
<1>. QED BY <1>1, <1>2, <1>5, <1>6, <1>7, <1>8, <1>9, PanelKinds

(* The driver becomes busy by the task of a flush. *)
LEMMA BusyByFlush ==
  ASSUME PInv, QInv, [Next]_vars, epd'.status = "BUSY", ~FlushDisplay
  PROVE  epd.status = "BUSY"
BY PanelKinds, WritingFacts, CountsPicture, EndsPicture, RebootIdle

LEMMA GuardedNext ==
  PInv /\ Typed /\ OverlapInv /\ FlushesGuarded /\ [Next]_vars => FlushesGuarded'
<1>. SUFFICES ASSUME PInv, Typed, OverlapInv, FlushesGuarded, [Next]_vars,
                     epd'.status = "BUSY", clashes' <= 1
              PROVE  \A i \in Waiting' : asked'[queue'[i].n].op = "flush" => queue'[i].to \notin tasks'
  BY DEF FlushesGuarded
<1>1. QInv /\ OverlapInv' /\ Typed'
  BY OverlapNext, TypedNext DEF Typed
<1>2. CASE FlushDisplay /\ epd.status # "BUSY"
  <2>1. /\ queue # <<>> /\ queue' = Tail(queue) /\ Msg.to \in tasks
        /\ tasks' = tasks \ {async} /\ UNCHANGED <<async, clashes>>
    BY <1>2 DEF FlushDisplay, Runs, Ends
  <2>2. Cardinality(Waiting') = Cardinality(Waiting) - 1 /\ Cardinality(Waiting) \in Nat
    BY <1>1, <2>1, WaitingTail, WaitingCount, RequestsAssumption DEF Typed
  <2>3. Cardinality(Unanswered) \in Nat /\ clashes \in Nat /\ clashes <= 1
    BY <2>1, UnansweredCount DEF Typed
  <2>4. Cardinality(Waiting) <= 2
    BY <2>2, <2>3 DEF OverlapInv, AnswersLost
  <2>5. Cardinality(Waiting') = 0 \/ Cardinality(Waiting') = 1
    BY <2>2, <2>4, WaitingFinite, <1>1
  <2>6. \A i, j \in Waiting' : i = j
    BY <1>1, <2>5, WaitingFinite, FS_EmptySet, FS_Singleton
  <2>7. \A i \in Waiting' : i <= i
    BY DEF Waiting
  <2>8. \A i \in Waiting' : queue'[i].to = async'
    BY <1>1, <2>6, <2>7 DEF OverlapInv, NewestWaitsLast
  <2>. QED BY <2>1, <2>8
<1>. SUFFICES ASSUME epd.status = "BUSY"
              PROVE  \A i \in Waiting' : asked'[queue'[i].n].op = "flush" => queue'[i].to \notin tasks'
  BY <1>1, <1>2, BusyByFlush
<1>3. ASSUME queue # <<>>, queue' = Tail(queue), asked' = asked, tasks' \subseteq tasks,
             clashes' = clashes
      PROVE  \A i \in Waiting' : asked'[queue'[i].n].op = "flush" => queue'[i].to \notin tasks'
  BY <1>1, <1>3, WaitingTail DEF FlushesGuarded
<1>4. CASE Arriving
  <2>1. PICK r \in Requests : Arrives(r)
    BY <1>4 DEF Arriving
  <2>2. /\ Waiting' = Waiting /\ \A i \in Waiting : queue'[i] = queue[i]
        /\ UNCHANGED <<tasks, clashes>>
    BY <1>1, <2>1, WaitingArrived DEF Arrives
  <2>3. \A i \in Waiting : asked'[queue[i].n] = asked[queue[i].n]
    BY <1>1, <2>1, QueueArrived DEF Waiting
  <2>. QED BY <2>2, <2>3 DEF FlushesGuarded
<1>5. CASE Starting
  <2>1. PICK id \in TaskIds \ tasks :
          tasks' = tasks \cup {id} /\ queue' = Append(Tail(queue), [to |-> id, n |-> Msg.n])
    BY <1>5 DEF Starting
  <2>2. queue # <<>> /\ Msg.to = "profile" /\ asked' = asked /\ Req.op # "flush"
    BY <1>5 DEF Starting, EpdIsIdle
  <2>3. /\ queue'[Len(queue)] = [to |-> id, n |-> Msg.n]
        /\ \A i \in Waiting' : i = Len(queue) \/ (i + 1 \in Waiting /\ queue'[i] = queue[i + 1])
    BY <1>1, <2>1, <2>2, WaitingPosted
  <2>4. ASSUME NEW j \in Waiting PROVE asked[queue[j].n].op # "flush"
    <3>1. clashes' = clashes + 1 /\ clashes \in Nat
      BY <1>5 DEF Starting, Typed
    <3>2. clashes = 0
      BY <3>1
    <3>3. queue[j].to \in tasks
      BY <3>2 DEF OverlapInv, NoOverlap
    <3>. QED BY <3>2, <3>3 DEF FlushesGuarded
  <2>. QED BY <2>2, <2>3, <2>4 DEF Req
<1>6. CASE Answering \/ Ending \/ Dropped
  BY <1>3, <1>6 DEF Answering, Replies, Ending, Ends, Dropped
<1>7. CASE UNCHANGED requests
  BY <1>7 DEF requests, FlushesGuarded, Waiting
<1>8. CASE Reboot
  BY <1>8, RebootIdle
<1>. QED BY <1>1, <1>4, <1>5, <1>6, <1>7, <1>8, StepKinds

-----------------------------------------------------------------------------
(* The record at mark_address, if it is one, is that of a refused write.   *)

MarkRefused == \A u \in Tags : MarkAt(store, u) => WasRefused(u)

LEMMA WasRefusedIs ==
  ASSUME NEW u
  PROVE  WasRefused(u) <=>
           \E n \in 1..Len(asked) :
             asked[n].op = "wr_conf" /\ asked[n].tag = u /\ "WRITE_ERR" \in Notified(n)
BY DEF WasRefused, Notified

(* A write that was refused stays so. *)
LEMMA RefusedStays ==
  ASSUME Typed, PendingNotDone, [Next]_vars, ~Reboot, NEW u, WasRefused(u)
  PROVE  WasRefused(u)'
<1>1. PICK n \in 1..Len(asked) :
        asked[n].op = "wr_conf" /\ asked[n].tag = u /\ "WRITE_ERR" \in Notified(n)
  BY WasRefusedIs
<1>2. ASSUME n \in 1..Len(asked'), asked'[n] = asked[n], answers'[n] = answers[n]
      PROVE  WasRefused(u)'
  BY <1>1, <1>2 DEF WasRefused, Notified
<1>3. CASE Arriving
  <2>1. PICK r \in Requests : Arrives(r)
    BY <1>3 DEF Arriving
  <2>2. /\ Len(asked) \in Nat /\ Len(asked') = Len(asked) + 1
        /\ \A k \in 1..Len(asked) : answers'[k] = answers[k] /\ asked'[k] = asked[k]
    BY <2>1, QueueArrived, AnswersArrive DEF Typed
  <2>3. 1..Len(asked) \subseteq 1..Len(asked')
    BY <2>2
  <2>. QED BY <1>2, <2>2, <2>3
<1>4. CASE Answering \/ Starting \/ Ending
  <2>1. queue # <<>> /\ asked' = asked /\ \A k \in 1..Len(asked) : k # Msg.n => answers'[k] = answers[k]
    BY <1>4, AnswersFollow, AnswersChange
  <2>2. 1 \in 1..Len(queue) /\ Msg = queue[1]
    BY <2>1, QueueHead DEF Typed
  <2>3. "WRITE_ERR" \notin Notified(Msg.n)
    BY <2>2 DEF PendingNotDone, Done
  <2>. QED BY <1>1, <1>2, <2>1, <2>3
<1>5. CASE Dropped \/ UNCHANGED requests
  BY <1>2, <1>5 DEF Dropped, requests
<1>. QED BY <1>3, <1>4, <1>5, StepKinds DEF Typed

LEMMA RefusedAnswered ==
  ASSUME Typed, Runs("wr_conf"), Ends("WRITE_ERR"), asked' = asked, NEW u, u = Req.tag
  PROVE  WasRefused(u)'
<1>1. queue # <<>> /\ asked[Msg.n].op = "wr_conf" /\ asked[Msg.n].tag = u /\ Msg.n \in 1..Len(asked)
  BY QueueHead DEF Runs, Req, Typed
<1>2. answers[Msg.n] \in Seq(Code) /\ "WRITE_ERR" \in Code
  BY <1>1, ElementOfSeq DEF Typed, Code
<1>. DEFINE codes == Append(answers[Msg.n], "WRITE_ERR")
<1>3. codes \in Seq(Code) /\ \E i \in 1..Len(codes) : codes[i] = "WRITE_ERR"
  BY <1>2, AppendProperties, LenProperties
<1>4. answers' = [answers EXCEPT ![Msg.n] = codes]
  BY DEF Ends
<1>. HIDE DEF codes
<1>5. answers'[Msg.n] = codes
  BY <1>1, <1>3, <1>4, AnswersChange
<1>6. \E n \in 1..Len(asked') :
        /\ asked'[n].op = "wr_conf" /\ asked'[n].tag = u
        /\ \E i \in 1..Len(answers'[n]) : answers'[n][i] = "WRITE_ERR"
  BY <1>1, <1>3, <1>5
<1>. QED BY <1>6 DEF WasRefused

LEMMA MarkRefusedNext ==
  ASSUME KInv, Typed, PendingNotDone, MarkRefused, [Next]_vars
  PROVE  MarkRefused'
<1>1. ASSUME NEW u \in Tags, MarkAt(store', u) PROVE WasRefused(u)'
  <2>1. /\ ~Reboot
        /\ \/ MarkAt(store, u)
           \/ Runs("wr_conf") /\ Req.tag = u /\ Ends("WRITE_ERR") /\ asked' = asked
    BY <1>1, StoreKinds DEF KInv
  <2>2. CASE MarkAt(store, u)
    BY <2>1, <2>2, RefusedStays DEF MarkRefused
  <2>3. CASE Runs("wr_conf") /\ Req.tag = u /\ Ends("WRITE_ERR") /\ asked' = asked
    BY <2>3, RefusedAnswered
  <2>. QED BY <2>1, <2>2, <2>3
<1>. QED BY <1>1 DEF MarkRefused, MarkAt

-----------------------------------------------------------------------------
(* The invariant *)

AInv ==
  /\ KInv /\ Typed
  /\ OneMessage /\ PendingNotDone
  /\ OverlapInv /\ ClashesCounted
  /\ FlushesGuarded /\ DoneWasAsked
  /\ MarkRefused
  /\ phone \in BOOLEAN /\ ruined \in BOOLEAN

LEMMA AInit == Init => AInv
<1>. SUFFICES ASSUME Init PROVE AInv
  OBVIOUS
<1>1. /\ queue = <<>> /\ tasks = {} /\ async = NoTask /\ asked = <<>> /\ answers = <<>>
      /\ clashes = 0 /\ told = 0 /\ phone = FALSE /\ store = Formatted
      /\ ruined = FALSE
  BY DEF Init
<1>2. KInv /\ epd.status = "IDLE"
  <2>1. PICK img \in Images, rest \in OpenRests : epd = EpdBoot(img, rest)
    BY DEF Init
  <2>. QED BY <2>1, KInit, BootFacts
<1>3. Typed
  BY <1>1, RequestsAssumption DEF Typed, QInv
<1>4. OneMessage /\ PendingNotDone
  BY <1>1 DEF OneMessage, PendingNotDone
<1>5. OverlapInv
  BY <1>1, OverlapInit
<1>6. ClashesCounted
  BY <1>1, <1>3, DispatchedCount DEF ClashesCounted, Typed
<1>7. FlushesGuarded
  BY <1>2 DEF FlushesGuarded
<1>8. DoneWasAsked
  BY <1>1, <1>2, <1>3, FlushesCount DEF DoneWasAsked, Typed, EpdIsIdle
<1>9. MarkRefused
  BY <1>1, FormattedStore DEF MarkRefused, MarkAt
<1>. QED BY <1>1, <1>2, <1>3, <1>4, <1>5, <1>6, <1>7, <1>8, <1>9 DEF AInv

LEMMA PhoneNext == phone \in BOOLEAN /\ [Next]_vars => phone' \in BOOLEAN
BY DEF Next, vars, Phone, PhoneConnects, PhoneLeaves, Arrives, Kernel, Dispatch, AsyncTask, Dropped,
       UnknownOpcode, WriteDisplayRam, FlushScreen, ReadDisplayRam, ReadHardwareInfo,
       EraseFlashSector, WriteConfig, ReadConfig, DeleteConfig, FlushDisplay, EraseFlash,
       AppendConfig, QueryConfig, QueryOverruns, RemoveConfig, EpdTimer, EpdCounts, EpdEnds, Reboot

LEMMA RuinedNext == ruined \in BOOLEAN /\ [Next]_vars => ruined' \in BOOLEAN
<1>1. QueryOverruns \/ Reboot => ruined' \in BOOLEAN
  BY DEF QueryOverruns, Reboot
<1>2. FlushDisplay \/ EraseFlash \/ AppendConfig \/ QueryConfig \/ RemoveConfig => UNCHANGED ruined
  BY DEF FlushDisplay, EraseFlash, AppendConfig, QueryConfig, RemoveConfig, Ends
<1>3. Dispatch => UNCHANGED ruined
  BY DEF Dispatch, UnknownOpcode, WriteDisplayRam, FlushScreen, ReadDisplayRam, ReadHardwareInfo,
         EraseFlashSector, WriteConfig, ReadConfig, DeleteConfig, StartsTask, Reply, Replies
<1>4. Phone \/ Dropped \/ EpdTimer \/ UNCHANGED vars => UNCHANGED ruined
  BY DEF Phone, PhoneConnects, PhoneLeaves, Arrives, Dropped, EpdTimer, EpdCounts, EpdEnds, service,
         vars
<1>. QED BY <1>1, <1>2, <1>3, <1>4 DEF Next, Kernel, AsyncTask

LEMMA ANext == AInv /\ [Next]_vars => AInv'
<1>. SUFFICES ASSUME AInv, [Next]_vars PROVE AInv'
  OBVIOUS
<1>1. KInv' /\ PInv /\ told \in Nat
  BY KNext DEF AInv, KInv
<1>2. Typed' /\ OneMessage' /\ PendingNotDone'
  BY TypedNext, OneMessageNext, PendingNext DEF AInv
<1>3. OverlapInv' /\ ClashesCounted'
  BY OverlapNext, ClashesNext DEF AInv
<1>4. FlushesGuarded' /\ DoneWasAsked'
  BY <1>1, GuardedNext, DoneNext DEF AInv
<1>5. phone' \in BOOLEAN /\ ruined' \in BOOLEAN
  BY PhoneNext, RuinedNext DEF AInv
<1>6. MarkRefused'
  BY MarkRefusedNext DEF AInv
<1>. QED BY <1>1, <1>2, <1>3, <1>4, <1>5, <1>6 DEF AInv

LEMMA AccountsInvariance == Spec => []AInv
BY AInit, ANext, PTL DEF Spec

(* Every variable keeps its type, and what is counted stays within the     *)
(* number of requests: the queue holds messages about requests that have   *)
(* arrived, overlaps are no more than requests that were dispatched, ends  *)
(* of a flush no more than flushes.                                        *)
THEOREM TypeCorrect == Spec => []TypeOK
<1>1. AInv => TypeOK
  <2>. SUFFICES ASSUME AInv PROVE TypeOK
    OBVIOUS
  <2>1. QInv /\ Typed
    BY DEF AInv, Typed
  <2>2. Len(asked) \in Nat /\ Len(asked) <= MaxRequests /\ asked \in Seq(Requests)
    BY <2>1, LenProperties DEF Typed, QInv
  <2>3. queue \in Seq(Message)
    <3>. DEFINE M == [to : TaskIds \cup {"profile"}, n : 1..Len(asked)]
    <3>1. queue \in Seq(M)
      BY <2>1 DEF QInv
    <3>2. M \subseteq Message
      <4>1. 1..Len(asked) \subseteq 1..MaxRequests
        BY <2>2, RequestsAssumption
      <4>. QED BY <4>1 DEF Message
    <3>. HIDE DEF M
    <3>. QED BY <3>1, <3>2
  <2>4. clashes \in 0..MaxRequests
    <3>1. /\ clashes \in Nat /\ clashes <= Cardinality(Dispatched)
          /\ Cardinality(Dispatched) \in Nat /\ Cardinality(Dispatched) <= Len(asked)
      BY <2>1, DispatchedCount DEF AInv, Typed, ClashesCounted
    <3>. QED BY <2>2, <3>1, RequestsAssumption
  <2>5. told \in 0..MaxRequests
    <3>1. /\ told \in Nat /\ told + (IF EpdIsIdle(epd) THEN 0 ELSE 1) <= Cardinality(FlushesOk)
          /\ Cardinality(FlushesOk) \in Nat /\ Cardinality(FlushesOk) <= Len(asked)
      BY <2>1, FlushesCount DEF AInv, KInv, DoneWasAsked
    <3>2. told <= Cardinality(FlushesOk)
      BY <3>1
    <3>. QED BY <2>2, <3>1, <3>2, RequestsAssumption
  <2>6. epd \in Epd /\ store \in Store /\ phone \in BOOLEAN /\ ruined \in BOOLEAN
    BY DEF AInv, KInv, PInv
  <2>. QED BY <2>1, <2>2, <2>3, <2>4, <2>5, <2>6 DEF TypeOK, Typed
<1>. QED BY <1>1, AccountsInvariance, PTL

(* However requests overlap, the kernel has no more tasks than there are   *)
(* messages for tasks and overlaps so far: an overlap costs one task id at *)
(* most, and without overlaps the tasks are those that have a message.     *)
THEOREM TasksAlwaysAccounted == Spec => []TasksAccounted
<1>1. AInv => TasksAccounted
  <2>. SUFFICES ASSUME AInv PROVE TasksAccounted
    OBVIOUS
  <2>1. /\ Typed /\ IdsLost /\ NoOverlap /\ QInv /\ clashes \in Nat
    BY DEF AInv, OverlapInv, Typed
  <2>2. Cardinality(Waiting) \in Nat /\ (Cardinality(Waiting) = 0 <=> Waiting = {})
    BY <2>1, WaitingCount
  <2>3. /\ Cardinality(tasks) \in Nat /\ Cardinality(tasks \ {async}) \in Nat
        /\ Cardinality(tasks) <= Cardinality(tasks \ {async}) + 1
    <3>1. /\ Cardinality(tasks) \in Nat /\ Cardinality(tasks \ {async}) \in Nat
          /\ Cardinality(tasks) = Cardinality(tasks \ {async}) + (IF async \in tasks THEN 1 ELSE 0)
      BY <2>1, TasksCount
    <3>. QED BY <3>1
  <2>4. Cardinality(tasks) <= Cardinality(Waiting) + clashes
    <3>1. CASE Waiting = {}
      BY <2>1, <2>2, <2>3, <3>1 DEF IdsLost
    <3>2. CASE Waiting # {}
      BY <2>1, <2>2, <2>3, <3>2 DEF IdsLost
    <3>. QED BY <3>1, <3>2
  <2>. QED BY <2>1, <2>4 DEF TasksAccounted, NoOverlap
<1>. QED BY <1>1, AccountsInvariance, PTL

(* The requests that stay without an answer are no more than the overlaps. *)
(* The message of a request may be dropped, because another task deleted   *)
(* the one it was for, and no other way leads to a client left waiting.    *)
THEOREM LostOnlyEverByOverlap == Spec => []LostOnlyByOverlap
<1>1. AInv => LostOnlyByOverlap
  <2>. SUFFICES ASSUME AInv PROVE LostOnlyByOverlap
    OBVIOUS
  <2>1. /\ Typed /\ AnswersLost /\ QInv /\ clashes \in Nat
    BY DEF AInv, OverlapInv, Typed
  <2>2. /\ Cardinality(Waiting) \in Nat /\ (Cardinality(Waiting) = 0 <=> Waiting = {})
        /\ Cardinality(Unanswered) \in Nat
    BY <2>1, WaitingCount, UnansweredCount
  <2>. QED BY <2>1, <2>2 DEF AnswersLost, LostOnlyByOverlap
<1>. QED BY <1>1, AccountsInvariance, PTL

(* The phone is told of no more ends of a refresh than FLUSH requests were *)
(* answered OK, and of one fewer while the panel refreshes.                *)
THEOREM DoneWasAlwaysAsked == Spec => []DoneWasAsked
<1>1. AInv => DoneWasAsked
  BY DEF AInv
<1>. QED BY <1>1, AccountsInvariance, PTL

(* A picture is torn by a loss of power, or by the task of a flush which   *)
(* finds a refresh under way; and then two overlaps have been before it.   *)
THEOREM TornOnlyEverByOverlaps == Spec => TornOnlyByOverlaps
<1>1. AInv /\ [Next]_vars =>
        [epd.shown # Torn /\ epd'.shown = Torn => Reboot \/ (FlushDisplay /\ clashes >= 2)]_vars
  <2>. SUFFICES ASSUME AInv, [Next]_vars, epd.shown # Torn, epd'.shown = Torn, ~Reboot
                PROVE  FlushDisplay /\ clashes >= 2
    OBVIOUS
  <2>1. PInv /\ QInv /\ Typed /\ FlushesGuarded /\ clashes \in Nat
    BY DEF AInv, KInv, Typed
  <2>2. epd.ram # Torn
    <3>1. epd.ram \in Images
      BY <2>1, Zenon DEF PInv, Epd
    <3>. QED BY <3>1, PictureAssumption
  <2>3. FlushDisplay
    BY <2>1, <2>2, PanelKinds, WritingFacts, CountsPicture, EndsPicture
  <2>4. epd.status = "BUSY"
    <3>1. epd.mode = "refresh"
      BY <2>1, <2>3, FlushPicture DEF AbortedPicture
    <3>. QED BY <2>1, <3>1 DEF PInv, RefreshCovered
  <2>5. clashes > 1
    <3>1. SUFFICES ASSUME clashes <= 1 PROVE FALSE
      BY <2>1
    <3>2. queue # <<>> /\ Msg.to \in tasks /\ asked[Msg.n].op = "flush"
      BY <2>3 DEF FlushDisplay, Runs, Req
    <3>3. 1 \in 1..Len(queue) /\ Msg = queue[1] /\ Msg.to # "profile"
      BY <2>1, <3>2, QueueHead, RequestsAssumption DEF Typed
    <3>4. 1 \in Waiting
      BY <3>3 DEF Waiting
    <3>. QED BY <2>1, <2>4, <3>1, <3>2, <3>3, <3>4 DEF FlushesGuarded
  <2>. QED BY <2>1, <2>3, <2>5
<1>. QED BY <1>1, AccountsInvariance, PTL DEF Spec, TornOnlyByOverlaps

(* A record changes by a write or a deletion of its tag, by a write of     *)
(* another tag after one of its own was refused (the mark_address that was *)
(* left behind is struck then), by an erasure, or by the boot after one    *)
(* that took the header of the sector in use: as long as no strike in an   *)
(* erased sector has damaged the log, and wherever power is lost.          *)
THEOREM RecordsAlwaysAccounted == Spec => RecordsAccounted
<1>1. AInv /\ [Next]_vars =>
        [\A t \in Tags :
           Records(store')[t] # Records(store)[t] /\ ~store.lost =>
             \/ /\ AsyncTask \/ Reboot
                /\ \/ (Runs("wr_conf") \/ Runs("del_conf")) /\ Req.tag = t
                   \/ Runs("wr_conf") /\ WasRefused(t)
                   \/ Runs("erase")
             \/ Reboot /\ ~store.sec[store.work].headed]_vars
  BY StoreKinds DEF AInv, KInv, MarkRefused
<1>. QED BY <1>1, AccountsInvariance, PTL DEF Spec, RecordsAccounted

=============================================================================
