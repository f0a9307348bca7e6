---------------------------- MODULE DeviceProofs ----------------------------
(***************************************************************************)
(* The device is a connection with settings: what is said of the one holds *)
(* of the other.  The two flags that share a byte agree with the link and  *)
(* with the boot, and the settings are those of the records the last boot  *)
(* found.                                                                  *)
(***************************************************************************)
EXTENDS Device, SequenceTheorems, WellFoundedInduction, TLAPS

-----------------------------------------------------------------------------
(***************************************************************************)
(* The connection: the negotiation of its parameters never comes to a halt *)
(* with the tag awake, in either build mode.                               *)
(***************************************************************************)

(* What is asked for has an interval; parameters that save power and were  *)
(* not the phone's choice are followed by sleep.                           *)
UpdateInv == ongoing => interval \in {6, 9}

CInv ==
  /\ TypeOK
  /\ UpdateInv
  /\ link = "connected" => interval \in {6, 9}
  /\ link = "connected" /\ saving /\ ~own => sleep
  /\ NegotiationContinues

LEMMA CInit == Init => CInv
BY ModeAssumption DEF Init, CInv, TypeOK, UpdateInv, NegotiationContinues

LEMMA CNext == CInv /\ [Next]_vars => CInv'
<1>. SUFFICES ASSUME CInv, [Next]_vars PROVE CInv'
  OBVIOUS
<1>. USE DEF CInv, TypeOK, UpdateInv, NegotiationContinues
<1>1. CASE UNCHANGED vars
  BY <1>1 DEF vars
<1>2. CASE SlpTimerCallback
  BY <1>2 DEF SlpTimerCallback
<1>3. CASE DatabaseAddCompleted
  BY <1>3 DEF DatabaseAddCompleted
<1>4. ASSUME NEW b \in BOOLEAN, SlaveConnected(b) PROVE CInv'
  BY <1>4 DEF SlaveConnected
<1>5. ASSUME NEW b \in BOOLEAN, PhoneUpdates(b) PROVE CInv'
  BY <1>5 DEF PhoneUpdates, ParamInd
<1>6. CASE SlaveDisconnected
  BY <1>6, ModeAssumption DEF SlaveDisconnected
<1>7. CASE ParamTimer
  <2>1. CASE AskUpdate
    BY <2>1 DEF AskUpdate, NeedsUpdate
  <2>2. CASE AskLater
    BY <2>2 DEF AskLater, vars
  <2>3. CASE AskNothing
    BY <2>3 DEF AskNothing, NeedsUpdate
  <2>. QED BY <1>7, <2>1, <2>2, <2>3 DEF ParamTimer
<1>8. CASE UpdateAccepted
  BY <1>8 DEF UpdateAccepted, ParamInd
<1>9. CASE UpdateRejected
  <2>1. CASE UpdateFails
    BY <2>1 DEF UpdateFails
  <2>2. CASE UpdateRefused
    BY <2>2 DEF UpdateRefused
  <2>3. CASE UpdateGivenUp
    BY <2>3 DEF UpdateGivenUp
  <2>. QED BY <1>9, <2>1, <2>2, <2>3 DEF UpdateRejected
<1>10. CASE Restart
  BY <1>10, ModeAssumption DEF Restart
<1>. QED BY <1>1, <1>2, <1>3, <1>4, <1>5, <1>6, <1>7, <1>8, <1>9, <1>10 DEF Next

(* Awake in a connection with parameters the phone did not choose itself,  *)
(* the tag always has the timer or an update to wait for.                  *)
THEOREM NegotiationAlwaysContinues == Spec => []NegotiationContinues
<1>1. CInv => NegotiationContinues
  BY DEF CInv
<1>. QED BY <1>1, CInit, CNext, PTL DEF Spec

FallsAsleepWell ==
  ~sleep /\ sleep' /\ link' = "connected" => saving' \/ UpdateGivenUp \/ SlpTimerCallback

LEMMA StaysAwake == CInv /\ [Next]_vars => [FallsAsleepWell]_vars
<1>. SUFFICES ASSUME CInv, Next PROVE FallsAsleepWell
  BY DEF vars
<1>1. CASE sleep' = sleep \/ link' # "connected"
  BY <1>1 DEF FallsAsleepWell
<1>2. ASSUME NEW b \in BOOLEAN, ParamInd(b) PROVE FallsAsleepWell
  BY <1>2 DEF ParamInd, FallsAsleepWell
<1>3. ASSUME NEW b \in BOOLEAN, SlaveConnected(b) \/ PhoneUpdates(b) PROVE FallsAsleepWell
  BY <1>2, <1>3 DEF SlaveConnected, PhoneUpdates, FallsAsleepWell
<1>4. CASE ParamTimer
  BY <1>1, <1>4 DEF ParamTimer, AskUpdate, AskLater, AskNothing, vars
<1>5. CASE UpdateRejected
  BY <1>1, <1>5 DEF UpdateRejected, UpdateFails, UpdateRefused, UpdateGivenUp, FallsAsleepWell
<1>6. CASE SlpTimerCallback
  BY <1>6 DEF FallsAsleepWell
<1>. QED BY <1>1, <1>2, <1>3, <1>4, <1>5, <1>6
         DEF Next, Restart, DatabaseAddCompleted, SlaveDisconnected, UpdateAccepted

(* A tag in a connection falls asleep with parameters that save power, or  *)
(* after both intervals were refused, or because of the timer of the boot. *)
THEOREM AlwaysAwakeWhileNegotiating == Spec => AwakeWhileNegotiating
<1>1. Spec => []CInv
  BY CInit, CNext, PTL DEF Spec
<1>. QED BY <1>1, StaysAwake, PTL DEF Spec, AwakeWhileNegotiating, FallsAsleepWell

-----------------------------------------------------------------------------
(***************************************************************************)
(* The device.                                                             *)
(***************************************************************************)
Recs == {recs \in [ConfigTags -> Seq(Byte) \cup {NoRecord}] :
           \A t \in ConfigTags : recs[t] = NoRecord \/ <<t, recs[t]>> \in Writes}

SysInfo == [adv_interval : AdvIntervalMin..AdvIntervalMax,
            ble_name : {s \in Seq(Byte) : Len(s) = NameSize}, rumtime_flag : 0..3]

(***************************************************************************)
(* A step of the device is a step of the connection, or leaves it alone.   *)
(***************************************************************************)
LEMMA DeviceStep == [DeviceNext]_dvars => [Next]_vars
<1>. SUFFICES ASSUME [DeviceNext]_dvars PROVE [Next]_vars
  OBVIOUS
<1>1. CASE Reboot
  BY <1>1 DEF Reboot, Next
<1>2. CASE StartsAdvertising
  BY <1>2 DEF StartsAdvertising, Next
<1>3. CASE PhoneConnects
  BY <1>3 DEF PhoneConnects, Next
<1>4. CASE PhoneLeaves
  BY <1>4 DEF PhoneLeaves, Next
<1>5. CASE Negotiates
  BY <1>5 DEF Negotiates, Next
<1>6. CASE ChangesRecord
  BY <1>6 DEF ChangesRecord
<1>7. CASE UNCHANGED dvars
  BY <1>7 DEF dvars
<1>. QED BY <1>1, <1>2, <1>3, <1>4, <1>5, <1>6, <1>7 DEF DeviceNext

(* Whatever boots and records come between, a tag that is awake in a       *)
(* connection has a timer or an update to wait for (epaper_svc.c).         *)
THEOREM DeviceNegotiates == DeviceSpec => []NegotiationContinues
<1>1. DeviceInit => Init
  BY DEF DeviceInit
<1>2. CInv => NegotiationContinues
  BY DEF CInv
<1>. QED BY <1>1, <1>2, DeviceStep, CInit, CNext, PTL DEF DeviceSpec

(* Nor does a boot or a record put it to sleep too early.                  *)
THEOREM DeviceAwakeWhileNegotiating == DeviceSpec => AwakeWhileNegotiating
<1>1. DeviceSpec => Spec
  <2>1. DeviceInit => Init
    BY DEF DeviceInit
  <2>. QED BY <2>1, DeviceStep, PTL DEF DeviceSpec, Spec
<1>. QED BY <1>1, AlwaysAwakeWhileNegotiating, PTL

(***************************************************************************)
(* The buffer of the boot.                                                 *)
(***************************************************************************)
LEMMA Buffer ==
  ASSUME NEW f \in [1..NameSize -> Byte]
  PROVE  f \in Seq(Byte) /\ Len(f) = NameSize
<1>1. f \in Seq(Byte)
  BY SeqDef DEF NameSize
<1>. QED BY <1>1, LenProperties DEF NameSize

LEMMA SameFacts ==
  ASSUME NEW b \in Byte
  PROVE  Same(NameSize, b) \in Seq(Byte) /\ Len(Same(NameSize, b)) = NameSize
<1>1. Same(NameSize, b) \in [1..NameSize -> Byte]
  BY DEF Same
<1>. QED BY <1>1, Buffer

(* A read of any length leaves the buffer a buffer. *)
LEMMA ReadType ==
  ASSUME NEW rec \in Seq(Byte), NEW buffer \in Seq(Byte), Len(buffer) = NameSize,
         NEW n \in Nat
  PROVE  /\ FlashTlvRead(rec, buffer, n) \in Seq(Byte)
         /\ Len(FlashTlvRead(rec, buffer, n)) = NameSize
<1>. DEFINE read == FlashTlvRead(rec, buffer, n)
<1>1. /\ rec \in [1..Len(rec) -> Byte] /\ Len(rec) \in Nat
      /\ buffer \in [1..NameSize -> Byte]
  BY LenProperties
<1>2. CASE n > Len(rec)
  BY <1>2 DEF FlashTlvRead
<1>3. CASE n <= Len(rec)
  <2>1. read = [i \in 1..NameSize |-> IF i <= n THEN rec[i] ELSE buffer[i]]
    BY <1>1, <1>3 DEF FlashTlvRead
  <2>2. \A i \in 1..NameSize : i <= n => i \in 1..Len(rec)
    <3>1. \A l, i \in Nat : i >= 1 /\ i <= n /\ n <= l => i \in 1..l
      OBVIOUS
    <3>2. \A i \in 1..NameSize : i \in Nat /\ i >= 1
      BY DEF NameSize
    <3>. QED BY <1>1, <1>3, <3>1, <3>2
  <2>. HIDE DEF read
  <2>3. read \in [1..NameSize -> Byte]
    BY <1>1, <2>1, <2>2
  <2>. QED BY <2>3, Buffer DEF read
<1>. QED BY <1>1, <1>2, <1>3

(* A read fills the front of the buffer, or leaves it alone. *)
LEMMA ReadFacts ==
  ASSUME NEW rec \in Seq(Byte), NEW buffer \in Seq(Byte), Len(buffer) = NameSize,
         NEW n \in 0..NameSize
  PROVE  LET read == FlashTlvRead(rec, buffer, n)
         IN  /\ read \in Seq(Byte)
             /\ Len(read) = NameSize
             /\ n <= Len(rec) => \A i \in 1..n : read[i] = rec[i]
             /\ n > Len(rec) => read = buffer
<1>. DEFINE read == FlashTlvRead(rec, buffer, n)
<1>1. /\ rec \in [1..Len(rec) -> Byte] /\ Len(rec) \in Nat
      /\ buffer \in [1..NameSize -> Byte]
  BY LenProperties
<1>2. CASE n > Len(rec)
  BY <1>1, <1>2 DEF FlashTlvRead
<1>3. CASE n <= Len(rec)
  <2>1. read = [i \in 1..NameSize |-> IF i <= n THEN rec[i] ELSE buffer[i]]
    BY <1>1, <1>3 DEF FlashTlvRead
  <2>. HIDE DEF read
  <2>2. read \in [1..NameSize -> Byte]
    BY <1>1, <1>3, <2>1
  <2>3. ASSUME NEW i \in 1..n PROVE read[i] = rec[i]
    <3>1. i \in 1..NameSize /\ i <= n
      BY DEF NameSize
    <3>. QED BY <2>1, <3>1
  <2>4. ~(n > Len(rec))
    BY <1>1, <1>3
  <2>5. read \in Seq(Byte) /\ Len(read) = NameSize
    BY <2>2, Buffer
  <2>. QED BY <2>3, <2>4, <2>5 DEF read
<1>. QED BY <1>1, <1>2, <1>3

LEMMA MemswapFacts ==
  ASSUME NEW buffer \in Seq(Byte), Len(buffer) = NameSize
  PROVE  /\ Memswap(buffer, BdAddrLen) \in Seq(Byte)
         /\ Len(Memswap(buffer, BdAddrLen)) = NameSize
         /\ \A i \in 1..BdAddrLen : Memswap(buffer, BdAddrLen)[i] = buffer[BdAddrLen + 1 - i]
<1>. DEFINE swapped == Memswap(buffer, BdAddrLen)
<1>1. buffer \in [1..NameSize -> Byte]
  BY LenProperties
<1>2. swapped = [i \in 1..NameSize |->
                   IF i \in 1..BdAddrLen THEN buffer[BdAddrLen + 1 - i] ELSE buffer[i]]
  BY DEF Memswap
<1>. HIDE DEF swapped
<1>3. swapped \in [1..NameSize -> Byte]
  BY <1>1, <1>2 DEF NameSize, BdAddrLen
<1>4. \A i \in 1..BdAddrLen : swapped[i] = buffer[BdAddrLen + 1 - i]
  BY <1>2 DEF NameSize, BdAddrLen
<1>5. swapped \in Seq(Byte) /\ Len(swapped) = NameSize
  BY <1>3, Buffer
<1>. QED BY <1>4, <1>5 DEF swapped

LEMMA AfterMacFacts ==
  ASSUME NEW recs \in Recs, NEW junk \in Byte
  PROVE  /\ AfterMac(recs, junk) \in Seq(Byte)
         /\ Len(AfterMac(recs, junk)) = NameSize
         /\ recs["mac"] # NoRecord /\ Len(recs["mac"]) >= BdAddrLen =>
              \A i \in 1..BdAddrLen :
                AfterMac(recs, junk)[i] = recs["mac"][BdAddrLen + 1 - i]
<1>. DEFINE mac == recs["mac"]
            blank == Same(NameSize, junk)
            read == FlashTlvRead(mac, blank, BdAddrLen)
<1>1. blank \in Seq(Byte) /\ Len(blank) = NameSize
  BY SameFacts
<1>2. CASE mac = NoRecord
  BY <1>1, <1>2 DEF AfterMac
<1>3. CASE mac # NoRecord
  <2>1. mac \in Seq(Byte)
    BY <1>3 DEF Recs, ConfigTags
  <2>2. BdAddrLen \in 0..NameSize
    BY DEF BdAddrLen, NameSize
  <2>3. /\ read \in Seq(Byte) /\ Len(read) = NameSize
        /\ BdAddrLen <= Len(mac) => \A i \in 1..BdAddrLen : read[i] = mac[i]
    <3>. HIDE DEF mac, blank
    <3>. QED BY <1>1, <2>1, <2>2, ReadFacts
  <2>4. AfterMac(recs, junk) = Memswap(read, BdAddrLen)
    BY <1>3 DEF AfterMac
  <2>. HIDE DEF read, mac
  <2>5. /\ AfterMac(recs, junk) \in Seq(Byte)
        /\ Len(AfterMac(recs, junk)) = NameSize
        /\ \A i \in 1..BdAddrLen : AfterMac(recs, junk)[i] = read[BdAddrLen + 1 - i]
    BY <2>3, <2>4, MemswapFacts
  <2>6. \A i \in 1..BdAddrLen : BdAddrLen + 1 - i \in 1..BdAddrLen
    BY DEF BdAddrLen
  <2>7. Len(mac) \in Nat
    BY <2>1, LenProperties
  <2>. QED BY <2>3, <2>5, <2>6, <2>7 DEF mac, BdAddrLen
<1>. QED BY <1>2, <1>3

(* The address the boot asks for: six bytes, those of the record if it has *)
(* that many.                                                              *)
LEMMA BootAddressFacts ==
  ASSUME NEW recs \in Recs, NEW junk \in Byte
  PROVE  /\ BootAddress(recs, junk) \in Seq(Byte)
         /\ Len(BootAddress(recs, junk)) = BdAddrLen
         /\ recs["mac"] = NoRecord => BootAddress(recs, junk) = DefaultMac
         /\ recs["mac"] # NoRecord /\ Len(recs["mac"]) >= BdAddrLen =>
              \A i \in 1..BdAddrLen :
                BootAddress(recs, junk)[i] = recs["mac"][BdAddrLen + 1 - i]
<1>1. CASE recs["mac"] = NoRecord
  <2>1. DefaultMac \in Seq(Byte) /\ Len(DefaultMac) = BdAddrLen
    BY DEF DefaultMac, Byte, BdAddrLen
  <2>. QED BY <1>1, <2>1 DEF BootAddress
<1>2. CASE recs["mac"] # NoRecord
  <2>. DEFINE buffer == AfterMac(recs, junk)
              addr == SubSeq(buffer, 1, BdAddrLen)
  <2>1. /\ buffer \in Seq(Byte) /\ Len(buffer) = NameSize
        /\ Len(recs["mac"]) >= BdAddrLen =>
             \A i \in 1..BdAddrLen : buffer[i] = recs["mac"][BdAddrLen + 1 - i]
    BY <1>2, AfterMacFacts
  <2>2. BootAddress(recs, junk) = addr
    BY <1>2 DEF BootAddress
  <2>. HIDE DEF buffer
  <2>3. \A i \in 1..6 : buffer[i] \in Byte
    <3>1. buffer \in [1..NameSize -> Byte]
      BY <2>1, LenProperties
    <3>. QED BY <3>1 DEF NameSize
  <2>4. /\ addr \in Seq(Byte) /\ Len(addr) = BdAddrLen
        /\ \A i \in 1..BdAddrLen : addr[i] = buffer[i]
    <3>1. addr = SubSeq(buffer, 1, 6)
      BY DEF BdAddrLen
    <3>. HIDE DEF addr
    <3>2. /\ addr \in Seq(Byte)
          /\ Len(addr) = IF 1 <= 6 THEN 6 - 1 + 1 ELSE 0
          /\ \A i \in 1..(6 - 1 + 1) : addr[i] = buffer[1 + i - 1]
      BY <2>3, <3>1, SubSeqProperties
    <3>. QED BY <3>2 DEF BdAddrLen
  <2>. HIDE DEF addr
  <2>. QED BY <1>2, <2>1, <2>2, <2>4
<1>. QED BY <1>1, <1>2

(***************************************************************************)
(* The settings the boot makes: of their types, with the flag of the       *)
(* address and no phone.                                                   *)
(***************************************************************************)
LEMMA FlagFacts ==
  ASSUME NEW info \in SysInfo, NEW mask \in {Activated, PhoneConnected}, NEW val \in {0, 1}
  PROVE  /\ SetRuntimeBit(info, mask, val) \in SysInfo
         /\ GetRuntimeBit(SetRuntimeBit(info, mask, val), mask) = val
         /\ \A other \in {Activated, PhoneConnected} \ {mask} :
              GetRuntimeBit(SetRuntimeBit(info, mask, val), other) = GetRuntimeBit(info, other)
         /\ SetRuntimeBit(info, mask, val).adv_interval = info.adv_interval
         /\ SetRuntimeBit(info, mask, val).ble_name = info.ble_name
<1>. DEFINE flag == info.rumtime_flag
            new == flag + (val - ((flag \div mask) % 2)) * mask
<1>1. flag \in {0, 1, 2, 3}
  BY DEF SysInfo
<1>2. SetRuntimeBit(info, mask, val) = [info EXCEPT !.rumtime_flag = new]
  BY DEF SetRuntimeBit, GetRuntimeBit
<1>3. mask \in {1, 2}
  BY DEF Activated, PhoneConnected
<1>. HIDE DEF flag
<1>4. CASE mask = 1
  <2>1. /\ new \in 0..3
        /\ (new \div 1) % 2 = val
        /\ (new \div 2) % 2 = (flag \div 2) % 2
    BY <1>1, <1>4
  <2>. HIDE DEF new
  <2>2. /\ [info EXCEPT !.rumtime_flag = new] \in SysInfo
        /\ [info EXCEPT !.rumtime_flag = new].rumtime_flag = new
        /\ [info EXCEPT !.rumtime_flag = new].adv_interval = info.adv_interval
        /\ [info EXCEPT !.rumtime_flag = new].ble_name = info.ble_name
    BY <2>1 DEF SysInfo
  <2>. QED BY <1>2, <1>4, <2>1, <2>2 DEF GetRuntimeBit, Activated, PhoneConnected, flag
<1>5. CASE mask = 2
  <2>1. /\ new \in 0..3
        /\ (new \div 2) % 2 = val
        /\ (new \div 1) % 2 = (flag \div 1) % 2
    BY <1>1, <1>5
  <2>. HIDE DEF new
  <2>2. /\ [info EXCEPT !.rumtime_flag = new] \in SysInfo
        /\ [info EXCEPT !.rumtime_flag = new].rumtime_flag = new
        /\ [info EXCEPT !.rumtime_flag = new].adv_interval = info.adv_interval
        /\ [info EXCEPT !.rumtime_flag = new].ble_name = info.ble_name
    BY <2>1 DEF SysInfo
  <2>. QED BY <1>2, <1>5, <2>1, <2>2 DEF GetRuntimeBit, Activated, PhoneConnected, flag
<1>. QED BY <1>3, <1>4, <1>5

LEMMA DefaultFacts ==
  /\ SetRuntimeDefault \in SysInfo
  /\ GetRuntimeBit(SetRuntimeDefault, Activated) = 0
  /\ GetRuntimeBit(SetRuntimeDefault, PhoneConnected) = 0
  /\ SetRuntimeDefault.adv_interval = RuntimeInterval
  /\ SetRuntimeDefault.ble_name = Same(NameSize, 0)
<1>1. Same(NameSize, 0) \in Seq(Byte) /\ Len(Same(NameSize, 0)) = NameSize
  BY SameFacts DEF Byte
<1>2. SetRuntimeDefault.rumtime_flag = 0
  BY DEF SetRuntimeDefault
<1>3. \A n \in {1, 2} : (0 \div n) % 2 = 0
  OBVIOUS
<1>4. GetRuntimeBit(SetRuntimeDefault, Activated) = 0 /\ GetRuntimeBit(SetRuntimeDefault, PhoneConnected) = 0
  BY <1>2, <1>3 DEF GetRuntimeBit, Activated, PhoneConnected
<1>. QED BY <1>1, <1>4
         DEF SetRuntimeDefault, SysInfo, RuntimeInterval, AdvIntervalMin, AdvIntervalMax

(* The interval the boot takes: that of the record if it is legal.         *)
IntervalOf(recs, junk) ==
  LET buffer == FlashTlvRead(recs["adv_int"], AfterMac(recs, junk), 2)
      value == buffer[1] + 256 * buffer[2]
  IN  IF recs["adv_int"] # NoRecord /\ value >= AdvIntervalMin /\ value <= AdvIntervalMax
      THEN value ELSE RuntimeInterval

LEMMA RecFacts ==
  ASSUME NEW recs \in Recs, NEW t \in ConfigTags, recs[t] # NoRecord
  PROVE  recs[t] \in Seq(Byte) /\ Len(recs[t]) \in Nat
<1>1. recs[t] \in Seq(Byte)
  BY DEF Recs
<1>. QED BY <1>1, LenProperties

LEMMA IntervalFacts ==
  ASSUME NEW recs \in Recs, NEW junk \in Byte, NEW info \in SysInfo,
         info.adv_interval = RuntimeInterval
  PROVE  /\ BootInterval(info, recs, junk) \in SysInfo
         /\ BootInterval(info, recs, junk).adv_interval = IntervalOf(recs, junk)
         /\ BootInterval(info, recs, junk).rumtime_flag = info.rumtime_flag
         /\ BootInterval(info, recs, junk).ble_name = info.ble_name
<1>. DEFINE int == recs["adv_int"]
            buffer == FlashTlvRead(int, AfterMac(recs, junk), 2)
            value == buffer[1] + 256 * buffer[2]
            new == BootInterval(info, recs, junk)
<1>1. CASE int = NoRecord
  <2>1. new = info /\ IntervalOf(recs, junk) = RuntimeInterval
    BY <1>1 DEF BootInterval, IntervalOf
  <2>. QED BY <2>1
<1>2. CASE int # NoRecord
  <2>1. value \in Int
    <3>1. int \in Seq(Byte)
      BY <1>2, RecFacts DEF ConfigTags
    <3>2. AfterMac(recs, junk) \in Seq(Byte) /\ Len(AfterMac(recs, junk)) = NameSize
      BY AfterMacFacts
    <3>3. 2 \in 0..NameSize
      BY DEF NameSize
    <3>4. buffer \in Seq(Byte) /\ Len(buffer) = NameSize
      <4>. HIDE DEF int
      <4>. QED BY <3>1, <3>2, <3>3, ReadFacts
    <3>. HIDE DEF buffer
    <3>5. buffer \in [1..NameSize -> Byte]
      BY <3>4, LenProperties
    <3>6. buffer[1] \in Byte /\ buffer[2] \in Byte
      BY <3>5 DEF NameSize
    <3>7. \A a, b \in Byte : a + 256 * b \in Int
      BY DEF Byte
    <3>. QED BY <3>6, <3>7
  <2>2. IntervalOf(recs, junk) = IF value >= AdvIntervalMin /\ value <= AdvIntervalMax
                                 THEN value ELSE RuntimeInterval
    BY <1>2 DEF IntervalOf
  <2>3. new = SetAdvInterval(info, value)
    BY <1>2 DEF BootInterval
  <2>. HIDE DEF value, new
  <2>4. CASE value \in AdvIntervalMin..AdvIntervalMax
    <3>1. new = [info EXCEPT !.adv_interval = value]
      BY <2>3, <2>4 DEF SetAdvInterval
    <3>2. value >= AdvIntervalMin /\ value <= AdvIntervalMax
      BY <2>1, <2>4 DEF AdvIntervalMin, AdvIntervalMax
    <3>. QED BY <2>2, <2>4, <3>1, <3>2 DEF SysInfo, new
  <2>5. CASE value \notin AdvIntervalMin..AdvIntervalMax
    <3>1. new = info
      BY <2>3, <2>5 DEF SetAdvInterval
    <3>2. ~(value >= AdvIntervalMin /\ value <= AdvIntervalMax)
      BY <2>1, <2>5 DEF AdvIntervalMin, AdvIntervalMax
    <3>. QED BY <2>2, <3>1, <3>2 DEF new
  <2>. QED BY <2>4, <2>5
<1>. QED BY <1>1, <1>2

(* The name the boot takes: zeros behind that of the record. *)
NameOf(recs) ==
  [i \in 1..NameSize |->
     IF recs["name"] # NoRecord /\ i <= Len(recs["name"]) THEN recs["name"][i] ELSE 0]

LEMMA BootInfoFacts ==
  ASSUME NEW recs \in Recs, NEW junk \in Byte
  PROVE  /\ BootInfo(recs, junk) \in SysInfo
         /\ BootInfo(recs, junk).ble_name = NameOf(recs)
         /\ BootInfo(recs, junk).adv_interval = IntervalOf(recs, junk)
         /\ GetRuntimeBit(BootInfo(recs, junk), PhoneConnected) = 0
         /\ GetRuntimeBit(BootInfo(recs, junk), Activated) =
              IF recs["mac"] = NoRecord THEN 0 ELSE 1
<1>. DEFINE mac == BootMac(SetRuntimeDefault, recs)
            int == BootInterval(mac, recs, junk)
            new == BootName(int, recs)
<1>1. /\ mac \in SysInfo /\ mac.adv_interval = RuntimeInterval
      /\ mac.ble_name = Same(NameSize, 0)
      /\ GetRuntimeBit(mac, PhoneConnected) = 0
      /\ GetRuntimeBit(mac, Activated) = IF recs["mac"] = NoRecord THEN 0 ELSE 1
  <2>1. CASE recs["mac"] = NoRecord
    <3>1. mac = SetRuntimeDefault
      BY <2>1 DEF BootMac
    <3>. QED BY <2>1, <3>1, DefaultFacts
  <2>2. CASE recs["mac"] # NoRecord
    <3>1. mac = SetRuntimeBit(SetRuntimeDefault, Activated, 1)
      BY <2>2 DEF BootMac
    <3>2. PhoneConnected # Activated
      BY DEF PhoneConnected, Activated
    <3>. HIDE DEF mac
    <3>. QED BY <2>2, <3>1, <3>2, DefaultFacts, FlagFacts
  <2>. QED BY <2>1, <2>2
<1>. HIDE DEF mac
<1>2. /\ int \in SysInfo /\ int.adv_interval = IntervalOf(recs, junk)
      /\ int.ble_name = Same(NameSize, 0)
      /\ int.rumtime_flag = mac.rumtime_flag
  BY <1>1, IntervalFacts
<1>. HIDE DEF int
<1>3. /\ new \in SysInfo /\ new.adv_interval = int.adv_interval
      /\ new.rumtime_flag = int.rumtime_flag
      /\ new.ble_name = NameOf(recs)
  <2>1. CASE recs["name"] = NoRecord
    <3>1. new = int
      BY <2>1 DEF BootName
    <3>2. Same(NameSize, 0) = NameOf(recs)
      BY <2>1 DEF Same, NameOf
    <3>. QED BY <1>2, <3>1, <3>2
  <2>2. CASE recs["name"] # NoRecord
    <3>. DEFINE name == recs["name"]
                read == FlashTlvRead(name, Same(NameSize, 0), Len(name))
    <3>1. name \in Seq(Byte) /\ Len(name) \in Nat
      <4>1. "name" \in ConfigTags
        BY DEF ConfigTags
      <4>. QED BY <2>2, <4>1, RecFacts
    <3>2. Same(NameSize, 0) \in Seq(Byte) /\ Len(Same(NameSize, 0)) = NameSize
      BY SameFacts DEF Byte
    <3>3. read \in Seq(Byte) /\ Len(read) = NameSize
      <4>. HIDE DEF name
      <4>. QED BY <3>1, <3>2, ReadType
    <3>4. new = [int EXCEPT !.ble_name = read]
      BY <2>2 DEF BootName, SetBleName
    <3>5. read = NameOf(recs)
      <4>1. read = [i \in 1..NameSize |-> IF i <= Len(name) THEN name[i] ELSE Same(NameSize, 0)[i]]
        <5>1. Len(name) \in Nat
          BY <3>1, LenProperties
        <5>2. ~(Len(name) > Len(name))
          BY <5>1
        <5>3. read = [i \in 1..Len(Same(NameSize, 0)) |->
                        IF i <= Len(name) THEN name[i] ELSE Same(NameSize, 0)[i]]
          BY <5>2 DEF FlashTlvRead
        <5>. QED BY <3>2, <5>3
      <4>2. \A i \in 1..NameSize : Same(NameSize, 0)[i] = 0
        BY DEF Same
      <4>. HIDE DEF read
      <4>. QED BY <2>2, <4>1, <4>2 DEF NameOf
    <3>. HIDE DEF read, new
    <3>. QED BY <1>2, <3>3, <3>4, <3>5 DEF SysInfo
  <2>. QED BY <2>1, <2>2
<1>4. BootInfo(recs, junk) = new
  BY DEF BootInfo, new, int, mac
<1>. HIDE DEF new
<1>. QED BY <1>1, <1>2, <1>3, <1>4 DEF GetRuntimeBit

(***************************************************************************)
(* The advertisement.                                                      *)
(***************************************************************************)
LEMMA FirstPlace ==
  ASSUME NEW S, S \subseteq Nat, S # {}
  PROVE  \E n \in S : \A m \in S : ~(m < n)
<1>. DEFINE R == OpToRel(<, Nat)
<1>1. IsWellFoundedOn(R, Nat)
  BY NatLessThanWellFounded
<1>2. \A m, n \in Nat : m < n => <<m, n>> \in R
  BY DEF OpToRel
<1>. HIDE DEF R
<1>3. PICK n \in S : \A m \in S : <<m, n>> \notin R
  BY <1>1, WFMin
<1>. QED BY <1>2, <1>3

(* strlen() stops at the first NUL: behind the letters that were kept      *)
(* there is one at the latest.                                             *)
LEMMA BleNameFacts ==
  ASSUME NEW info \in SysInfo, NEW kept \in Seq(Byte), Len(kept) <= NameSize + 1,
         \A i \in 1..Len(kept) :
           (info.ble_name \o <<info.rumtime_flag, 0>>)[i] = kept[i],
         (info.ble_name \o <<info.rumtime_flag, 0>>)[Len(kept) + 1] = 0
  PROVE  /\ BleName(info) \in Seq(Byte)
         /\ IsStringOf(BleName(info), kept)
<1>. DEFINE bytes == info.ble_name \o <<info.rumtime_flag, 0>>
            zeros == {i \in 1..Len(bytes) : bytes[i] = 0}
            First(i) == bytes[i] = 0 /\ \A j \in 1..(i - 1) : bytes[j] # 0
            end == CHOOSE i \in 1..Len(bytes) : First(i)
<1>1. bytes \in Seq(Byte) /\ Len(bytes) = NameSize + 2
  <2>1. info.ble_name \in Seq(Byte) /\ Len(info.ble_name) = NameSize
    BY DEF SysInfo
  <2>2. <<info.rumtime_flag, 0>> \in Seq(Byte) /\ Len(<<info.rumtime_flag, 0>>) = 2
    BY DEF SysInfo, Byte
  <2>. QED BY <2>1, <2>2, ConcatProperties
<1>2. Len(kept) \in Nat /\ Len(kept) + 1 \in 1..Len(bytes)
  <2>1. Len(kept) \in Nat
    BY LenProperties
  <2>. QED BY <1>1, <2>1 DEF NameSize
<1>0. Len(bytes) \in Nat
  BY <1>1, LenProperties
<1>. HIDE DEF bytes
<1>3. end \in 1..Len(bytes) /\ First(end)
  <2>1. Len(kept) + 1 \in zeros
    BY <1>2 DEF bytes
  <2>2. zeros \subseteq Nat
    BY <1>0
  <2>3. PICK n \in zeros : \A m \in zeros : ~(m < n)
    <3>. HIDE DEF zeros
    <3>. QED BY <2>1, <2>2, FirstPlace
  <2>4. \A j \in 1..(n - 1) : j \in 1..Len(bytes) /\ j < n
    BY <1>0, <2>3
  <2>5. n \in 1..Len(bytes) /\ First(n)
    BY <2>3, <2>4
  <2>. QED BY <2>5
<1>4. BleName(info) = SubSeq(bytes, 1, end - 1)
  BY DEF BleName, bytes
<1>. HIDE DEF end
<1>5. end - 1 \in 0..Len(kept)
  <2>1. end \in Nat /\ end >= 1
    BY <1>0, <1>3
  <2>2. ~(Len(kept) + 1 < end)
    <3>1. SUFFICES ASSUME Len(kept) + 1 < end PROVE FALSE
      OBVIOUS
    <3>2. Len(kept) + 1 \in 1..(end - 1)
      BY <1>2, <2>1, <3>1
    <3>3. bytes[Len(kept) + 1] = 0
      BY DEF bytes
    <3>. QED BY <1>3, <3>2, <3>3
  <2>. QED BY <1>2, <2>1, <2>2
<1>6. \A i \in 1..(end - 1) : bytes[i] \in Byte /\ bytes[i] = kept[i] /\ bytes[i] # 0
  <2>1. \A i \in 1..(end - 1) : i \in 1..Len(bytes) /\ i \in 1..Len(kept)
    BY <1>0, <1>2, <1>3, <1>5
  <2>2. bytes \in [1..Len(bytes) -> Byte]
    BY <1>1, LenProperties
  <2>. QED BY <1>3, <2>1, <2>2 DEF bytes
<1>. DEFINE s == SubSeq(bytes, 1, end - 1)
<1>7. /\ s \in Seq(Byte)
      /\ Len(s) = IF 1 <= end - 1 THEN end - 1 - 1 + 1 ELSE 0
      /\ \A i \in 1..(end - 1 - 1 + 1) : s[i] = bytes[1 + i - 1]
  <2>1. end - 1 \in Int
    BY <1>5
  <2>. QED BY <1>6, <2>1, SubSeqProperties
<1>. HIDE DEF s
<1>8. /\ Len(s) = end - 1
      /\ \A i \in 1..Len(s) : s[i] = bytes[i]
  <2>1. \A n \in Nat : /\ (IF 1 <= n THEN n - 1 + 1 ELSE 0) = n
                        /\ n - 1 + 1 = n
                        /\ \A i \in 1..n : 1 + i - 1 = i
    OBVIOUS
  <2>2. end - 1 \in Nat
    BY <1>5
  <2>. QED BY <1>7, <2>1, <2>2
<1>9. Len(s) < Len(kept) => kept[Len(s) + 1] = 0
  <2>1. SUFFICES ASSUME Len(s) < Len(kept) PROVE kept[Len(s) + 1] = 0
    OBVIOUS
  <2>2. Len(s) + 1 = end /\ end \in 1..Len(kept)
    <3>1. \A l, k, e \in Nat : l = e - 1 /\ l < k => l + 1 = e /\ e \in 1..k
      OBVIOUS
    <3>2. end \in Nat
      BY <1>0, <1>3
    <3>3. Len(s) \in Nat
      BY <1>7, LenProperties
    <3>. QED BY <1>2, <1>8, <2>1, <3>1, <3>2, <3>3
  <2>3. bytes[end] = kept[end]
    BY <2>2 DEF bytes
  <2>. QED BY <1>3, <2>2, <2>3
<1>10. Len(s) <= Len(kept)
  BY <1>2, <1>5, <1>8
<1>. QED BY <1>4, <1>6, <1>7, <1>8, <1>9, <1>10 DEF IsStringOf, s

LEMMA Places ==
  /\ \A n \in 1..NameSize :
       /\ n \in Nat /\ 1 <= n /\ n <= NameSize + 1 /\ ~(n + 1 <= n)
       /\ n <= 28 => n # NameSize
       /\ n # NameSize => n + 1 \in 1..NameSize
       /\ \A i \in 1..n : i \in 1..NameSize /\ i <= n
  /\ \A n \in Nat : n # 0 /\ n <= NameSize => n \in 1..NameSize
  /\ \A n \in Nat : n <= NameSize => n \in 0..NameSize
BY DEF NameSize

LEMMA MacFacts ==
  ASSUME NEW addr \in Seq(Byte), Len(addr) = BdAddrLen
  PROVE  Len(EpaperDefaultPrefix \o MacToStr(addr, 2)) = 12
<1>. DEFINE text == MacToStr(addr, 2)
<1>1. text = [i \in 1..6 |->
                HexDigit(IF i % 2 = 1 THEN addr[3 - (i - 1) \div 2] \div 16
                                      ELSE addr[3 - (i - 1) \div 2] % 16)]
  BY DEF MacToStr
<1>. HIDE DEF text
<1>2. addr \in [1..6 -> Byte]
  BY LenProperties DEF BdAddrLen
<1>3. \A b \in Byte : HexDigit(b \div 16) \in Int /\ HexDigit(b % 16) \in Int
  BY DEF Byte, HexDigit
<1>4. \A i \in 1..6 : 3 - (i - 1) \div 2 \in 1..6
  OBVIOUS
<1>5. text \in [1..6 -> Int]
  BY <1>1, <1>2, <1>3, <1>4
<1>6. text \in Seq(Int)
  <2>1. Seq(Int) = UNION {[1..n -> Int] : n \in Nat}
    BY SeqDef
  <2>. QED BY <1>5, <2>1
<1>7. Len(text) = 6
  BY <1>5, <1>6, LenProperties
<1>8. EpaperDefaultPrefix \in Seq(Int) /\ Len(EpaperDefaultPrefix) = 6
  BY DEF EpaperDefaultPrefix
<1>9. Len(EpaperDefaultPrefix \o text) = Len(EpaperDefaultPrefix) + Len(text)
  BY <1>6, <1>8, ConcatProperties
<1>. QED BY <1>7, <1>8, <1>9 DEF text

(* What AdvertisesTheBoot says, of any advertisement made from the         *)
(* settings of a boot while no phone is connected.                         *)
LEMMA AdvertisementFacts ==
  ASSUME NEW recs \in Recs, NEW info \in SysInfo,
         NEW addr \in Seq(Byte), Len(addr) = BdAddrLen,
         recs["name"] # NoRecord => Len(recs["name"]) <= NameSize,
         info.ble_name = NameOf(recs),
         info.rumtime_flag = IF recs["mac"] = NoRecord THEN 0 ELSE Activated
  PROVE  LET ad == Advertisement(info, addr)
             name == recs["name"]
             named == name # NoRecord /\ name # <<>> /\ name[1] \notin {0, 255}
             kept == IF Len(name) = NameSize /\ recs["mac"] # NoRecord
                     THEN name \o <<Activated>> ELSE name
         IN  /\ ad.intv_min >= 32 /\ ad.intv_min <= ad.intv_max
             /\ ad.intv_max = info.adv_interval
             /\ ~named \/ Len(name) <= 28 => ad.scan_rsp_data_len <= 31
             /\ ~named => ad.name = EpaperDefaultPrefix \o MacToStr(addr, 2)
             /\ named => IsStringOf(ad.name, kept)
<1>. DEFINE ad == Advertisement(info, addr)
            name == recs["name"]
            named == name # NoRecord /\ name # <<>> /\ name[1] \notin {0, 255}
            kept == IF Len(name) = NameSize /\ recs["mac"] # NoRecord
                    THEN name \o <<Activated>> ELSE name
            tail == <<info.rumtime_flag, 0>>
            bytes == info.ble_name \o tail
<1>1. /\ ad.intv_min = 32 /\ ad.intv_max = info.adv_interval
      /\ ad.name = LocalName(info, addr)
      /\ ad.scan_rsp_data_len = Len(LocalName(info, addr)) + 3
  BY DEF Advertisement, GapAdvIntMin
<1>2. info.adv_interval \in Int /\ info.adv_interval >= 32
  <2>1. \A n \in AdvIntervalMin..AdvIntervalMax : n \in Int /\ n >= 32
    BY DEF AdvIntervalMin, AdvIntervalMax
  <2>2. info.adv_interval \in AdvIntervalMin..AdvIntervalMax
    BY DEF SysInfo
  <2>. QED BY <2>1, <2>2
<1>3. name # NoRecord => /\ name \in Seq(Byte) /\ Len(name) \in 0..NameSize
                         /\ name \in [1..Len(name) -> Byte]
                         /\ name # <<>> => Len(name) \in 1..NameSize
  <2>1. SUFFICES ASSUME name # NoRecord
                 PROVE  /\ name \in Seq(Byte) /\ Len(name) \in 0..NameSize
                        /\ name \in [1..Len(name) -> Byte]
                        /\ name # <<>> => Len(name) \in 1..NameSize
    OBVIOUS
  <2>2. "name" \in ConfigTags
    BY DEF ConfigTags
  <2>3. name \in Seq(Byte) /\ Len(name) \in Nat /\ Len(name) <= NameSize
    BY <2>1, <2>2, RecFacts
  <2>. HIDE DEF name
  <2>4. name # <<>> => Len(name) # 0
    BY <2>3, EmptySeq
  <2>5. name # <<>> => Len(name) \in 1..NameSize
    BY <2>3, <2>4, Places
  <2>6. Len(name) \in 0..NameSize
    BY <2>3, Places
  <2>. QED BY <2>3, <2>5, <2>6, LenProperties
<1>4. info.ble_name[1] = IF name # NoRecord /\ name # <<>> THEN name[1] ELSE 0
  <2>1. 1 \in 1..NameSize
    BY DEF NameSize
  <2>2. name # NoRecord /\ name # <<>> => 1 <= Len(name)
    BY <1>3, Places
  <2>3. name = <<>> => ~(1 <= Len(name))
    OBVIOUS
  <2>. QED BY <2>1, <2>2, <2>3 DEF NameOf
<1>. HIDE DEF ad
<1>5. CASE ~named
  <2>1. info.ble_name[1] \in {0, 255}
    BY <1>4, <1>5
  <2>2. LocalName(info, addr) = EpaperDefaultPrefix \o MacToStr(addr, 2)
    BY <2>1 DEF LocalName
  <2>3. ad.scan_rsp_data_len = 15
    BY <1>1, <2>2, MacFacts
  <2>. QED BY <1>1, <1>2, <1>5, <2>2, <2>3 DEF ad
<1>6. CASE named
  <2>1. info.ble_name[1] \notin {0, 255}
    BY <1>4, <1>6
  <2>2. LocalName(info, addr) = BleName(info)
    BY <2>1 DEF LocalName
  <2>3. /\ bytes \in Seq(Byte)
        /\ \A i \in 1..(NameSize + 2) :
             bytes[i] = IF i <= NameSize THEN info.ble_name[i] ELSE tail[i - NameSize]
    <3>1. info.ble_name \in Seq(Byte) /\ Len(info.ble_name) = NameSize
      BY DEF SysInfo
    <3>2. tail \in Seq(Byte) /\ Len(tail) = 2
      BY DEF SysInfo, Byte
    <3>3. \A i \in 1..(NameSize + 2) :
            (info.ble_name \o tail)[i] =
              IF i <= NameSize THEN info.ble_name[i] ELSE tail[i - NameSize]
      <4>1. \A i \in 1..(Len(info.ble_name) + Len(tail)) :
              (info.ble_name \o tail)[i] =
                IF i <= Len(info.ble_name) THEN info.ble_name[i]
                ELSE tail[i - Len(info.ble_name)]
        <5>1. \A a, b \in Seq(Byte) :
                \A i \in 1..(Len(a) + Len(b)) :
                  (a \o b)[i] = IF i <= Len(a) THEN a[i] ELSE b[i - Len(a)]
          BY ConcatProperties
        <5>2. info.ble_name \in Seq(Byte) /\ tail \in Seq(Byte)
          BY <3>1, <3>2
        <5>. HIDE DEF tail
        <5>. QED BY <5>1, <5>2
      <4>. HIDE DEF tail
      <4>. QED BY <3>1, <3>2, <4>1
    <3>4. info.ble_name \o tail \in Seq(Byte)
      <4>. HIDE DEF tail
      <4>. QED BY <3>1, <3>2, ConcatProperties
    <3>. QED BY <3>3, <3>4
  <2>4. /\ kept \in Seq(Byte) /\ Len(kept) <= NameSize + 1
        /\ \A i \in 1..Len(kept) : bytes[i] = kept[i]
        /\ bytes[Len(kept) + 1] = 0
    <3>1. \A i \in 1..NameSize : info.ble_name[i] = IF i <= Len(name) THEN name[i] ELSE 0
      BY <1>6 DEF NameOf
    <3>2. tail[1] = info.rumtime_flag /\ tail[2] = 0
      OBVIOUS
    <3>3. /\ bytes[NameSize + 1] = info.rumtime_flag /\ bytes[NameSize + 2] = 0
          /\ \A i \in 1..NameSize : bytes[i] = info.ble_name[i]
      <4>1. /\ NameSize + 1 \in 1..(NameSize + 2) /\ ~(NameSize + 1 <= NameSize)
            /\ NameSize + 2 \in 1..(NameSize + 2) /\ ~(NameSize + 2 <= NameSize)
            /\ NameSize + 1 - NameSize = 1 /\ NameSize + 2 - NameSize = 2
            /\ \A i \in 1..NameSize : i \in 1..(NameSize + 2) /\ i <= NameSize
        BY DEF NameSize
      <4>2. \A i \in 1..(NameSize + 2) :
              bytes[i] = IF i <= NameSize THEN info.ble_name[i] ELSE tail[i - NameSize]
        BY <2>3
      <4>. HIDE DEF bytes, tail
      <4>4. bytes[NameSize + 1] = tail[1] /\ bytes[NameSize + 2] = tail[2]
        <5>1. ASSUME NEW f, NEW g, NEW h,
                     \A i \in 1..34 : f[i] = IF i <= 32 THEN g[i] ELSE h[i - 32]
              PROVE  f[33] = h[1] /\ f[34] = h[2]
          BY <5>1
        <5>2. NameSize = 32 /\ NameSize + 1 = 33 /\ NameSize + 2 = 34
          BY DEF NameSize
        <5>3. \A i \in 1..34 : bytes[i] = IF i <= 32 THEN info.ble_name[i] ELSE tail[i - 32]
          BY <4>2, <5>2
        <5>4. bytes[33] = tail[1] /\ bytes[34] = tail[2]
          BY <5>1, <5>3
        <5>. QED BY <5>2, <5>4
      <4>5. \A i \in 1..NameSize : bytes[i] = info.ble_name[i]
        BY <4>1, <4>2
      <4>. QED BY <3>2, <4>4, <4>5
    <3>. HIDE DEF bytes, tail
    <3>4. CASE Len(name) = NameSize /\ recs["mac"] # NoRecord
      <4>1. kept = name \o <<Activated>>
        BY <3>4
      <4>2. <<Activated>> \in Seq(Byte) /\ Len(<<Activated>>) = 1 /\ <<Activated>>[1] = Activated
        BY DEF Activated, Byte
      <4>. HIDE DEF kept, name
      <4>3. name \in Seq(Byte)
        BY <1>3, <1>6
      <4>4. /\ kept \in Seq(Byte) /\ Len(kept) = NameSize + 1
            /\ \A i \in 1..(NameSize + 1) :
                 kept[i] = IF i <= NameSize THEN name[i] ELSE <<Activated>>[i - NameSize]
        BY <3>4, <4>1, <4>2, <4>3, ConcatProperties
      <4>5. \A i \in 1..(NameSize + 1) :
              bytes[i] = IF i <= NameSize THEN name[i] ELSE Activated
        <5>1. \A i \in 1..(NameSize + 1) : i \in 1..NameSize \/ i = NameSize + 1
          BY DEF NameSize
        <5>2. \A i \in 1..NameSize : i <= NameSize /\ i <= Len(name)
          BY <3>4 DEF NameSize
        <5>3. ~(NameSize + 1 <= NameSize)
          BY DEF NameSize
        <5>. QED BY <3>1, <3>3, <3>4, <5>1, <5>2, <5>3
      <4>6. \A i \in 1..(NameSize + 1) : i <= NameSize \/ i - NameSize = 1
        BY DEF NameSize
      <4>7. \A i \in 1..(NameSize + 1) : bytes[i] = kept[i]
        BY <4>2, <4>4, <4>5, <4>6
      <4>8. bytes[NameSize + 1 + 1] = 0 /\ NameSize + 1 <= NameSize + 1
        BY <3>3 DEF NameSize
      <4>. QED BY <4>4, <4>7, <4>8
    <3>5. CASE ~(Len(name) = NameSize /\ recs["mac"] # NoRecord)
      <4>1. kept = name
        BY <3>5
      <4>. HIDE DEF kept
      <4>2. name \in Seq(Byte) /\ Len(name) \in 1..NameSize
        BY <1>3, <1>6
      <4>3. \A i \in 1..Len(name) : bytes[i] = name[i]
        <5>1. \A i \in 1..Len(name) : i \in 1..NameSize /\ i <= Len(name)
          BY <4>2, Places
        <5>. QED BY <3>1, <3>3, <5>1
      <4>4. bytes[Len(name) + 1] = 0
        <5>1. CASE Len(name) = NameSize
          <6>1. info.rumtime_flag = 0
            BY <3>5, <5>1
          <6>. QED BY <3>3, <5>1, <6>1
        <5>2. CASE Len(name) # NameSize
          <6>1. Len(name) + 1 \in 1..NameSize /\ ~(Len(name) + 1 <= Len(name))
            BY <4>2, <5>2, Places
          <6>. QED BY <3>1, <3>3, <6>1
        <5>. QED BY <5>1, <5>2
      <4>5. Len(name) <= NameSize + 1
        BY <4>2, Places
      <4>. QED BY <4>1, <4>2, <4>3, <4>4, <4>5
    <3>. QED BY <3>4, <3>5
  <2>5. BleName(info) \in Seq(Byte) /\ IsStringOf(BleName(info), kept)
    <3>. HIDE DEF kept
    <3>. QED BY <2>4, BleNameFacts
  <2>6. Len(name) <= 28 => ad.scan_rsp_data_len <= 31
    <3>1. SUFFICES ASSUME Len(name) <= 28 PROVE ad.scan_rsp_data_len <= 31
      OBVIOUS
    <3>2. kept = name
      BY <1>3, <1>6, <3>1, Places
    <3>3. Len(BleName(info)) \in Nat /\ Len(BleName(info)) <= Len(name)
      BY <2>5, <3>2, LenProperties DEF IsStringOf
    <3>4. Len(name) \in Nat
      BY <1>3, <1>6
    <3>. QED BY <1>1, <2>2, <3>1, <3>3, <3>4
  <2>. QED BY <1>1, <1>2, <1>6, <2>2, <2>5, <2>6 DEF ad
<1>. QED BY <1>5, <1>6

(***************************************************************************)
(* The invariant: the types, the flags and the settings of the boot, and   *)
(* what is advertised of them.                                             *)
(***************************************************************************)
PhoneIsLinked == phone => link = "connected"

DInv ==
  /\ CInv
  /\ PhoneIsLinked
  /\ records \in Recs /\ booted \in Recs
  /\ sysinfo \in SysInfo
  /\ address \in Seq(Byte) /\ Len(address) = BdAddrLen
  /\ FlagsAgree
  /\ SettingsAreRecorded
  /\ sysinfo.ble_name = NameOf(booted)
  /\ AdvertisesTheBoot

LEMMA PhoneLinked == PhoneIsLinked /\ [Next]_vars => PhoneIsLinked'
<1>. SUFFICES ASSUME PhoneIsLinked, [Next]_vars PROVE PhoneIsLinked'
  OBVIOUS
<1>. USE DEF PhoneIsLinked
<1>1. CASE UNCHANGED vars
  BY <1>1 DEF vars
<1>2. CASE SlpTimerCallback \/ DatabaseAddCompleted
  BY <1>2 DEF SlpTimerCallback, DatabaseAddCompleted
<1>3. ASSUME NEW b \in BOOLEAN, SlaveConnected(b) \/ PhoneUpdates(b) PROVE PhoneIsLinked'
  BY <1>3 DEF SlaveConnected, PhoneUpdates, ParamInd
<1>4. CASE SlaveDisconnected \/ Restart
  BY <1>4 DEF SlaveDisconnected, Restart
<1>5. CASE ParamTimer
  BY <1>5 DEF ParamTimer, AskUpdate, AskLater, AskNothing, vars
<1>6. CASE UpdateAccepted \/ UpdateRejected
  BY <1>6 DEF UpdateAccepted, UpdateRejected, UpdateFails, UpdateRefused, UpdateGivenUp, ParamInd
<1>. QED BY <1>1, <1>2, <1>3, <1>4, <1>5, <1>6 DEF Next

(* Without a phone the flags say one thing only. *)
LEMMA FlagAlone ==
  ASSUME NEW info \in SysInfo, NEW val \in {0, 1},
         GetRuntimeBit(info, PhoneConnected) = 0, GetRuntimeBit(info, Activated) = val
  PROVE  info.rumtime_flag = val
<1>1. \A n \in 0..3 : (n \div 2) % 2 = 0 /\ (n \div 1) % 2 = val => n = val
  OBVIOUS
<1>2. info.rumtime_flag \in 0..3
  BY DEF SysInfo
<1>. QED BY <1>1, <1>2 DEF GetRuntimeBit, Activated, PhoneConnected

(* Advertised from the settings while no phone is connected. *)
LEMMA AdvertisesSettings ==
  ASSUME NEW recs \in Recs, NEW info \in SysInfo,
         NEW addr \in Seq(Byte), Len(addr) = BdAddrLen,
         info.ble_name = NameOf(recs),
         GetRuntimeBit(info, PhoneConnected) = 0,
         GetRuntimeBit(info, Activated) = IF recs["mac"] = NoRecord THEN 0 ELSE 1,
         booted' = recs, sysinfo' = info, address' = addr,
         advert' = Advertisement(info, addr)
  PROVE  AdvertisesTheBoot'
<1>1. info.rumtime_flag = IF recs["mac"] = NoRecord THEN 0 ELSE Activated
  <2>1. (IF recs["mac"] = NoRecord THEN 0 ELSE 1) \in {0, 1}
    OBVIOUS
  <2>. QED BY <2>1, FlagAlone DEF Activated
<1>. DEFINE name == recs["name"]
            named == name # NoRecord /\ name # <<>> /\ name[1] \notin {0, 255}
            kept == IF Len(name) = NameSize /\ recs["mac"] # NoRecord
                    THEN name \o <<Activated>> ELSE name
            ad == Advertisement(info, addr)
<1>2. CASE name # NoRecord /\ Len(name) > NameSize
  BY <1>2 DEF AdvertisesTheBoot, NameOverrun
<1>3. CASE ~(name # NoRecord /\ Len(name) > NameSize)
  <2>1. name # NoRecord => Len(name) <= NameSize
    <3>1. name # NoRecord => Len(name) \in Nat
      BY RecFacts DEF ConfigTags
    <3>. HIDE DEF name
    <3>. QED BY <1>3, <3>1 DEF NameSize
  <2>2. /\ ad.intv_min >= 32 /\ ad.intv_min <= ad.intv_max
        /\ ad.intv_max = info.adv_interval
        /\ ~named \/ Len(name) <= 28 => ad.scan_rsp_data_len <= 31
        /\ ~named => ad.name = EpaperDefaultPrefix \o MacToStr(addr, 2)
        /\ named => IsStringOf(ad.name, kept)
    BY <1>1, <2>1, AdvertisementFacts
  <2>. HIDE DEF ad
  <2>3. advert' = ad
    BY DEF ad
  <2>. QED BY <2>2, <2>3 DEF AdvertisesTheBoot
<1>. QED BY <1>2, <1>3

(* The part of SettingsAreRecorded that speaks of the interval. *)
LEMMA IntervalSaid ==
  ASSUME NEW recs \in Recs, NEW junk \in Byte, recs["adv_int"] # NoRecord
  PROVE  LET mac == recs["mac"]
             int == recs["adv_int"]
             value == int[1] + 256 * int[2]
             left == mac[BdAddrLen] + 256 * mac[BdAddrLen - 1]
             legal(n) == n >= AdvIntervalMin /\ n <= AdvIntervalMax
         IN  /\ Len(int) >= 2 /\ legal(value) => IntervalOf(recs, junk) = value
             /\ Len(int) >= 2 /\ ~legal(value) => IntervalOf(recs, junk) = RuntimeInterval
             /\ Len(int) < 2 /\ mac # NoRecord /\ Len(mac) >= BdAddrLen =>
                  IntervalOf(recs, junk) = IF legal(left) THEN left ELSE RuntimeInterval
<1>. DEFINE mac == recs["mac"]
            int == recs["adv_int"]
            front == AfterMac(recs, junk)
            buffer == FlashTlvRead(int, front, 2)
            read == buffer[1] + 256 * buffer[2]
<1>1. /\ int \in Seq(Byte) /\ Len(int) \in Nat
  BY RecFacts DEF ConfigTags
<1>2. /\ front \in Seq(Byte) /\ Len(front) = NameSize
      /\ mac # NoRecord /\ Len(mac) >= BdAddrLen =>
           \A i \in 1..BdAddrLen : front[i] = mac[BdAddrLen + 1 - i]
  BY AfterMacFacts
<1>3. IntervalOf(recs, junk) = IF read >= AdvIntervalMin /\ read <= AdvIntervalMax
                               THEN read ELSE RuntimeInterval
  BY DEF IntervalOf
<1>4. 2 \in 0..NameSize
  BY DEF NameSize
<1>5. /\ 2 <= Len(int) => \A i \in 1..2 : buffer[i] = int[i]
      /\ 2 > Len(int) => buffer = front
  <2>. HIDE DEF int, front
  <2>. QED BY <1>1, <1>2, <1>4, ReadFacts
<1>. HIDE DEF front, buffer
<1>6. CASE Len(int) >= 2
  <2>1. ~(Len(int) < 2)
    BY <1>1, <1>6
  <2>2. buffer[1] = int[1] /\ buffer[2] = int[2]
    BY <1>1, <1>5, <1>6
  <2>. QED BY <1>3, <2>1, <2>2
<1>7. CASE Len(int) < 2
  <2>1. ~(Len(int) >= 2)
    BY <1>1, <1>7
  <2>2. buffer = front
    BY <1>1, <1>5, <1>7
  <2>3. ASSUME mac # NoRecord, Len(mac) >= BdAddrLen
        PROVE  front[1] = mac[BdAddrLen] /\ front[2] = mac[BdAddrLen - 1]
    <3>1. /\ 1 \in 1..BdAddrLen /\ BdAddrLen + 1 - 1 = BdAddrLen
          /\ 2 \in 1..BdAddrLen /\ BdAddrLen + 1 - 2 = BdAddrLen - 1
      BY DEF BdAddrLen
    <3>. QED BY <1>2, <2>3, <3>1
  <2>. QED BY <1>3, <2>1, <2>2, <2>3
<1>. QED BY <1>1, <1>6, <1>7

LEMMA BootSets ==
  ASSUME NEW recs \in Recs, Boots(recs)
  PROVE  /\ booted' = recs
         /\ sysinfo' \in SysInfo
         /\ address' \in Seq(Byte) /\ Len(address') = BdAddrLen
         /\ GetRuntimeBit(sysinfo', PhoneConnected) = 0
         /\ GetRuntimeBit(sysinfo', Activated) = IF recs["mac"] = NoRecord THEN 0 ELSE 1
         /\ SettingsAreRecorded'
         /\ sysinfo'.ble_name = NameOf(recs)
         /\ AdvertisesTheBoot'
<1>1. PICK junk \in Garbage : address' = BootAddress(recs, junk) /\ sysinfo' = BootInfo(recs, junk)
  BY DEF Boots
<1>2. junk \in Byte
  BY WritesAssumption
<1>3. booted' = recs
  BY DEF Boots
<1>4. /\ sysinfo' \in SysInfo
      /\ sysinfo'.adv_interval = IntervalOf(recs, junk)
      /\ GetRuntimeBit(sysinfo', PhoneConnected) = 0
      /\ GetRuntimeBit(sysinfo', Activated) = IF recs["mac"] = NoRecord THEN 0 ELSE 1
      /\ sysinfo'.ble_name = NameOf(recs)
  BY <1>1, <1>2, BootInfoFacts
<1>5. /\ address' \in Seq(Byte) /\ Len(address') = BdAddrLen
      /\ recs["mac"] = NoRecord => address' = DefaultMac
      /\ recs["mac"] # NoRecord /\ Len(recs["mac"]) >= BdAddrLen =>
           \A i \in 1..BdAddrLen : address'[i] = recs["mac"][BdAddrLen + 1 - i]
  BY <1>1, <1>2, BootAddressFacts
<1>6. recs["adv_int"] = NoRecord => IntervalOf(recs, junk) = RuntimeInterval
  BY DEF IntervalOf
<1>7. SettingsAreRecorded'
  <2>1. CASE recs["adv_int"] = NoRecord
    BY <1>3, <1>4, <1>5, <1>6, <2>1 DEF SettingsAreRecorded
  <2>2. CASE recs["adv_int"] # NoRecord
    BY <1>2, <1>3, <1>4, <1>5, <2>2, IntervalSaid DEF SettingsAreRecorded
  <2>. QED BY <2>1, <2>2
<1>8. AdvertisesTheBoot'
  BY DEF Boots, AdvertisesTheBoot, Advertising
<1>. QED BY <1>3, <1>4, <1>5, <1>7, <1>8

LEMMA DInit == DeviceInit => DInv
<1>. SUFFICES ASSUME DeviceInit PROVE DInv
  OBVIOUS
<1>1. CInv /\ phone = FALSE
  BY CInit DEF DeviceInit, Init
<1>2. NoRecords \in Recs /\ \A t \in ConfigTags : NoRecords[t] = NoRecord
  BY DEF NoRecords, Recs
<1>3. DefaultMac \in Seq(Byte) /\ Len(DefaultMac) = BdAddrLen
  BY DEF DefaultMac, Byte, BdAddrLen
<1>4. /\ booted["mac"] = NoRecord /\ booted["adv_int"] = NoRecord
      /\ address = DefaultMac /\ sysinfo = SetRuntimeDefault
  BY <1>2 DEF DeviceInit, ConfigTags
<1>5. FlagsAgree
  BY <1>1, <1>4, DefaultFacts DEF FlagsAgree
<1>6. SettingsAreRecorded
  BY <1>4, DefaultFacts DEF SettingsAreRecorded
<1>7. sysinfo.ble_name = NameOf(booted)
  <2>1. Same(NameSize, 0) = NameOf(booted)
    BY <1>2 DEF DeviceInit, NameOf, Same, ConfigTags
  <2>. QED BY <1>4, <2>1, DefaultFacts
<1>8. AdvertisesTheBoot /\ PhoneIsLinked
  BY <1>1 DEF DeviceInit, AdvertisesTheBoot, Advertising, PhoneIsLinked
<1>. QED BY <1>1, <1>2, <1>3, <1>4, <1>5, <1>6, <1>7, <1>8, DefaultFacts DEF DInv, DeviceInit

LEMMA DNext == DInv /\ [DeviceNext]_dvars => DInv'
<1>. SUFFICES ASSUME DInv, [DeviceNext]_dvars PROVE DInv'
  OBVIOUS
<1>1. CInv' /\ PhoneIsLinked'
  BY DeviceStep, CNext, PhoneLinked DEF DInv
<1>2. CASE Reboot
  <2>1. Boots(records) /\ records' = records /\ phone' = FALSE
    BY <1>2 DEF Reboot, Restart
  <2>2. records \in Recs
    BY DEF DInv
  <2>3. /\ booted' = records /\ sysinfo' \in SysInfo
        /\ address' \in Seq(Byte) /\ Len(address') = BdAddrLen
        /\ GetRuntimeBit(sysinfo', PhoneConnected) = 0
        /\ GetRuntimeBit(sysinfo', Activated) = IF records["mac"] = NoRecord THEN 0 ELSE 1
        /\ SettingsAreRecorded'
        /\ sysinfo'.ble_name = NameOf(records)
        /\ AdvertisesTheBoot'
    BY <2>1, <2>2, BootSets
  <2>4. FlagsAgree'
    BY <2>1, <2>3 DEF FlagsAgree
  <2>. QED BY <1>1, <2>1, <2>2, <2>3, <2>4 DEF DInv
<1>3. ASSUME UNCHANGED <<records, booted, address>>,
             sysinfo' = SetRuntimeBit(sysinfo, PhoneConnected, IF phone' THEN 1 ELSE 0),
             \/ phone' /\ UNCHANGED advert
             \/ ~phone' /\ advert' = Advertisement(sysinfo', address)
      PROVE  DInv'
  <2>. DEFINE val == IF phone' THEN 1 ELSE 0
  <2>0. val \in {0, 1}
    OBVIOUS
  <2>1. Activated # PhoneConnected
    BY DEF Activated, PhoneConnected
  <2>2. /\ sysinfo' \in SysInfo
        /\ GetRuntimeBit(sysinfo', PhoneConnected) = val
        /\ GetRuntimeBit(sysinfo', Activated) = GetRuntimeBit(sysinfo, Activated)
        /\ sysinfo'.adv_interval = sysinfo.adv_interval
        /\ sysinfo'.ble_name = NameOf(booted')
    BY <1>3, <2>0, <2>1, FlagFacts DEF DInv
  <2>3. FlagsAgree'
    BY <1>3, <2>2 DEF DInv, FlagsAgree
  <2>4. SettingsAreRecorded'
    BY <1>3, <2>2 DEF DInv, SettingsAreRecorded
  <2>5. AdvertisesTheBoot'
    <3>1. CASE phone' /\ UNCHANGED advert
      BY <1>3, <2>2, <3>1 DEF DInv, AdvertisesTheBoot, Advertising, NameOverrun
    <3>2. CASE ~phone' /\ advert' = Advertisement(sysinfo', address)
      <4>1. /\ booted \in Recs /\ address \in Seq(Byte) /\ Len(address) = BdAddrLen
            /\ booted' = booted /\ address' = address
        BY <1>3 DEF DInv
      <4>2. /\ GetRuntimeBit(sysinfo', PhoneConnected) = 0
            /\ GetRuntimeBit(sysinfo', Activated) = IF booted["mac"] = NoRecord THEN 0 ELSE 1
        BY <2>2, <3>2 DEF DInv, FlagsAgree
      <4>. QED BY <2>2, <3>2, <4>1, <4>2, AdvertisesSettings
    <3>. QED BY <1>3, <3>1, <3>2
  <2>. QED BY <1>1, <1>3, <2>2, <2>3, <2>4, <2>5 DEF DInv
<1>4. ASSUME UNCHANGED <<booted, address, sysinfo, phone>>, records' \in Recs,
             UNCHANGED advert \/ AdvertisesTheBoot'
      PROVE  DInv'
  <2>1. FlagsAgree' /\ SettingsAreRecorded'
    BY <1>4 DEF DInv, FlagsAgree, SettingsAreRecorded
  <2>2. AdvertisesTheBoot'
    BY <1>4 DEF DInv, AdvertisesTheBoot, Advertising, NameOverrun
  <2>3. sysinfo'.ble_name = NameOf(booted')
    BY <1>4 DEF DInv
  <2>. QED BY <1>1, <1>4, <2>1, <2>2, <2>3 DEF DInv
<1>5. CASE StartsAdvertising
  <2>1. /\ UNCHANGED <<records, booted, address, sysinfo, phone>>
        /\ advert' = Advertisement(sysinfo, address) /\ link = "boot"
    BY <1>5 DEF StartsAdvertising, DatabaseAddCompleted, settings
  <2>2. /\ GetRuntimeBit(sysinfo, PhoneConnected) = 0
        /\ GetRuntimeBit(sysinfo, Activated) = IF booted["mac"] = NoRecord THEN 0 ELSE 1
    BY <2>1 DEF DInv, PhoneIsLinked, FlagsAgree
  <2>3. /\ booted \in Recs /\ address \in Seq(Byte) /\ Len(address) = BdAddrLen
        /\ sysinfo \in SysInfo /\ sysinfo.ble_name = NameOf(booted) /\ records \in Recs
    BY DEF DInv
  <2>4. AdvertisesTheBoot'
    BY <2>1, <2>2, <2>3, AdvertisesSettings
  <2>. QED BY <1>4, <2>1, <2>3, <2>4
<1>6. CASE PhoneConnects
  <2>1. phone' = TRUE
    BY <1>6 DEF PhoneConnects, SlaveConnected
  <2>2. /\ UNCHANGED <<records, booted, address, advert>>
        /\ sysinfo' = SetRuntimeBit(sysinfo, PhoneConnected, IF phone' THEN 1 ELSE 0)
    BY <1>6, <2>1 DEF PhoneConnects
  <2>. QED BY <1>3, <2>1, <2>2
<1>7. CASE PhoneLeaves
  <2>1. phone' = FALSE
    BY <1>7 DEF PhoneLeaves, SlaveDisconnected
  <2>2. /\ UNCHANGED <<records, booted, address>>
        /\ sysinfo' = SetRuntimeBit(sysinfo, PhoneConnected, IF phone' THEN 1 ELSE 0)
        /\ advert' = Advertisement(sysinfo', address)
    BY <1>7, <2>1 DEF PhoneLeaves
  <2>. QED BY <1>3, <2>1, <2>2
<1>8. CASE Negotiates
  <2>1. UNCHANGED phone
    BY <1>8 DEF Negotiates, SlpTimerCallback, ParamTimer, AskUpdate, AskLater, AskNothing,
                vars, UpdateAccepted, PhoneUpdates, ParamInd, UpdateRejected, UpdateFails,
                UpdateRefused, UpdateGivenUp
  <2>. QED BY <1>4, <1>8, <2>1 DEF Negotiates, settings, DInv
<1>9. CASE ChangesRecord
  <2>1. records' \in Recs
    <3>1. ASSUME NEW w \in Writes, records' = [records EXCEPT ![w[1]] = w[2]]
          PROVE  records' \in Recs
      <4>1. w \in ConfigTags \X Seq(Byte)
        BY WritesAssumption
      <4>2. w[1] \in ConfigTags /\ w[2] \in Seq(Byte) /\ w = <<w[1], w[2]>>
        BY <4>1
      <4>. QED BY <3>1, <4>2 DEF DInv, Recs
    <3>2. ASSUME NEW t \in ConfigTags, records' = [records EXCEPT ![t] = NoRecord]
          PROVE  records' \in Recs
      BY <3>2 DEF DInv, Recs
    <3>. QED BY <1>9, <3>1, <3>2 DEF ChangesRecord
  <2>. QED BY <1>4, <1>9, <2>1 DEF ChangesRecord, vars
<1>10. CASE UNCHANGED dvars
  BY <1>4, <1>10 DEF dvars, settings, vars, DInv
<1>. QED BY <1>2, <1>5, <1>6, <1>7, <1>8, <1>9, <1>10 DEF DeviceNext

THEOREM DeviceInvariant == DeviceSpec => []DInv
BY DInit, DNext, PTL DEF DeviceSpec

(* The records, the settings and the address are of their types, whatever  *)
(* the phones have written (sysinfo_t in utils.h).                         *)
THEOREM DeviceTyped == DeviceSpec => []DeviceTypeOK
<1>1. DInv => DeviceTypeOK
  <2>1. SUFFICES ASSUME DInv PROVE DeviceTypeOK
    OBVIOUS
  <2>2. TypeOK
    BY <2>1 DEF DInv, CInv
  <2>3. \A recs \in {records, booted} :
          \A t \in ConfigTags : recs[t] = NoRecord \/ <<t, recs[t]>> \in Writes
    BY <2>1 DEF DInv, Recs
  <2>4. /\ sysinfo.adv_interval \in AdvIntervalMin..AdvIntervalMax
        /\ Len(sysinfo.ble_name) = NameSize
        /\ sysinfo.rumtime_flag \in 0..3
    BY <2>1 DEF DInv, SysInfo
  <2>. QED BY <2>1, <2>2, <2>3, <2>4 DEF DInv, DeviceTypeOK
<1>. QED BY <1>1, DeviceInvariant, PTL

(* The two flags of a byte that every connection rewrites stay true to the *)
(* link and to the boot (set_runtime_bit() in utils.c).                    *)
THEOREM FlagsAlwaysAgree == DeviceSpec => []FlagsAgree
<1>1. DInv => FlagsAgree
  BY DEF DInv
<1>. QED BY <1>1, DeviceInvariant, PTL

(* Whatever was written and whatever the buffer of the boot held before,   *)
(* the tag runs with what the records said (user_proj_main_before_ble_-    *)
(* ini() in proj_main.c).                                                  *)
THEOREM SettingsAreAlwaysRecorded == DeviceSpec => []SettingsAreRecorded
<1>1. DInv => SettingsAreRecorded
  BY DEF DInv
<1>. QED BY <1>1, DeviceInvariant, PTL

(* Nothing but the records of the last boot is ever advertised, for every  *)
(* name that the boot's buffer can hold, wherever its NUL is; a longer one *)
(* overruns the buffer, and nothing is said of it (epaper_start_advertis-  *)
(* ing() in epaper_svc.c, user_proj_main_before_ble_ini() in proj_main.c). *)
THEOREM BootAlwaysAdvertised == DeviceSpec => []AdvertisesTheBoot
<1>1. DInv => AdvertisesTheBoot
  BY DEF DInv
<1>. QED BY <1>1, DeviceInvariant, PTL

(* Two boots from the same records give the same tag, whatever the         *)
(* uninitialised buffer holds each time (user_proj_main_before_ble_ini()   *)
(* in proj_main.c).                                                        *)
THEOREM BootsAlwaysAlike == DeviceSpec => BootsAlike
<1>1. ASSUME DInv, DInv', Reboot, records = booted,
             records["mac"] # NoRecord => Len(records["mac"]) >= BdAddrLen,
             records["mac"] = NoRecord /\ records["adv_int"] # NoRecord
               => Len(records["adv_int"]) >= 2
      PROVE  /\ address' = address
             /\ sysinfo'.adv_interval = sysinfo.adv_interval
             /\ sysinfo'.ble_name = sysinfo.ble_name
  <2>. DEFINE mac == records["mac"]
              int == records["adv_int"]
  <2>1. DInv /\ DInv' /\ records = booted
    BY <1>1
  <2>2. booted' = booted
    BY <1>1 DEF Reboot, Boots
  <2>3. sysinfo'.ble_name = sysinfo.ble_name
    BY <2>1, <2>2 DEF DInv
  <2>4. address' = address
    <3>1. CASE mac = NoRecord
      BY <2>1, <2>2, <3>1 DEF DInv, SettingsAreRecorded
    <3>2. CASE mac # NoRecord
      <4>1. \A i \in 1..BdAddrLen : address'[i] = address[i]
        BY <1>1, <2>1, <2>2, <3>2 DEF DInv, SettingsAreRecorded
      <4>2. /\ address \in Seq(Byte) /\ Len(address) = BdAddrLen
            /\ address' \in Seq(Byte) /\ Len(address') = BdAddrLen
        BY <2>1 DEF DInv
      <4>3. address \in [1..BdAddrLen -> Byte] /\ address' \in [1..BdAddrLen -> Byte]
        BY <4>2, LenProperties
      <4>4. /\ address = [i \in 1..BdAddrLen |-> address[i]]
            /\ address' = [i \in 1..BdAddrLen |-> address'[i]]
        BY <4>3
      <4>5. [i \in 1..BdAddrLen |-> address'[i]] = [i \in 1..BdAddrLen |-> address[i]]
        BY <4>1
      <4>. QED BY <4>4, <4>5
    <3>. QED BY <3>1, <3>2
  <2>5. sysinfo'.adv_interval = sysinfo.adv_interval
    <3>1. int # NoRecord => Len(int) \in Nat
      BY <2>1, RecFacts DEF DInv, ConfigTags
    <3>2. \A n \in Nat : n >= 2 \/ n < 2
      OBVIOUS
    <3>. QED BY <1>1, <2>1, <2>2, <3>1, <3>2 DEF DInv, SettingsAreRecorded
  <2>. QED BY <2>3, <2>4, <2>5
<1>2. DInv /\ DInv' =>
        [Reboot /\ records = booted
           /\ (records["mac"] # NoRecord => Len(records["mac"]) >= BdAddrLen)
           /\ (records["mac"] = NoRecord /\ records["adv_int"] # NoRecord
                 => Len(records["adv_int"]) >= 2) =>
         /\ address' = address
         /\ sysinfo'.adv_interval = sysinfo.adv_interval
         /\ sysinfo'.ble_name = sysinfo.ble_name]_dvars
  BY <1>1
<1>. QED BY <1>2, DeviceInvariant, PTL DEF BootsAlike
=============================================================================
