------------------------------- MODULE Device -------------------------------
(***************************************************************************)
(* The tag as a phone meets it over several boots: proj_main.c reads three *)
(* configuration records before the BLE stack starts (address, advertising *)
(* interval, name), utils.c keeps them as settings together with two flags *)
(* in one byte, epaper_svc.c advertises them, and a phone that is          *)
(* connected (Connection) changes the records for the boots to come.       *)
(*                                                                         *)
(* Abstractions:                                                           *)
(*  - A record is what a search finds: its bytes, or NoRecord.  That a     *)
(*    loss of power leaves the old or the new one is shown by FlashTlv.    *)
(*  - The uninitialised bytes of the boot's buffer are all alike.          *)
(*  - A name longer than the boot's buffer is read over its end.  What the *)
(*    build does then is undefined: here the boot goes on with what is in  *)
(*    the buffer, or never comes to advertise (nothing obliges it to).     *)
(***************************************************************************)
EXTENDS Connection, Sequences

CONSTANTS
  Writes,    \* what a phone may write: <<tag, bytes>>, of any length
  Garbage,   \* the bytes an uninitialised buffer may hold
  NoRecord

BdAddrLen == 6
NameSize == 32             \* of sysinfo.ble_name and of the boot's buffer
AdvIntervalMin == 32
AdvIntervalMax == 16384
GapAdvIntMin == 32         \* intv_min
RuntimeInterval == 4800    \* 3 s in units of 625 us
ConfigTags == {"mac", "adv_int", "name"}

Byte == 0..255

ASSUME WritesAssumption ==
  /\ \A w \in Writes : w \in ConfigTags \X Seq(Byte)
  /\ Garbage \subseteq Byte

VARIABLES
  records,   \* the configuration records in flash
  booted,    \* what they were at the last boot
  sysinfo,   \* the settings: adv_interval, ble_name, rumtime_flag
  address,   \* what ble_set_addr() was told, the lowest byte first
  advert     \* what the stack was last told to advertise, or nothing

settings == <<records, booted, sysinfo, address>>
dvars == <<vars, settings, advert>>

Same(n, b) == [i \in 1..n |-> b]

(***************************************************************************)
(* utils.c                                                                 *)
(***************************************************************************)
SetRuntimeDefault ==
  [adv_interval |-> RuntimeInterval, ble_name |-> Same(NameSize, 0), rumtime_flag |-> 0]

(* Mutant of SetAdvInterval: any interval is taken. *)
BugSetAdvInterval(info, n) == [info EXCEPT !.adv_interval = n]

SetAdvInterval(info, n) ==
  IF n \in AdvIntervalMin..AdvIntervalMax THEN [info EXCEPT !.adv_interval = n] ELSE info

SetBleName(info, name) == [info EXCEPT !.ble_name = name]

(* The two flags, as their masks: 1 << FLAG_ACTIVED, ... *)
Activated == 1
PhoneConnected == 2

GetRuntimeBit(info, mask) == (info.rumtime_flag \div mask) % 2

(* Mutant of SetRuntimeBit: the other bits are cleared. *)
BugSetRuntimeBit(info, mask, val) == [info EXCEPT !.rumtime_flag = val * mask]

SetRuntimeBit(info, mask, val) ==
  [info EXCEPT !.rumtime_flag = @ + (val - GetRuntimeBit(info, mask)) * mask]

Memswap(buffer, n) ==
  [i \in 1..Len(buffer) |-> IF i \in 1..n THEN buffer[n + 1 - i] ELSE buffer[i]]

(* A character of HEX_STRING. *)
HexDigit(d) == IF d < 10 THEN 48 + d ELSE 55 + d

(* mac_to_str(): two digits a byte, from the offset down to the lowest *)
MacToStr(mac, offset) ==
  [i \in 1..(2 * (offset + 1)) |->
     LET b == mac[offset + 1 - (i - 1) \div 2]
     IN  HexDigit(IF i % 2 = 1 THEN b \div 16 ELSE b % 16)]

(* flash_tlv_read() from the start of a record: all of length, or nothing. *)
FlashTlvRead(rec, buffer, length) ==
  IF length > Len(rec) THEN buffer
  ELSE [i \in 1..Len(buffer) |-> IF i <= length THEN rec[i] ELSE buffer[i]]

(***************************************************************************)
(* user_proj_main_before_ble_ini(): the three records, read one after the  *)
(* other into one buffer; junk is what it holds before.                    *)
(***************************************************************************)
DefaultMac == <<0, 0, 0, 9, 23, 32>>   \* 00 00 00 09 17 20

AfterMac(recs, junk) ==
  IF recs["mac"] = NoRecord THEN Same(NameSize, junk)
  ELSE Memswap(FlashTlvRead(recs["mac"], Same(NameSize, junk), BdAddrLen), BdAddrLen)

(* Mutant of BootAddress: the default address is forgotten. *)
BugBootAddress(recs, junk) == SubSeq(AfterMac(recs, junk), 1, BdAddrLen)

BootAddress(recs, junk) ==
  IF recs["mac"] = NoRecord THEN DefaultMac ELSE SubSeq(AfterMac(recs, junk), 1, BdAddrLen)

BootMac(info, recs) ==
  IF recs["mac"] = NoRecord THEN info ELSE SetRuntimeBit(info, Activated, 1)

(* Mutant of BootInterval: the low byte comes last. *)
BugBootInterval(info, recs, junk) ==
  LET buffer == FlashTlvRead(recs["adv_int"], AfterMac(recs, junk), 2)
  IN  IF recs["adv_int"] = NoRecord THEN info
      ELSE SetAdvInterval(info, 256 * buffer[1] + buffer[2])

BootInterval(info, recs, junk) ==
  LET buffer == FlashTlvRead(recs["adv_int"], AfterMac(recs, junk), 2)
  IN  IF recs["adv_int"] = NoRecord THEN info
      ELSE SetAdvInterval(info, buffer[1] + 256 * buffer[2])

BootName(info, recs) ==
  IF recs["name"] = NoRecord THEN info
  ELSE SetBleName(info, FlashTlvRead(recs["name"], Same(NameSize, 0), Len(recs["name"])))

BootInfo(recs, junk) ==
  BootName(BootInterval(BootMac(SetRuntimeDefault, recs), recs, junk), recs)

(***************************************************************************)
(* epaper_start_advertising()                                              *)
(***************************************************************************)
(* strlen() of ble_name: behind its 32 bytes are the flags and a byte of   *)
(* padding, which is zero.                                                 *)
BleName(info) ==
  LET bytes == info.ble_name \o <<info.rumtime_flag, 0>>
      end == CHOOSE i \in 1..Len(bytes) :
               bytes[i] = 0 /\ \A j \in 1..(i - 1) : bytes[j] # 0
  IN  SubSeq(bytes, 1, end - 1)

EpaperDefaultPrefix == <<69, 112, 97, 112, 101, 114>>   \* "Epaper"

LocalName(info, addr) ==
  IF info.ble_name[1] \in {0, 255} THEN EpaperDefaultPrefix \o MacToStr(addr, 2)
  ELSE BleName(info)

(* The scan response: its length and type, the name and a NUL. *)
Advertisement(info, addr) ==
  [intv_min |-> GapAdvIntMin, intv_max |-> info.adv_interval,
   name |-> LocalName(info, addr), scan_rsp_data_len |-> Len(LocalName(info, addr)) + 3]

NoAdvert == [intv_min |-> 0, intv_max |-> 0, name |-> <<>>, scan_rsp_data_len |-> 0]

-----------------------------------------------------------------------------
(* The boot, in RAM that says nothing yet. *)
Boots(recs) ==
  /\ booted' = recs
  /\ \E junk \in Garbage :
       /\ address' = BootAddress(recs, junk)
       /\ sysinfo' = BootInfo(recs, junk)
  /\ advert' = NoAdvert

NoRecords == [t \in ConfigTags |-> NoRecord]

(* A tag from the factory. *)
DeviceInit ==
  /\ Init
  /\ records = NoRecords
  /\ booted = NoRecords
  /\ address = DefaultMac
  /\ sysinfo = SetRuntimeDefault
  /\ advert = NoAdvert

Reboot ==
  /\ Restart
  /\ Boots(records)
  /\ UNCHANGED records

StartsAdvertising ==
  /\ DatabaseAddCompleted
  /\ advert' = Advertisement(sysinfo, address)
  /\ UNCHANGED settings

PhoneConnects ==
  /\ \E b \in BOOLEAN : SlaveConnected(b)
  /\ sysinfo' = SetRuntimeBit(sysinfo, PhoneConnected, 1)
  /\ UNCHANGED <<records, booted, address, advert>>

(* Mutant of PhoneLeaves: advertised before the flag is cleared. *)
BugPhoneLeaves ==
  /\ SlaveDisconnected
  /\ sysinfo' = SetRuntimeBit(sysinfo, PhoneConnected, 0)
  /\ advert' = Advertisement(sysinfo, address)
  /\ UNCHANGED <<records, booted, address>>

PhoneLeaves ==
  /\ SlaveDisconnected
  /\ sysinfo' = SetRuntimeBit(sysinfo, PhoneConnected, 0)
  /\ advert' = Advertisement(sysinfo', address)
  /\ UNCHANGED <<records, booted, address>>

Negotiates ==
  /\ \/ SlpTimerCallback
     \/ ParamTimer
     \/ UpdateAccepted
     \/ UpdateRejected
     \/ \E b \in BOOLEAN : PhoneUpdates(b)
  /\ UNCHANGED <<settings, advert>>

(* A phone's WRITE_CONFIG or DELETE_CONFIG; its task may run when the      *)
(* phone has left.  (Before the first connection the interval is 0.)  The  *)
(* length that is stored is the one the packet states, which nothing       *)
(* compares with the packet's own.                                         *)
ChangesRecord ==
  /\ interval # 0
  /\ \/ \E w \in Writes : records' = [records EXCEPT ![w[1]] = w[2]]
     \/ \E t \in ConfigTags : records' = [records EXCEPT ![t] = NoRecord]
  /\ UNCHANGED <<vars, booted, sysinfo, address, advert>>

DeviceNext ==
  \/ Reboot
  \/ StartsAdvertising
  \/ PhoneConnects
  \/ PhoneLeaves
  \/ Negotiates
  \/ ChangesRecord

DeviceSpec == DeviceInit /\ [][DeviceNext]_dvars

DeviceFairSpec ==
  /\ DeviceSpec
  /\ WF_dvars(Negotiates /\ ParamTimer)
  /\ WF_dvars(Negotiates /\ (UpdateAccepted \/ UpdateRejected))

-----------------------------------------------------------------------------
(* Type invariant. *)
DeviceTypeOK ==
  /\ TypeOK
  /\ \A recs \in {records, booted} :
       \A t \in ConfigTags : recs[t] = NoRecord \/ <<t, recs[t]>> \in Writes
  /\ sysinfo.adv_interval \in AdvIntervalMin..AdvIntervalMax
  /\ Len(sysinfo.ble_name) = NameSize
  /\ sysinfo.rumtime_flag \in 0..3
  /\ address \in Seq(Byte) /\ Len(address) = BdAddrLen

(* Both flags live in one byte, which a connection changes while the tag   *)
(* runs: FLAG_PHONE_CONNECTED follows the link, FLAG_ACTIVED still says    *)
(* whether the boot has found an address.                                  *)
FlagsAgree ==
  /\ GetRuntimeBit(sysinfo, PhoneConnected) = (IF phone THEN 1 ELSE 0)
  /\ GetRuntimeBit(sysinfo, Activated) = (IF booted["mac"] = NoRecord THEN 0 ELSE 1)

(* What the tag runs with is what the records said at the boot: the        *)
(* address as it is read, from the highest byte to the lowest, the         *)
(* interval if it is one the radio takes, and the defaults where there is  *)
(* no record.  The three reads share a buffer, so a record that is too     *)
(* short leaves what the read before put there: then the address is        *)
(* anything, and the interval is made of the address, if that is legal.    *)
SettingsAreRecorded ==
  LET mac == booted["mac"]
      int == booted["adv_int"]
      value == int[1] + 256 * int[2]
      left == mac[BdAddrLen] + 256 * mac[BdAddrLen - 1]
      legal(n) == n >= AdvIntervalMin /\ n <= AdvIntervalMax
  IN  /\ mac = NoRecord => address = DefaultMac
      /\ mac # NoRecord /\ Len(mac) >= BdAddrLen =>
           \A i \in 1..BdAddrLen : address[i] = mac[BdAddrLen + 1 - i]
      /\ int # NoRecord /\ Len(int) >= 2 /\ legal(value) => sysinfo.adv_interval = value
      /\ int = NoRecord \/ (Len(int) >= 2 /\ ~legal(value)) =>
           sysinfo.adv_interval = RuntimeInterval
      /\ int # NoRecord /\ Len(int) < 2 /\ mac # NoRecord /\ Len(mac) >= BdAddrLen =>
           sysinfo.adv_interval = (IF legal(left) THEN left ELSE RuntimeInterval)

Advertising == advert # NoAdvert

(* s is the string that bytes hold: all of them up to a NUL, if any. *)
IsStringOf(s, bytes) ==
  /\ Len(s) <= Len(bytes)
  /\ \A i \in 1..Len(s) : s[i] = bytes[i] /\ s[i] # 0
  /\ Len(s) < Len(bytes) => bytes[Len(s) + 1] = 0

(* The last boot has read a name over the end of its buffer. *)
NameOverrun == booted["name"] # NoRecord /\ Len(booted["name"]) > NameSize

(* Unless the boot has overrun its buffer: what is advertised in every     *)
(* connection-less moment is the name of the last boot's record up to its  *)
(* NUL, or one made from the address when there is none (or an empty one,  *)
(* or erased flash), and an interval the stack takes (epaper_svc.h:        *)
(* intv_min is at least 0x20 and at most intv_max).  A name that fills its *)
(* 32 bytes has no NUL: then the flags behind it are its last letter, if   *)
(* one is set.  And names of up to 28 letters, the tag's own included,     *)
(* leave the scan response within its 31 bytes, which nothing else sees    *)
(* to.                                                                     *)
AdvertisesTheBoot ==
  Advertising /\ ~NameOverrun =>
    LET name == booted["name"]
        named == name # NoRecord /\ name # <<>> /\ name[1] \notin {0, 255}
        kept == IF Len(name) = NameSize /\ booted["mac"] # NoRecord
                THEN name \o <<Activated>> ELSE name
    IN  /\ advert.intv_min >= 32 /\ advert.intv_min <= advert.intv_max
        /\ advert.intv_max = sysinfo.adv_interval
        /\ ~named \/ Len(name) <= 28 => advert.scan_rsp_data_len <= 31
        /\ ~named => advert.name = EpaperDefaultPrefix \o MacToStr(address, 2)
        /\ named => IsStringOf(advert.name, kept)

(* The same records give the same tag: two boots in a row without a change *)
(* of the records leave address, interval and name alone, unless the       *)
(* address record is too short and uninitialised bytes are used.           *)
BootsAlike ==
  [][Reboot /\ records = booted
       /\ (records["mac"] # NoRecord => Len(records["mac"]) >= BdAddrLen)
       /\ (records["mac"] = NoRecord /\ records["adv_int"] # NoRecord
             => Len(records["adv_int"]) >= 2) =>
     /\ address' = address
     /\ sysinfo'.adv_interval = sysinfo.adv_interval
     /\ sysinfo'.ble_name = sysinfo.ble_name]_dvars
=============================================================================
