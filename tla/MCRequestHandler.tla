-------------------------- MODULE MCRequestHandler --------------------------
(* Small instances of RequestHandler for TLC. *)
EXTENDS RequestHandler, TLC

CONSTANTS v1, v2, t1, t2, white

Picture(place, img) == [op |-> "wr_ram", place |-> place, img |-> img]
Flush == [op |-> "flush"]
Erase(range, sectors) == [op |-> "erase", range |-> range, sectors |-> sectors]
Write(t, v) == [op |-> "wr_conf", short |-> FALSE, tag |-> t, val |-> v]
ShortWrite(t, v) == [op |-> "wr_conf", short |-> TRUE, tag |-> t, val |-> v]
Read(form, t) == [op |-> "rd_conf", form |-> form, tag |-> t]
Delete(t) == [op |-> "del_conf", tag |-> t]

(* Each handler, in the cases that do something different; v2 is too long  *)
(* to be read.                                                             *)
EveryCase ==
  {Picture(place, white) : place \in {"inside", "short"}}
  \cup {Flush, [op |-> "hw_info"], [op |-> "unknown"], [op |-> "rd_ram", inside |-> FALSE]}
  \cup {Erase("ok", {"major", "minor"}), Erase("ADDRESS_ERR", {}), Delete(t1)}
  \cup {Write(t1, v1), ShortWrite(t2, v2), Read("record", t2)}
  \cup {Read(form, t1) : form \in {"short", "flag", "reserved", "record"}}

(* What the tasks and the panel have to do with each other. *)
PanelCases == {Picture("inside", white), Flush, Read("record", t1)}

(* What happens to the records. *)
StoreCases ==
  {Write(t1, v1), Write(t2, v2), ShortWrite(t2, v1), Delete(t1)}
  \cup {Read("record", t) : t \in {t1, t2}}
  \cup {Erase("ok", S) : S \in {{"major"}, {"major", "minor"}}}

TaskSymmetry == Permutations(TaskIds)
=============================================================================
