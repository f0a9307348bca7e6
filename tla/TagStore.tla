------------------------------ MODULE TagStore ------------------------------
(***************************************************************************)
(* What the record store of kvdb/flash_tlv.c promises, its sectors, blocks *)
(* and collections out of sight: a map from tags to values that survives   *)
(* power losses, where an append takes effect at once or not at all.       *)
(*                                                                         *)
(* The code keeps less than that in two situations, and the specification  *)
(* says exactly when and how much less:                                    *)
(*  - a tag is "vague" once an append over it was interrupted or failed    *)
(*    its read-back: two blocks of it are live from then on.  An append    *)
(*    that is acknowledged may not show, a deletion may bring a value      *)
(*    back; other tags are not concerned.                                  *)
(*  - the store is armed while it holds a mark_address that is not the old *)
(*    record of the append in progress but was left by a rejected one.     *)
(*    The next append that succeeds strikes it.  Armed "stale", one record *)
(*    of any tag may be deleted.  Armed "wild", after a collection erased  *)
(*    the sector of the address, the log itself may be damaged: the store  *)
(*    is lost, and nothing is promised from then on, to any tag.           *)
(***************************************************************************)
CONSTANTS Tags, Values, NoValue, Nil

VARIABLES
  store,  \* what a search finds for each tag
  req,    \* the append in progress, and whether its value shows already
  ret,    \* how the last append or deletion ended
  vague,  \* the tags with more than one live block
  armed,  \* whether a stale mark_address is about
  lost    \* one was struck in a sector that was erased: no promise holds

svars == <<store, req, ret, vague, armed, lost>>

Requests == [tag : Tags, val : Values, done : BOOLEAN]

SInit ==
  /\ store = [t \in Tags |-> NoValue]
  /\ req = Nil
  /\ ret = "none"
  /\ vague = {}
  /\ armed = "no"
  /\ lost = FALSE

(* An append is called: its search may replace a stale address. *)
Begin(t, v) ==
  /\ req = Nil
  /\ req' = [tag |-> t, val |-> v, done |-> FALSE]
  /\ ret' = "none"
  /\ armed' \in {armed, "no"}
  /\ UNCHANGED <<store, vague, lost>>

(* A collection forgets what was never committed.  An address it erases is *)
(* an address of nothing.                                                  *)
Collect ==
  /\ req # Nil /\ ~req.done
  /\ \/ armed' \in {armed, "no"}
     \/ armed = "stale" /\ armed' = "wild"
  /\ vague' \subseteq vague
  /\ UNCHANGED <<store, req, ret, lost>>

(* The new value shows. *)
Commit ==
  /\ req # Nil /\ ~req.done
  /\ req' = [req EXCEPT !.done = TRUE]
  /\ store' = [store EXCEPT ![req.tag] = req.val]
  /\ UNCHANGED <<ret, vague, armed, lost>>

(* Only tags in T changed their value. *)
OnlyChanged(T) == \A t \in Tags \ T : store'[t] = store[t]

(* TRUE is returned: the value shows, of a vague tag it may or may not;    *)
(* no other tag changes, or one does if a stale address was struck: it has *)
(* no record then, unless it was vague.                                    *)
Accept ==
  /\ req # Nil
  /\ armed # "wild"
  /\ ret' = "ok"
  /\ req' = Nil
  /\ armed' = "no"
  /\ vague' \subseteq vague
  /\ IF armed = "stale"
     THEN \E t \in Tags :
            /\ OnlyChanged({t, req.tag})
            /\ t \in vague \cup {req.tag} \/ store'[t] \in {store[t], NoValue}
     ELSE /\ OnlyChanged({req.tag})
          /\ \/ store'[req.tag] = req.val
             \/ req.tag \in vague /\ store'[req.tag] = store[req.tag]
  /\ UNCHANGED lost

(* TRUE is returned, and that is all that can be said. *)
AcceptWild ==
  /\ req # Nil
  /\ armed = "wild"
  /\ lost' = TRUE

(* FALSE is returned: nothing shows that did not show before.  The tag may *)
(* be vague now, the store may be armed.                                   *)
Reject ==
  /\ req # Nil /\ ~req.done
  /\ ret' = "fail"
  /\ req' = Nil
  /\ vague' \subseteq vague \cup {req.tag}
  /\ armed' \in {armed, "no", "stale"}
  /\ UNCHANGED <<store, lost>>

(* An append that is rejected by its first search. *)
RejectAtOnce ==
  /\ req = Nil
  /\ ret' = "fail"
  /\ armed' \in {armed, "stale"}
  /\ UNCHANGED <<store, req, vague, lost>>

(* A record is deleted, unless there are several live blocks of it. *)
Delete(t) ==
  /\ req = Nil
  /\ ret' = "ok"
  /\ OnlyChanged({t})
  /\ t \notin vague => store'[t] = NoValue
  /\ vague' \subseteq vague
  /\ UNCHANGED <<req, armed, lost>>

DeleteNothing(t) ==
  /\ req = Nil
  /\ ret' = "fail"
  /\ store[t] = NoValue
  /\ UNCHANGED <<store, req, vague, armed, lost>>

(* All or nothing: the interrupted append shows or does not. *)
PowerLoss ==
  /\ req' = Nil
  /\ ret' = "none"
  /\ armed' = "no"
  /\ vague' \subseteq vague \cup {t \in Tags : req # Nil /\ t = req.tag}
  /\ UNCHANGED <<store, lost>>

(* While nothing is lost, every step is one of these. *)
SNext ==
  \/ lost /\ lost'
  \/ \E t \in Tags, v \in Values : Begin(t, v)
  \/ Collect \/ Commit \/ Accept \/ AcceptWild \/ Reject \/ RejectAtOnce
  \/ \E t \in Tags : Delete(t) \/ DeleteNothing(t)
  \/ PowerLoss

SSpec == SInit /\ [][SNext]_svars
=============================================================================
