----------------------------- MODULE Connection -----------------------------
(***************************************************************************)
(* epaper_svc.c: advertising, and the life of a connection.  A phone's     *)
(* first connection parameters are fast; after a second the tag asks for   *)
(* parameters that save power, with an interval of 6 and, if the phone     *)
(* refuses, of 9, and goes to sleep when it has them or has given up.      *)
(*                                                                         *)
(* The BLE stack is outside the code: it reports events, and knows the     *)
(* parameters in force and whether an update is under way (app_env).  An   *)
(* armed timer may fire at any moment.  There is one phone: the tag does   *)
(* not advertise while it is connected.                                    *)
(***************************************************************************)
EXTENDS Integers

CONSTANT DebugMode   \* DEBUG_MODE

ASSUME ModeAssumption == DebugMode \in BOOLEAN

VARIABLES
  link,      \* "boot", "advertising" or "connected"
  phone,     \* FLAG_PHONE_CONNECTED
  interval,  \* current_con_interval
  timer,     \* is update_param_timer armed
  slpTimer,  \* is slp_timer of proj_main.c armed
  sleep,     \* appm_sleep_start() or appm_sleep_stop(), the last one called
  saving,    \* the parameters in force: latency # 0, interval * latency >= 400
  ongoing,   \* app_env.param_update_on_going
  own        \* did the phone choose the parameters in force by itself

vars == <<link, phone, interval, timer, slpTimer, sleep, saving, ongoing, own>>

Init ==
  /\ link = "boot"
  /\ phone = FALSE
  /\ interval = 0
  /\ timer = FALSE
  /\ slpTimer = ~DebugMode
  /\ sleep = FALSE
  /\ saving = FALSE
  /\ ongoing = FALSE
  /\ own = FALSE

(* user_proj_main(): five seconds after the boot *)
SlpTimerCallback ==
  /\ slpTimer
  /\ slpTimer' = FALSE
  /\ sleep' = TRUE
  /\ UNCHANGED <<link, phone, interval, timer, saving, ongoing, own>>

DatabaseAddCompleted ==
  /\ link = "boot"
  /\ link' = "advertising"
  /\ UNCHANGED <<phone, interval, timer, slpTimer, sleep, saving, ongoing, own>>

(* slave_connected_callback(); b: the phone comes with parameters that     *)
(* save power already                                                      *)
SlaveConnected(b) ==
  /\ link = "advertising"
  /\ link' = "connected"
  /\ phone' = TRUE
  /\ sleep' = FALSE
  /\ interval' = 6
  /\ timer' = TRUE
  /\ saving' = b
  /\ own' = b
  /\ UNCHANGED <<slpTimer, ongoing>>

(* An update under way is not forgotten: its end is reported later. *)
SlaveDisconnected ==
  /\ link = "connected"
  /\ link' = "advertising"
  /\ phone' = FALSE
  /\ timer' = FALSE
  /\ sleep' = ~DebugMode
  /\ UNCHANGED <<interval, slpTimer, saving, ongoing, own>>

(* param_timer_func(): the update is asked for, or the timer armed again,  *)
(* or nothing is left to do.                                               *)
NeedsUpdate == ~saving /\ link = "connected"

AskUpdate ==
  /\ timer
  /\ NeedsUpdate
  /\ ~ongoing
  /\ timer' = FALSE
  /\ ongoing' = TRUE
  /\ UNCHANGED <<link, phone, interval, slpTimer, sleep, saving, own>>

AskLater ==
  /\ timer
  /\ NeedsUpdate
  /\ ongoing
  /\ UNCHANGED vars

AskNothing ==
  /\ timer
  /\ ~NeedsUpdate
  /\ timer' = FALSE
  /\ UNCHANGED <<link, phone, interval, slpTimer, sleep, saving, ongoing, own>>

ParamTimer == AskUpdate \/ AskLater \/ AskNothing

(* Mutant of ParamInd: any indication puts the tag to sleep. *)
BugParamInd(b) ==
  /\ link = "connected"
  /\ saving' = b
  /\ sleep' = TRUE
  /\ UNCHANGED <<link, phone, interval, timer, slpTimer>>

(* epaper_cb_param_ind(): parameters are in force that the tag asked for,  *)
(* or (b) that the phone chose by itself, saving power or not.             *)
ParamInd(b) ==
  /\ link = "connected"
  /\ saving' = b
  /\ sleep' = b
  /\ UNCHANGED <<link, phone, interval, timer, slpTimer>>

UpdateAccepted ==
  /\ ongoing
  /\ ongoing' = FALSE
  /\ own' = FALSE
  /\ ParamInd(TRUE)

PhoneUpdates(b) ==
  /\ own' = TRUE
  /\ UNCHANGED ongoing
  /\ ParamInd(b)

(* Mutant of UpdateFails: the timer is not armed. *)
BugUpdateFails ==
  /\ ongoing
  /\ ongoing' = FALSE
  /\ UNCHANGED <<link, phone, interval, timer, slpTimer, sleep, saving, own>>

(* epaper_cb_param_rejected(), for a status other than a refusal: it is    *)
(* tried again after a while.  The branch for LL_ERR_DIFF_TRANSACTION_-    *)
(* COLLISION is inside the one for a refusal and is never taken: this is   *)
(* where that status goes.                                                 *)
UpdateFails ==
  /\ ongoing
  /\ ongoing' = FALSE
  /\ timer' = TRUE
  /\ UNCHANGED <<link, phone, interval, slpTimer, sleep, saving, own>>

(* Mutant of UpdateRefused: the interval is doubled. *)
BugUpdateRefused ==
  /\ ongoing
  /\ interval = 6
  /\ interval' = 2 * interval
  /\ timer' = FALSE
  /\ ongoing' = TRUE
  /\ UNCHANGED <<link, phone, slpTimer, sleep, saving, own>>

(* A refusal: the other interval is asked for, ... *)
UpdateRefused ==
  /\ ongoing
  /\ interval = 6
  /\ interval' = 9
  /\ timer' = FALSE
  /\ ongoing' = TRUE
  /\ UNCHANGED <<link, phone, slpTimer, sleep, saving, own>>

(* Mutant of UpdateGivenUp: the tag stays awake. *)
BugUpdateGivenUp ==
  /\ ongoing
  /\ interval = 9
  /\ timer' = FALSE
  /\ ongoing' = FALSE
  /\ UNCHANGED <<link, phone, interval, slpTimer, sleep, saving, own>>

(* ... or the tag gives up. *)
UpdateGivenUp ==
  /\ ongoing
  /\ interval = 9
  /\ timer' = FALSE
  /\ ongoing' = FALSE
  /\ sleep' = TRUE
  /\ UNCHANGED <<link, phone, interval, slpTimer, saving, own>>

UpdateRejected == UpdateFails \/ UpdateRefused \/ UpdateGivenUp

(* Power is lost and comes back: all of this is RAM. *)
Restart ==
  /\ link' = "boot"
  /\ phone' = FALSE
  /\ interval' = 0
  /\ timer' = FALSE
  /\ slpTimer' = ~DebugMode
  /\ sleep' = FALSE
  /\ saving' = FALSE
  /\ ongoing' = FALSE
  /\ own' = FALSE

Next ==
  \/ Restart
  \/ SlpTimerCallback
  \/ DatabaseAddCompleted
  \/ \E b \in BOOLEAN : SlaveConnected(b) \/ PhoneUpdates(b)
  \/ SlaveDisconnected
  \/ ParamTimer
  \/ UpdateAccepted
  \/ UpdateRejected

Spec == Init /\ [][Next]_vars

(* The timer fires, and the stack reports how an update ended. *)
FairSpec ==
  Spec /\ WF_vars(ParamTimer) /\ WF_vars(UpdateAccepted \/ UpdateRejected)

-----------------------------------------------------------------------------
(* Type invariant. *)
TypeOK ==
  /\ link \in {"boot", "advertising", "connected"}
  /\ interval \in {0, 6, 9}
  /\ \A b \in {phone, timer, slpTimer, sleep, saving, ongoing, own} : b \in BOOLEAN

(* In a connection whose parameters the phone has not chosen by itself,    *)
(* the tag sleeps, or something is on the way that leads there: the timer  *)
(* or an update.  Late reports on an update of an earlier connection, one  *)
(* that was refused or failed, and the timers do not break the chain.  (If *)
(* the phone has chosen them, nothing may be on the way: the timer is not  *)
(* armed again, and a tag with fast parameters stays awake.)               *)
NegotiationContinues ==
  link = "connected" /\ ~sleep /\ ~own => timer \/ ongoing

(* In a connection the tag falls asleep only once the parameters save      *)
(* power, or both intervals were refused, or because the timer of the boot *)
(* fires, which knows nothing of the connection.                           *)
AwakeWhileNegotiating ==
  [][~sleep /\ sleep' /\ link' = "connected" =>
       saving' \/ UpdateGivenUp \/ SlpTimerCallback]_vars

(* A connected tag comes to sleep, unless updates fail for ever, or the    *)
(* phone chooses parameters by itself.                                     *)
SettlesToSleep ==
  []<><<UpdateFails>>_vars \/ (link = "connected" ~> sleep \/ link # "connected" \/ own)
=============================================================================
