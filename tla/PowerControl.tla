---------------------------- MODULE PowerControl ----------------------------
(***************************************************************************)
(* Start, power and exit of the gadget: wifi-efl-UG.c, winset_popup.c,     *)
(* motion_control.c, power_control of viewer_manager.c and the start, the  *)
(* power requests and the end of wlan_manager.c.                           *)
(*                                                                         *)
(* While the radio serves the mobile hotspot, powering Wi-Fi on asks the   *)
(* user first; Yes begins a D-Bus call that turns the hotspot off, and its *)
(* answer powers Wi-Fi on.  The call, the prompt, the daemon's messages,   *)
(* shakes and the end of the gadget come in any order.                     *)
(***************************************************************************)
EXTENDS Naturals, Sequences

CONSTANTS
    Calls,      \* D-Bus calls that can be under way at a time
    NoCall,     \* g_pending_call.pending_call is NULL
    MaxMsgs     \* messages of the daemon not yet handled

ASSUME CallsAssumption == NoCall \notin Calls
ASSUME MsgsAssumption == MaxMsgs \in Nat \ {0}

VARIABLES
    life,               \* of the gadget; "left" after wifi_exit
    registered,         \* with the connection daemon
    header,             \* header_mode; "unset" is 0, "ON" is any mode but the
                        \* three others
    radio,              \* Wi-Fi, as the daemon has it
    hotspot,            \* memory/mobile_hotspot/mode is WIFI
    msgs,               \* messages of the daemon on their way
    popup,              \* popup_manager->popup; "stale" points to a deleted one
    popup_user_prompt,  \* popup_manager->popup_user_prompt is set
    prompts,            \* prompts on the screen
    calls,              \* calls not yet answered
    pending_call,       \* g_pending_call.pending_call
    is_handled,         \* g_pending_call.is_handled
    target,             \* the shake sensor is connected (motion_create)
    sensing,            \* the shake sensor is started
    abandoned,          \* history: powering on was given up, see GivesUp
    untidy              \* history: a call was begun over an unanswered one, or
                        \* the gadget was taken down under a prompt

daemon == <<radio, hotspot, msgs>>
dialogs == <<popup, popup_user_prompt, prompts>>
call == <<calls, pending_call, is_handled>>
motion == <<target, sensing>>
vars == <<life, registered, header, daemon, dialogs, call, motion, abandoned,
          untidy>>

Lives == {"new", "running", "left", "destroyed", "crashed"}
Headers == {"unset", "OFF", "ACTIVATING", "ON", "DEACTIVATING"}
Radios == {"off", "starting", "on", "stopping"}
Messages == {"POWER_ON_OK", "POWER_OFF_OK", "POWER_ON_REFUSED"}

TypeOK ==
    /\ life \in Lives /\ registered \in BOOLEAN
    /\ header \in Headers
    /\ radio \in Radios /\ hotspot \in BOOLEAN
    /\ msgs \in Seq(Messages) /\ Len(msgs) <= MaxMsgs
    /\ popup \in {"none", "retry", "notice", "stale"}
    /\ popup_user_prompt \in BOOLEAN /\ prompts \in Nat
    /\ calls \subseteq Calls
    /\ pending_call \in Calls \cup {NoCall}
    /\ is_handled \in BOOLEAN /\ target \in BOOLEAN /\ sensing \in BOOLEAN
    /\ abandoned \in BOOLEAN /\ untidy \in BOOLEAN

Init ==
    /\ life = "new" /\ registered = FALSE /\ header = "unset"
    /\ radio \in {"off", "on"} /\ hotspot \in BOOLEAN /\ ~(hotspot /\ radio = "on")
    /\ msgs = <<>>
    /\ popup = "none" /\ popup_user_prompt = FALSE /\ prompts = 0
    /\ calls = {} /\ pending_call = NoCall /\ is_handled = FALSE
    /\ target = FALSE /\ sensing = FALSE
    /\ abandoned = FALSE /\ untidy = FALSE

Running == life = "running"

-----------------------------------------------------------------------------
(* The daemon and the hotspot service (external).                           *)

\* A client that is not registered is told nothing.
Post(m) ==
    IF registered
    THEN Len(msgs) < MaxMsgs /\ msgs' = Append(msgs, m)
    ELSE UNCHANGED msgs

\* net_wifi_power_on and net_wifi_power_off, when they are accepted.
PowerOnAccepted ==
    \/ radio = "off" /\ radio' = "starting" /\ UNCHANGED msgs
    \/ radio = "starting" /\ UNCHANGED <<radio, msgs>>
    \/ radio = "on" /\ Post("POWER_ON_OK") /\ UNCHANGED radio

PowerOffAccepted ==
    \/ radio = "on" /\ radio' = "stopping" /\ UNCHANGED msgs
    \/ radio = "stopping" /\ UNCHANGED <<radio, msgs>>
    \/ radio = "off" /\ Post("POWER_OFF_OK") /\ UNCHANGED radio

\* net_get_wifi_state: which of its answers can come.
StateAnswers ==
    {"ERROR"} \cup (IF radio \in {"off", "starting"} THEN {"OFF"}
                    ELSE {"ON", "DISCONNECTING"})

\* Powering on is given up, by the user or by a failure that nobody is told of.
GivesUp == abandoned' = (header = "ACTIVATING")

\* The radio comes up, or is refused with an error network_evt_cb knows, or
\* with one it drops.
RadioStarts ==
    /\ radio = "starting"
    /\ \/ radio' = "on" /\ Post("POWER_ON_OK") /\ UNCHANGED abandoned
       \/ radio' = "off" /\ Post("POWER_ON_REFUSED") /\ UNCHANGED abandoned
       \/ radio' = "off" /\ GivesUp /\ UNCHANGED msgs
    /\ UNCHANGED <<life, registered, header, hotspot, dialogs, call, motion, untidy>>

RadioStops ==
    /\ radio = "stopping"
    /\ radio' = "off" /\ Post("POWER_OFF_OK")
    /\ UNCHANGED <<life, registered, header, hotspot, dialogs, call, motion, abandoned, untidy>>

\* Another program switches Wi-Fi; the hotspot must not be using the radio.
SwitchedByOthers ==
    /\ \/ radio = "off" /\ ~hotspot /\ radio' = "starting"
       \/ radio = "on" /\ radio' = "stopping"
    /\ UNCHANGED <<life, registered, header, hotspot, msgs, dialogs, call, motion, abandoned, untidy>>

\* The hotspot is turned on while Wi-Fi is off, and off by anybody, the
\* service that was called included.
HotspotSwitched ==
    /\ hotspot \/ radio = "off"
    /\ hotspot' = ~hotspot
    /\ UNCHANGED <<life, registered, header, radio, msgs, dialogs, call, motion, abandoned, untidy>>

-----------------------------------------------------------------------------
(* Popups and power.                                                        *)

\* winset_popup_mode_set for the popups that only inform or offer a retry: the
\* one that is known goes.
ModeSet(p) == popup' = p /\ UNCHANGED <<popup_user_prompt, prompts>>

\* A bug: a prompt for every request.
PromptEach ==
    /\ popup' = "none"
    /\ popup_user_prompt' = TRUE
    /\ prompts' = prompts + 1

\* winset_popup_mode_set(POPUP_OPTION_POWER_ON_FAILED_MOBILE_HOTSPOT).
Prompt ==
    /\ popup' = "none"
    /\ popup_user_prompt' = TRUE
    /\ prompts' = IF popup_user_prompt THEN prompts ELSE prompts + 1

\* A bug: the prompt is deleted whether there is one or not.
ClosePromptUnchecked ==
    /\ popup_user_prompt' = FALSE
    /\ prompts' = prompts - 1

\* The prompt's Yes and No, and the END key, delete it.
ClosePrompt ==
    /\ popup_user_prompt' = FALSE
    /\ prompts' = IF popup_user_prompt THEN prompts - 1 ELSE prompts

\* power_control in an idle mode: _power_on and what is made of its answer
\* (accepted, in progress, refused).
TurnOn ==
    /\ header \in {"OFF", "ACTIVATING"}
    /\ \/ hotspot /\ Prompt /\ header' = "ACTIVATING" /\ UNCHANGED <<radio, msgs>>
       \/ /\ ~hotspot
          /\ \/ PowerOnAccepted /\ header' = "ACTIVATING"
             \/ radio = "starting" /\ UNCHANGED <<header, radio, msgs>>
             \/ header' = "OFF" /\ UNCHANGED <<radio, msgs>>
          /\ UNCHANGED dialogs
    /\ abandoned' = FALSE

\* power_control in a mode with the radio on; its effects on the list and the
\* gate are in ApPanel and ScanGate.
TurnOff ==
    /\ header = "ON"
    /\ \/ PowerOffAccepted /\ header' = "DEACTIVATING"
       \/ UNCHANGED <<header, radio, msgs>>
    /\ UNCHANGED <<dialogs, abandoned>>

\* power_control.
Toggle ==
    /\ \/ TurnOn \/ TurnOff
       \/ header \in {"unset", "DEACTIVATING"} /\ UNCHANGED <<header, radio, msgs, dialogs, abandoned>>
    /\ UNCHANGED hotspot

\* A popup of the manager takes all taps.
NoDialog == prompts = 0 /\ popup \notin {"retry", "notice"}

\* _gl_header_sel_cb.
HeaderTapped ==
    /\ Running /\ NoDialog
    /\ header \notin {"ACTIVATING", "DEACTIVATING"}
    /\ Toggle
    /\ UNCHANGED <<life, registered, call, motion, untidy>>

\* __motion_shake_cb.
Shaken ==
    /\ Running /\ sensing
    /\ header = "OFF"
    /\ Toggle
    /\ UNCHANGED <<life, registered, call, motion, untidy>>

-----------------------------------------------------------------------------
(* The mobile hotspot.                                                      *)

\* A bug: the call is not noted as unanswered.
DeactivateUnnoted(c) ==
    /\ c \in Calls \ calls
    /\ calls' = calls \cup {c}
    /\ pending_call' = c
    /\ UNCHANGED is_handled

\* mobilehotspot_deactivate: the call is begun, whatever became of the last one.
Deactivate(c) ==
    /\ c \in Calls \ calls
    /\ calls' = calls \cup {c}
    /\ pending_call' = c
    /\ is_handled' = FALSE

\* _turn_off_mobileap_yes_clicked_cb; without the bus no call is begun.
PromptYes ==
    /\ Running /\ popup_user_prompt
    /\ ClosePrompt
    /\ \/ /\ \E c \in Calls : Deactivate(c)
          /\ untidy' = (untidy \/ calls # {})
          /\ UNCHANGED abandoned
       \/ GivesUp /\ UNCHANGED <<call, untidy>>
    /\ UNCHANGED <<life, registered, header, daemon, popup, motion>>

\* _turn_off_mobileap_no_clicked_cb.
PromptNo ==
    /\ Running /\ popup_user_prompt
    /\ ClosePrompt
    /\ GivesUp
    /\ UNCHANGED <<life, registered, header, daemon, popup, call, motion, untidy>>

\* A bug: the answer takes no account of an error.
AnsweredErrorIgnored(c) ==
    /\ Running /\ c \in calls
    /\ \/ Toggle
       \/ UNCHANGED <<header, daemon, dialogs, abandoned>>
    /\ calls' = calls \ {c}
    /\ is_handled' = TRUE
    /\ UNCHANGED <<life, registered, pending_call, motion, untidy>>

\* _mobilehotspot_disable_cb: "disabled" powers Wi-Fi on by the function that
\* switches it over; an error or any other answer gives up.
Answered(c) ==
    /\ Running /\ c \in calls
    /\ \/ Toggle
       \/ header' = "OFF" /\ abandoned' = FALSE /\ UNCHANGED <<daemon, dialogs>>
    /\ calls' = calls \ {c}
    /\ is_handled' = TRUE
    /\ UNCHANGED <<life, registered, pending_call, motion, untidy>>

-----------------------------------------------------------------------------
(* Messages of the daemon.                                                  *)

\* motion_start, which needs the sensor connected and the window in focus;
\* motion_stop.
MotionStart == sensing' \in {sensing, target}
MotionStop == sensing' = FALSE

HeaderBecomes(h) == header' = h /\ abandoned' = FALSE

\* A bug: a refusal is told to the user and not to the header.
ReceivedRefusalTold ==
    /\ Running /\ msgs # <<>>
    /\ msgs' = Tail(msgs)
    /\ \/ Head(msgs) = "POWER_ON_OK" /\ HeaderBecomes("ON") /\ MotionStop
       \/ Head(msgs) = "POWER_OFF_OK" /\ HeaderBecomes("OFF") /\ MotionStart
       \/ Head(msgs) = "POWER_ON_REFUSED" /\ UNCHANGED <<header, abandoned, sensing>>
    /\ UNCHANGED <<life, registered, radio, hotspot, dialogs, call, target, untidy>>

\* The power messages of wlan_engine_callback.
Received ==
    /\ Running /\ msgs # <<>>
    /\ msgs' = Tail(msgs)
    /\ \/ Head(msgs) = "POWER_ON_OK" /\ HeaderBecomes("ON") /\ MotionStop
       \/ Head(msgs) = "POWER_OFF_OK" /\ HeaderBecomes("OFF") /\ MotionStart
       \/ Head(msgs) = "POWER_ON_REFUSED" /\ HeaderBecomes("OFF") /\ UNCHANGED sensing
    /\ UNCHANGED <<life, registered, radio, hotspot, dialogs, call, target, untidy>>

\* viewer_manager_refresh, when scan results come or a deferred redraw is due.
Refresh ==
    /\ Running /\ registered
    /\ \E s \in StateAnswers : HeaderBecomes(IF s \in {"ERROR", "OFF"} THEN "OFF" ELSE "ON")
    /\ UNCHANGED <<life, registered, daemon, dialogs, call, motion, untidy>>

-----------------------------------------------------------------------------
(* Start and exit.                                                          *)

\* connman_request_register.
RegisterAnswers == IF registered THEN {"ALREADY"} ELSE {"NONE", "ALREADY", "UNKNOWN"}

\* wlan_manager_start and what on_create and the retry make of its answer; the
\* retry popup stays where it is when all goes well.
Started(kept) ==
    \E res \in RegisterAnswers :
        /\ registered' = (registered \/ res = "NONE")
        /\ \/ res = "ALREADY" /\ ModeSet("notice") /\ UNCHANGED <<header, abandoned>>
           \/ res = "UNKNOWN" /\ ModeSet("retry") /\ UNCHANGED <<header, abandoned>>
           \/ /\ res = "NONE"
              /\ \E s \in StateAnswers :
                    \/ s \in {"OFF", "ON"} /\ HeaderBecomes(s) /\ ModeSet(kept)
                    \/ /\ s \notin {"OFF", "ON"}
                       /\ ModeSet("notice")
                       /\ UNCHANGED <<header, abandoned>>

\* on_create, which connects the shake sensor only when registered.
Create ==
    /\ life = "new"
    /\ life' = "running"
    /\ Started("none")
    /\ target' = registered'
    /\ UNCHANGED <<daemon, call, sensing, untidy>>

\* on_start and on_resume, on_pause.
PauseOrResume ==
    /\ Running
    /\ MotionStart \/ MotionStop
    /\ UNCHANGED <<life, registered, header, daemon, dialogs, call, target, abandoned, untidy>>

\* _retry_clicked_cb.
Retry ==
    /\ Running /\ popup = "retry"
    /\ Started("retry")
    /\ UNCHANGED <<life, daemon, call, motion, untidy>>

\* The OK button of a notice deletes it without the manager's knowledge.
NoticeOk ==
    /\ Running /\ popup = "notice"
    /\ popup' = "stale"
    /\ UNCHANGED <<life, registered, header, daemon, popup_user_prompt, prompts, call, motion,
                   abandoned, untidy>>

\* wifi_exit: the call under way is cancelled unless it was answered.  Its
\* wifi_exit_end lets the first caller through, so that a later one (Destroy
\* after the others, Back of the retry popup's second callback) does nothing.
WifiExit ==
    /\ registered' = FALSE /\ header' = "unset" /\ msgs' = <<>>
    /\ popup' = "none"
    /\ IF is_handled
       THEN UNCHANGED <<calls, pending_call>>
       ELSE calls' = calls \ {pending_call} /\ pending_call' = NoCall
    /\ abandoned' = FALSE
    /\ UNCHANGED <<radio, hotspot, is_handled, target>>

\* UG_KEY_EVENT_END: winset_popup_hide_popup, then leave; a view that is left
\* instead is in ScanGate.
EndKey ==
    /\ Running
    /\ ClosePrompt
    /\ \/ life' = "left" /\ WifiExit /\ UNCHANGED <<sensing, untidy>>
       \/ /\ popup' = "none"
          /\ IF popup_user_prompt THEN GivesUp ELSE UNCHANGED abandoned
          /\ UNCHANGED <<life, registered, header, daemon, call, motion, untidy>>

\* Back of the main view or of the setup wizard; Back of the retry popup, whose
\* callback is registered twice (common_utils_show_info_popup).
BackKey ==
    /\ Running
    /\ NoDialog \/ popup = "retry"
    /\ life' = "left"
    /\ WifiExit
    /\ UNCHANGED <<popup_user_prompt, prompts, sensing, untidy>>

\* on_destroy, which the caller may ask for at any time.
Destroy ==
    /\ life \in {"running", "left"}
    /\ life' = "destroyed"
    /\ sensing' = FALSE
    /\ untidy' = (untidy \/ (Running /\ popup_user_prompt))
    /\ IF Running
       THEN WifiExit /\ UNCHANGED <<popup_user_prompt, prompts>>
       ELSE UNCHANGED <<registered, header, daemon, dialogs, call, target, abandoned>>

\* The prompt the exit has left on the window, whose buttons read the freed
\* popup manager; intact memory makes them work as before.
LeftPromptTapped ==
    /\ life \in {"left", "destroyed"} /\ prompts > 0
    /\ prompts' = prompts - 1
    /\ \/ \E c \in Calls : Deactivate(c)
       \/ UNCHANGED call
    /\ UNCHANGED <<life, registered, header, daemon, popup, popup_user_prompt, motion, abandoned, untidy>>

\* What is freed is used: the popup manager's deleted popup, by whatever
\* deletes it next; the viewer manager, by a shake before on_destroy or by an
\* answer after it; the popup manager, by the prompt left behind.
UsesFreed ==
    /\ \/ Running /\ popup = "stale"
       \/ life = "left" /\ sensing
       \/ life \in {"left", "destroyed"} /\ (calls # {} \/ prompts > 0)
    /\ life' = "crashed"
    /\ UNCHANGED <<registered, header, daemon, dialogs, call, motion, abandoned, untidy>>

-----------------------------------------------------------------------------

User ==
    \/ HeaderTapped \/ Shaken \/ PromptYes \/ PromptNo
    \/ Retry \/ NoticeOk \/ EndKey \/ BackKey \/ LeftPromptTapped

Answer == \E c \in Calls : Answered(c)

External == RadioStarts \/ RadioStops \/ SwitchedByOthers \/ HotspotSwitched

Framework == Create \/ PauseOrResume \/ Destroy

Next == User \/ Answer \/ Received \/ Refresh \/ External \/ Framework \/ UsesFreed

Spec == Init /\ [][Next]_vars

\* A D-Bus call is answered or times out; the daemon finishes what it began,
\* and the main loop hands over its messages.
Fairness ==
    /\ WF_vars(Answer)
    /\ WF_vars(RadioStarts)
    /\ WF_vars(Received)

FairSpec == Spec /\ Fairness

-----------------------------------------------------------------------------
(* Properties.                                                              *)

\* A header that says "Activating" takes no taps and no shakes.  Unless the
\* user declined, or a failure was kept from the gadget, something is under
\* way that will change it: a prompt, the hotspot call, the radio or a message.
ActivatingHasCause ==
    Running /\ header = "ACTIVATING" /\ ~abandoned =>
        popup_user_prompt \/ calls # {} \/ radio = "starting" \/ msgs # <<>>

\* The prompt that popup_user_prompt points to is the only one on the screen,
\* however often power is asked for: none stays that nothing can close.
OnePrompt == Running => prompts = IF popup_user_prompt THEN 1 ELSE 0

\* No answer of the hotspot finds the gadget gone, as long as no call was begun
\* over another and no prompt was left behind: wifi_exit cancels the call.
NoAnswerAfterExit == life \in {"left", "destroyed"} /\ ~untidy => calls = {}

\* Powering on ends: in a mode that takes taps, in a question, or given up.
ActivatingEnds ==
    Running /\ header = "ACTIVATING"
        ~> ~Running \/ header # "ACTIVATING" \/ abandoned \/ popup_user_prompt
=============================================================================
