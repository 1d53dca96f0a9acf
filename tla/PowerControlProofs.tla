------------------------- MODULE PowerControlProofs -------------------------
(***************************************************************************)
(* Proofs about PowerControl, for any set of calls and any bound on the    *)
(* messages: the header that waits has a cause, one prompt at most is on   *)
(* the screen, and no answer of the hotspot finds the gadget gone.         *)
(***************************************************************************)
EXTENDS PowerControl, SequenceTheorems, TLAPS

-----------------------------------------------------------------------------
(* Type correctness.                                                        *)

LEMMA PostType ==
    ASSUME NEW m \in Messages, TypeOK, Post(m)
    PROVE  msgs' \in Seq(Messages) /\ Len(msgs') <= MaxMsgs
<1>1. CASE registered
  <2>1. msgs' = Append(msgs, m) /\ Len(msgs) < MaxMsgs
    BY <1>1 DEF Post
  <2>2. Append(msgs, m) \in Seq(Messages) /\ Len(Append(msgs, m)) = Len(msgs) + 1
    BY AppendProperties DEF TypeOK
  <2>3. Len(msgs) \in Nat
    BY LenProperties DEF TypeOK
  <2>4. QED
    BY <2>1, <2>2, <2>3, MsgsAssumption
<1>2. CASE ~registered
  BY <1>2 DEF Post, TypeOK
<1>3. QED
  BY <1>1, <1>2

LEMMA EmptyType == <<>> \in Seq(Messages) /\ Len(<<>>) <= MaxMsgs
BY MsgsAssumption

LEMMA TailType ==
    ASSUME TypeOK, msgs # <<>>
    PROVE  Tail(msgs) \in Seq(Messages) /\ Len(Tail(msgs)) <= MaxMsgs
<1>1. Tail(msgs) \in Seq(Messages) /\ Len(Tail(msgs)) = Len(msgs) - 1
  BY HeadTailProperties DEF TypeOK
<1>2. Len(msgs) \in Nat /\ Len(msgs) <= MaxMsgs
  BY LenProperties DEF TypeOK
<1>3. QED
  BY <1>1, <1>2, MsgsAssumption

\* What asking for power on or off does to the daemon.
LEMMA AcceptedType ==
    ASSUME TypeOK, PowerOnAccepted \/ PowerOffAccepted
    PROVE  radio' \in Radios /\ msgs' \in Seq(Messages) /\ Len(msgs') <= MaxMsgs
<1>1. ASSUME UNCHANGED msgs
      PROVE  msgs' \in Seq(Messages) /\ Len(msgs') <= MaxMsgs
  BY <1>1 DEF TypeOK
<1>2. "POWER_ON_OK" \in Messages /\ "POWER_OFF_OK" \in Messages
  BY DEF Messages
<1>3. msgs' \in Seq(Messages) /\ Len(msgs') <= MaxMsgs
  BY <1>1, <1>2, PostType DEF PowerOnAccepted, PowerOffAccepted
<1>4. radio' \in Radios
  BY DEF PowerOnAccepted, PowerOffAccepted, TypeOK, Radios
<1>5. QED
  BY <1>3, <1>4

\* The part of the type a dialog or the switching of the header can disturb.
PowerTypes ==
    /\ header \in Headers
    /\ radio \in Radios /\ hotspot \in BOOLEAN
    /\ msgs \in Seq(Messages) /\ Len(msgs) <= MaxMsgs
    /\ popup \in {"none", "retry", "notice", "stale"}
    /\ popup_user_prompt \in BOOLEAN /\ prompts \in Nat
    /\ abandoned \in BOOLEAN

LEMMA ToggleType ==
    ASSUME TypeOK, Toggle
    PROVE  PowerTypes'
<1>1. CASE TurnOn
  <2>1. CASE hotspot /\ Prompt /\ header' = "ACTIVATING" /\ UNCHANGED <<radio, msgs>>
    <3>1. popup_user_prompt' \in BOOLEAN /\ abandoned' \in BOOLEAN
      BY <1>1, <2>1 DEF TurnOn, Prompt
    <3>2. prompts' \in Nat /\ popup' \in {"none", "retry", "notice", "stale"}
      BY <2>1 DEF Prompt, TypeOK
    <3>3. QED
      BY <1>1, <2>1, <3>1, <3>2 DEF Toggle, TypeOK, PowerTypes, Headers
  <2>2. CASE UNCHANGED dialogs /\ PowerOnAccepted /\ header' = "ACTIVATING"
    BY <1>1, <2>2, AcceptedType DEF TurnOn, Toggle, TypeOK, PowerTypes, Headers, dialogs
  <2>3. CASE UNCHANGED dialogs /\ header' \in {header, "OFF"} /\ UNCHANGED <<radio, msgs>>
    BY <1>1, <2>3 DEF TurnOn, Toggle, TypeOK, PowerTypes, Headers, dialogs
  <2>4. QED
    BY <1>1, <2>1, <2>2, <2>3 DEF TurnOn
<1>2. CASE TurnOff
  <2>1. CASE PowerOffAccepted /\ header' = "DEACTIVATING"
    BY <1>2, <2>1, AcceptedType DEF TurnOff, Toggle, TypeOK, PowerTypes, Headers, dialogs
  <2>2. CASE UNCHANGED <<header, radio, msgs>>
    BY <1>2, <2>2 DEF TurnOff, Toggle, TypeOK, PowerTypes, dialogs
  <2>3. QED
    BY <1>2, <2>1, <2>2 DEF TurnOff
<1>3. CASE UNCHANGED <<header, radio, msgs, dialogs, abandoned>>
  BY <1>3 DEF Toggle, TypeOK, PowerTypes, dialogs
<1>4. QED
  BY <1>1, <1>2, <1>3 DEF Toggle

LEMMA StartedType ==
    ASSUME TypeOK, NEW p \in {"none", "retry"}, Started(p)
    PROVE  /\ registered' \in BOOLEAN /\ header' \in Headers /\ abandoned' \in BOOLEAN
           /\ popup' \in {"none", "retry", "notice", "stale"}
           /\ UNCHANGED <<popup_user_prompt, prompts>>
BY DEF Started, ModeSet, HeaderBecomes, TypeOK, Headers

LEMMA ClosePromptType ==
    ASSUME popup_user_prompt \in BOOLEAN, prompts \in Nat, ClosePrompt,
           popup_user_prompt => prompts > 0
    PROVE  popup_user_prompt' \in BOOLEAN /\ prompts' \in Nat
<1>1. popup_user_prompt' \in BOOLEAN
  BY DEF ClosePrompt
<1>2. CASE popup_user_prompt
  BY <1>2, <1>1 DEF ClosePrompt
<1>3. CASE ~popup_user_prompt
  BY <1>3, <1>1 DEF ClosePrompt
<1>4. QED
  BY <1>2, <1>3

\* The rest of the type.
OtherTypes ==
    /\ life \in Lives /\ registered \in BOOLEAN
    /\ calls \subseteq Calls
    /\ pending_call \in Calls \cup {NoCall}
    /\ is_handled \in BOOLEAN /\ target \in BOOLEAN /\ sensing \in BOOLEAN
    /\ untidy \in BOOLEAN

LEMMA TypeParts == TypeOK <=> PowerTypes /\ OtherTypes
BY DEF TypeOK, PowerTypes, OtherTypes

LEMMA TypePartsNext == TypeOK' <=> PowerTypes' /\ OtherTypes'
BY DEF TypeOK, PowerTypes, OtherTypes

LEMMA WifiExitType ==
    ASSUME TypeOK, WifiExit
    PROVE  /\ registered' \in BOOLEAN /\ header' \in Headers /\ abandoned' \in BOOLEAN
           /\ radio' \in Radios /\ hotspot' \in BOOLEAN
           /\ msgs' \in Seq(Messages) /\ Len(msgs') <= MaxMsgs
           /\ popup' \in {"none", "retry", "notice", "stale"}
           /\ calls' \subseteq Calls /\ pending_call' \in Calls \cup {NoCall}
           /\ is_handled' \in BOOLEAN /\ target' \in BOOLEAN
<1>1. registered' \in BOOLEAN /\ abandoned' \in BOOLEAN
  BY DEF WifiExit
<1>2. msgs' \in Seq(Messages) /\ Len(msgs') <= MaxMsgs
  BY EmptyType DEF WifiExit
<1>3. calls' \subseteq Calls /\ pending_call' \in Calls \cup {NoCall}
  BY DEF WifiExit, TypeOK
<1>4. QED
  BY <1>1, <1>2, <1>3 DEF WifiExit, TypeOK, Headers

LEMMA TypeStep ==
    ASSUME TypeOK, OnePrompt, [Next]_vars
    PROVE  TypeOK'
<1> USE TypeParts, TypePartsNext
<1>1. CASE HeaderTapped \/ Shaken
  BY <1>1, ToggleType DEF HeaderTapped, Shaken, OtherTypes, call, motion
<1>2. CASE PromptYes
  <2>1. popup_user_prompt' \in BOOLEAN /\ prompts' \in Nat
    BY <1>2, ClosePromptType DEF PromptYes, OnePrompt, PowerTypes
  <2>2. calls' \subseteq Calls /\ pending_call' \in Calls \cup {NoCall}
    BY <1>2 DEF PromptYes, Deactivate, call, OtherTypes
  <2>3. is_handled' \in BOOLEAN /\ untidy' \in BOOLEAN /\ abandoned' \in BOOLEAN
    BY <1>2 DEF PromptYes, Deactivate, GivesUp, call, OtherTypes, PowerTypes
  <2>4. QED
    BY <1>2, <2>1, <2>2, <2>3 DEF PromptYes, PowerTypes, OtherTypes, daemon, motion
<1>3. CASE PromptNo
  <2>1. popup_user_prompt' \in BOOLEAN /\ prompts' \in Nat
    BY <1>3, ClosePromptType DEF PromptNo, OnePrompt, PowerTypes
  <2>2. abandoned' \in BOOLEAN
    BY <1>3 DEF PromptNo, GivesUp
  <2>3. QED
    BY <1>3, <2>1, <2>2 DEF PromptNo, PowerTypes, OtherTypes, daemon, call, motion
<1>4. CASE Retry
  BY <1>4, StartedType DEF Retry, PowerTypes, OtherTypes, daemon, call, motion
<1>5. CASE NoticeOk
  BY <1>5 DEF NoticeOk, PowerTypes, OtherTypes, daemon, call, motion
<1>6. CASE EndKey
  <2>1. popup_user_prompt' \in BOOLEAN /\ prompts' \in Nat
    BY <1>6, ClosePromptType DEF EndKey, OnePrompt, PowerTypes
  <2>2. CASE life' = "left" /\ WifiExit
             /\ UNCHANGED <<sensing, untidy>>
    <3>1. life' \in Lives /\ sensing' \in BOOLEAN /\ untidy' \in BOOLEAN
      BY <2>2 DEF OtherTypes, Lives
    <3>2. QED
      BY <2>1, <2>2, <3>1, WifiExitType DEF PowerTypes, OtherTypes
  <2>3. CASE popup' = "none"
             /\ (IF popup_user_prompt THEN GivesUp ELSE UNCHANGED abandoned)
             /\ UNCHANGED <<life, registered, header, daemon, call, motion, untidy>>
    <3>1. abandoned' \in BOOLEAN
      BY <2>3 DEF GivesUp, PowerTypes
    <3>2. QED
      BY <2>1, <2>3, <3>1 DEF PowerTypes, OtherTypes, daemon, call, motion
  <2>4. QED
    BY <1>6, <2>2, <2>3 DEF EndKey
<1>7. CASE BackKey
  <2>1. life' \in Lives /\ sensing' \in BOOLEAN /\ untidy' \in BOOLEAN
    BY <1>7 DEF BackKey, OtherTypes, Lives
  <2>2. QED
    BY <1>7, <2>1, WifiExitType DEF BackKey, PowerTypes, OtherTypes
<1>8. CASE LeftPromptTapped
  <2>1. prompts' \in Nat
    BY <1>8 DEF LeftPromptTapped, PowerTypes
  <2>2. /\ calls' \subseteq Calls /\ pending_call' \in Calls \cup {NoCall}
        /\ is_handled' \in BOOLEAN
    BY <1>8 DEF LeftPromptTapped, Deactivate, call, OtherTypes
  <2>3. QED
    BY <1>8, <2>1, <2>2 DEF LeftPromptTapped, PowerTypes, OtherTypes, daemon, motion
<1>9. CASE Answer
  <2>1. PICK c \in Calls : Answered(c)
    BY <1>9 DEF Answer
  <2>2. PowerTypes'
    <3>1. CASE Toggle
      BY <3>1, ToggleType
    <3>2. CASE header' = "OFF" /\ abandoned' = FALSE /\ UNCHANGED <<daemon, dialogs>>
      BY <3>2 DEF PowerTypes, Headers, daemon, dialogs
    <3>3. QED
      BY <2>1, <3>1, <3>2 DEF Answered
  <2>3. OtherTypes'
    BY <2>1 DEF Answered, OtherTypes, motion
  <2>4. QED
    BY <2>2, <2>3
<1>10. CASE Received
  <2>1. msgs' \in Seq(Messages) /\ Len(msgs') <= MaxMsgs
    BY <1>10, TailType DEF Received
  <2>2. header' \in Headers /\ abandoned' \in BOOLEAN /\ sensing' \in BOOLEAN
    BY <1>10 DEF Received, HeaderBecomes, MotionStart, MotionStop, Headers, OtherTypes
  <2>3. QED
    BY <1>10, <2>1, <2>2 DEF Received, PowerTypes, OtherTypes, dialogs, call
<1>11. CASE Refresh
  <2>1. header' \in Headers /\ abandoned' \in BOOLEAN
    BY <1>11 DEF Refresh, HeaderBecomes, Headers
  <2>2. QED
    BY <1>11, <2>1 DEF Refresh, PowerTypes, OtherTypes, daemon, dialogs, call, motion
<1>12. CASE RadioStarts
  <2>1. "POWER_ON_OK" \in Messages /\ "POWER_ON_REFUSED" \in Messages
    BY DEF Messages
  <2>2. msgs' \in Seq(Messages) /\ Len(msgs') <= MaxMsgs
    BY <1>12, <2>1, PostType DEF RadioStarts, PowerTypes
  <2>3. radio' \in Radios /\ abandoned' \in BOOLEAN
    BY <1>12 DEF RadioStarts, GivesUp, Radios, PowerTypes
  <2>4. QED
    BY <1>12, <2>2, <2>3 DEF RadioStarts, PowerTypes, OtherTypes, dialogs, call, motion
<1>13. CASE RadioStops
  <2>1. msgs' \in Seq(Messages) /\ Len(msgs') <= MaxMsgs
    <3>1. "POWER_OFF_OK" \in Messages
      BY DEF Messages
    <3>2. QED
      BY <1>13, <3>1, PostType DEF RadioStops
  <2>2. radio' \in Radios
    BY <1>13 DEF RadioStops, Radios
  <2>3. QED
    BY <1>13, <2>1, <2>2 DEF RadioStops, PowerTypes, OtherTypes, dialogs, call, motion
<1>14. CASE SwitchedByOthers
  BY <1>14 DEF SwitchedByOthers, PowerTypes, OtherTypes, Radios, dialogs, call, motion
<1>15. CASE HotspotSwitched
  <2>1. hotspot' \in BOOLEAN
    BY <1>15 DEF HotspotSwitched
  <2>2. QED
    BY <1>15, <2>1 DEF HotspotSwitched, PowerTypes, OtherTypes, dialogs, call, motion
<1>16. CASE Create
  BY <1>16, StartedType DEF Create, PowerTypes, OtherTypes, Lives, daemon, call
<1>17. CASE PauseOrResume
  <2>1. sensing' \in BOOLEAN
    BY <1>17 DEF PauseOrResume, MotionStart, MotionStop, OtherTypes
  <2>2. QED
    BY <1>17, <2>1 DEF PauseOrResume, PowerTypes, OtherTypes, daemon, dialogs, call
<1>18. CASE Destroy
  <2>1. life' \in Lives /\ sensing' \in BOOLEAN
    <3>1. life' \in Lives
      BY <1>18 DEF Destroy, Lives
    <3>2. sensing' \in BOOLEAN
      BY <1>18 DEF Destroy
    <3>3. QED
      BY <3>1, <3>2
  <2>2. untidy' \in BOOLEAN
    BY <1>18 DEF Destroy
  <2>3. CASE Running
    BY <1>18, <2>1, <2>2, <2>3, WifiExitType DEF Destroy, PowerTypes, OtherTypes
  <2>4. CASE ~Running
    BY <1>18, <2>1, <2>2, <2>4 DEF Destroy, PowerTypes, OtherTypes, daemon, dialogs, call
  <2>5. QED
    BY <2>3, <2>4
<1>19. CASE UsesFreed
  BY <1>19 DEF UsesFreed, PowerTypes, OtherTypes, Lives, daemon, dialogs, call, motion
<1>20. CASE UNCHANGED vars
  BY <1>20 DEF vars, PowerTypes, OtherTypes, daemon, dialogs, call, motion
<1>21. QED
  BY <1>1, <1>2, <1>3, <1>4, <1>5, <1>6, <1>7, <1>8, <1>9, <1>10, <1>11, <1>12, <1>13,
     <1>14, <1>15, <1>16, <1>17, <1>18, <1>19, <1>20 DEF Next, User, External, Framework

-----------------------------------------------------------------------------
(* The inductive invariant.                                                 *)

\* Before on_create nothing is there.
Fresh ==
    life = "new" =>
        /\ ~registered /\ header = "unset" /\ msgs = <<>> /\ popup = "none"
        /\ ~popup_user_prompt /\ prompts = 0
        /\ calls = {} /\ ~untidy

\* Without a registration nothing that could switch the header over comes up:
\* there is no list, no shake sensor and no message.
Unregistered ==
    Running /\ ~registered =>
        header = "unset" /\ msgs = <<>> /\ ~popup_user_prompt /\ calls = {}

\* A prompt takes the place of the retry popup.
RetryAlone == Running /\ popup = "retry" => prompts = 0

\* The call that is not answered is the one wifi_exit would cancel.
CallKnown ==
    Running /\ ~untidy => \A c \in calls : c = pending_call /\ ~is_handled

\* What a tidy exit leaves.
Gone == life \in {"left", "destroyed"} /\ ~untidy => calls = {} /\ prompts = 0

IInv ==
    /\ TypeOK /\ OnePrompt /\ ActivatingHasCause
    /\ Fresh /\ Unregistered /\ RetryAlone /\ CallKnown /\ Gone

-----------------------------------------------------------------------------
(* Its steps.                                                               *)

\* Init establishes it.
LEMMA InitIInv == Init => IInv
<1> SUFFICES ASSUME Init PROVE IInv
  OBVIOUS
<1>1. PowerTypes
  <2>1. msgs \in Seq(Messages) /\ Len(msgs) <= MaxMsgs
    BY EmptyType DEF Init
  <2>2. popup_user_prompt \in BOOLEAN /\ abandoned \in BOOLEAN /\ hotspot \in BOOLEAN
    BY DEF Init
  <2>3. QED
    BY <2>1, <2>2 DEF Init, PowerTypes, Headers, Radios
<1>2. OtherTypes
  <2>1. /\ registered \in BOOLEAN /\ is_handled \in BOOLEAN
        /\ target \in BOOLEAN /\ sensing \in BOOLEAN /\ untidy \in BOOLEAN
    BY DEF Init
  <2>2. QED
    BY <2>1 DEF Init, OtherTypes, Lives
<1>3. OnePrompt /\ ActivatingHasCause /\ RetryAlone /\ CallKnown /\ Unregistered
  BY DEF Init, OnePrompt, ActivatingHasCause, RetryAlone, CallKnown, Unregistered, Running
<1>4. Fresh /\ Gone
  BY DEF Init, Fresh, Gone
<1>5. QED
  BY <1>1, <1>2, <1>3, <1>4, TypeParts DEF IInv

\* A message sent to a registered client is there.
LEMMA PostArrives ==
    ASSUME TypeOK, NEW m \in Messages, Post(m), registered
    PROVE  msgs' # <<>>
<1>1. msgs' = Append(msgs, m)
  BY DEF Post
<1>2. Append(msgs, m) # <<>>
  BY AppendProperties DEF TypeOK
<1>3. QED
  BY <1>1, <1>2

\* Switching the header over asks at most one question.
LEMMA ToggleAsks ==
    ASSUME Toggle
    PROVE  (Prompt \/ UNCHANGED dialogs) /\ UNCHANGED hotspot
BY DEF Toggle, TurnOn, TurnOff, dialogs

LEMMA StartedAsks ==
    ASSUME NEW p \in {"none", "retry"}, Started(p)
    PROVE  UNCHANGED <<popup_user_prompt, prompts>>
BY DEF Started, ModeSet

\* Only on_create starts the gadget.
LEMMA RunsOn ==
    ASSUME [Next]_vars, Running', ~Create
    PROVE  Running
BY DEF Running, Next, User, Answer, External, Framework, HeaderTapped, Shaken,
   PromptYes, PromptNo, Retry, NoticeOk, EndKey, BackKey, LeftPromptTapped, Answered,
   Received, Refresh, RadioStarts, RadioStops, SwitchedByOthers, HotspotSwitched,
   PauseOrResume, Destroy, UsesFreed, vars

\* The prompt that is known stays the only one.
LEMMA OnePromptStep ==
    ASSUME IInv, [Next]_vars
    PROVE  OnePrompt'
<1> SUFFICES ASSUME Running'
             PROVE  prompts' = IF popup_user_prompt' THEN 1 ELSE 0
  BY DEF OnePrompt
<1>1. popup_user_prompt \in BOOLEAN /\ prompts \in Nat
  BY DEF IInv, TypeOK
<1>2. CASE Create
  <2>1. prompts = 0 /\ ~popup_user_prompt
    BY <1>2 DEF IInv, Fresh, Create
  <2>2. UNCHANGED <<popup_user_prompt, prompts>>
    BY <1>2, StartedAsks DEF Create
  <2>3. QED
    BY <2>1, <2>2
<1>3. CASE ~Create
  <2>1. Running
    BY <1>3, RunsOn
  <2>2. prompts = IF popup_user_prompt THEN 1 ELSE 0
    BY <2>1 DEF IInv, OnePrompt
  <2>3. ASSUME Prompt \/ UNCHANGED dialogs
        PROVE  prompts' = IF popup_user_prompt' THEN 1 ELSE 0
    BY <2>2, <2>3 DEF Prompt, dialogs
  <2>4. ASSUME ClosePrompt
        PROVE  prompts' = IF popup_user_prompt' THEN 1 ELSE 0
    BY <2>2, <2>4 DEF ClosePrompt
  <2>5. ASSUME UNCHANGED <<popup_user_prompt, prompts>>
        PROVE  prompts' = IF popup_user_prompt' THEN 1 ELSE 0
    BY <2>2, <2>5
  <2>6. CASE HeaderTapped \/ Shaken
    BY <2>3, <2>6, ToggleAsks DEF HeaderTapped, Shaken
  <2>7. CASE Answer
    <3>1. PICK c \in Calls : Answered(c)
      BY <2>7 DEF Answer
    <3>2. Toggle \/ UNCHANGED dialogs
      BY <3>1 DEF Answered
    <3>3. QED
      BY <2>3, <3>2, ToggleAsks
  <2>8. CASE PromptYes \/ PromptNo \/ EndKey
    BY <2>4, <2>8 DEF PromptYes, PromptNo, EndKey
  <2>9. CASE Retry
    BY <2>5, <2>9, StartedAsks DEF Retry
  <2>10. CASE BackKey \/ Destroy \/ LeftPromptTapped \/ UsesFreed
    BY <2>1, <2>10 DEF Running, BackKey, Destroy, LeftPromptTapped, UsesFreed
  <2>11. CASE NoticeOk \/ Received \/ Refresh \/ External \/ PauseOrResume \/ UNCHANGED vars
    BY <2>5, <2>11 DEF NoticeOk, Received, Refresh, External, RadioStarts, RadioStops,
       SwitchedByOthers, HotspotSwitched, PauseOrResume, vars, dialogs
  <2>12. QED
    BY <1>3, <2>6, <2>7, <2>8, <2>9, <2>10, <2>11 DEF Next, User, Framework
<1>4. QED
  BY <1>2, <1>3

\* A prompt comes only where the retry popup goes.
LEMMA RetryAloneStep ==
    ASSUME IInv, [Next]_vars
    PROVE  RetryAlone'
<1> SUFFICES ASSUME Running', popup' = "retry"
             PROVE  prompts' = 0
  BY DEF RetryAlone
<1>1. CASE Create
  BY <1>1, StartedAsks DEF IInv, Fresh, Create
<1>2. CASE ~Create
  <2>1. Running
    BY <1>2, RunsOn
  <2>2. popup = "retry" => prompts = 0 /\ ~popup_user_prompt
    <3>1. prompts = IF popup_user_prompt THEN 1 ELSE 0
      BY <2>1 DEF IInv, OnePrompt
    <3>2. QED
      BY <2>1, <3>1 DEF IInv, RetryAlone
  <2>3. ASSUME Prompt \/ UNCHANGED dialogs
        PROVE  prompts' = 0
    BY <2>2, <2>3 DEF Prompt, dialogs
  <2>4. CASE HeaderTapped \/ Shaken
    BY <2>3, <2>4, ToggleAsks DEF HeaderTapped, Shaken
  <2>5. CASE Answer
    <3>1. PICK c \in Calls : Answered(c)
      BY <2>5 DEF Answer
    <3>2. Toggle \/ UNCHANGED dialogs
      BY <3>1 DEF Answered
    <3>3. QED
      BY <2>3, <3>2, ToggleAsks
  <2>6. CASE PromptYes \/ PromptNo
    BY <2>2, <2>6 DEF PromptYes, PromptNo, ClosePrompt
  <2>7. CASE EndKey
    BY <2>7 DEF EndKey, WifiExit
  <2>8. CASE Retry
    BY <2>2, <2>8, StartedAsks DEF Retry
  <2>9. CASE BackKey \/ Destroy \/ LeftPromptTapped \/ UsesFreed
    BY <2>1, <2>9 DEF Running, BackKey, Destroy, LeftPromptTapped, UsesFreed
  <2>10. CASE NoticeOk
    BY <2>10 DEF NoticeOk
  <2>11. CASE Received \/ Refresh \/ External \/ PauseOrResume \/ UNCHANGED vars
    BY <2>2, <2>11 DEF Received, Refresh, External, RadioStarts, RadioStops,
       SwitchedByOthers, HotspotSwitched, PauseOrResume, vars, dialogs
  <2>12. QED
    BY <1>2, <2>4, <2>5, <2>6, <2>7, <2>8, <2>9, <2>10, <2>11 DEF Next, User, Framework
<1>3. QED
  BY <1>1, <1>2

\* Nothing happens before on_create but outside the gadget.
LEMMA FreshStep ==
    ASSUME IInv, [Next]_vars
    PROVE  Fresh'
<1> SUFFICES ASSUME life' = "new" PROVE Fresh'
  BY DEF Fresh
<1>1. life = "new" /\ (External \/ UNCHANGED vars)
  BY DEF Next, User, Answer, Framework, HeaderTapped, Shaken, PromptYes, PromptNo, Retry,
     NoticeOk, EndKey, BackKey, LeftPromptTapped, Answered, Received, Refresh, External,
     RadioStarts, RadioStops, SwitchedByOthers, HotspotSwitched, Create, PauseOrResume,
     Destroy, UsesFreed, Running, vars
<1>2. UNCHANGED <<registered, header, popup, popup_user_prompt, prompts, calls,
                 untidy>>
  BY <1>1 DEF External, RadioStarts, RadioStops, SwitchedByOthers, HotspotSwitched,
     dialogs, call, vars
<1>3. msgs' = <<>>
  <2>1. msgs = <<>> /\ ~registered
    BY <1>1 DEF IInv, Fresh
  <2>2. QED
    BY <1>1, <2>1 DEF External, RadioStarts, RadioStops, SwitchedByOthers, HotspotSwitched,
       Post, daemon, vars
<1>4. QED
  BY <1>1, <1>2, <1>3 DEF IInv, Fresh

\* Without a registration nothing comes up.
LEMMA UnregisteredStep ==
    ASSUME IInv, [Next]_vars
    PROVE  Unregistered'
<1> SUFFICES ASSUME Running', ~registered'
             PROVE  header' = "unset" /\ msgs' = <<>> /\ ~popup_user_prompt' /\ calls' = {}
  BY DEF Unregistered
<1>1. CASE Create
  <2>1. header = "unset" /\ msgs = <<>> /\ ~popup_user_prompt /\ calls = {} /\ ~registered
    BY <1>1 DEF IInv, Fresh, Create
  <2>2. header' = header
    BY <1>1, <2>1 DEF Create, Started, RegisterAnswers
  <2>3. QED
    BY <1>1, <2>1, <2>2, StartedAsks DEF Create, daemon, call
<1>2. CASE ~Create
  <2>1. Running
    BY <1>2, RunsOn
  <2>2. CASE registered
    <3>1. CASE Retry
      BY <2>2, <3>1 DEF Retry, Started
    <3>2. CASE EndKey \/ BackKey \/ Destroy \/ LeftPromptTapped \/ UsesFreed
      BY <2>1, <2>2, <3>2 DEF EndKey, BackKey, Destroy, LeftPromptTapped, UsesFreed, Running
    <3>3. CASE User /\ ~(Retry \/ EndKey \/ BackKey \/ LeftPromptTapped)
      BY <2>2, <3>3 DEF User, HeaderTapped, Shaken, PromptYes, PromptNo, NoticeOk
    <3>4. CASE Answer \/ Received \/ Refresh \/ PauseOrResume \/ External \/ UNCHANGED vars
      BY <2>2, <3>4 DEF Answer, Answered, Received, Refresh, PauseOrResume, External,
         RadioStarts, RadioStops, SwitchedByOthers, HotspotSwitched, vars
    <3>5. QED
      BY <1>2, <3>1, <3>2, <3>3, <3>4 DEF Next, Framework
  <2>3. CASE ~registered
    <3>1. header = "unset" /\ msgs = <<>> /\ ~popup_user_prompt /\ calls = {}
      BY <2>1, <2>3 DEF IInv, Unregistered
    <3>2. CASE HeaderTapped
      BY <3>1, <3>2 DEF HeaderTapped, Toggle, TurnOn, TurnOff, dialogs, call
    <3>3. CASE Retry
      <4>1. header' = header
        BY <2>3, <3>3 DEF Retry, Started, RegisterAnswers
      <4>2. QED
        BY <3>1, <3>3, <4>1, StartedAsks DEF Retry, daemon, call
    <3>4. CASE EndKey
      BY <2>1, <3>1, <3>4 DEF EndKey, ClosePrompt, Running, daemon, call
    <3>5. CASE External
      BY <2>3, <3>1, <3>5 DEF External, RadioStarts, RadioStops, SwitchedByOthers,
         HotspotSwitched, Post, dialogs, call
    <3>6. CASE NoticeOk \/ PauseOrResume \/ UNCHANGED vars
      BY <3>1, <3>6 DEF NoticeOk, PauseOrResume, daemon, dialogs, call, vars
    <3>7. ~Shaken /\ ~PromptYes /\ ~PromptNo /\ ~Answer /\ ~Received /\ ~Refresh
      BY <2>3, <3>1 DEF Shaken, PromptYes, PromptNo, Answer, Answered, Received, Refresh
    <3>8. ~BackKey /\ ~Destroy /\ ~LeftPromptTapped /\ ~UsesFreed
      BY <2>1 DEF Running, BackKey, Destroy, LeftPromptTapped, UsesFreed
    <3>9. QED
      BY <1>2, <3>2, <3>3, <3>4, <3>5, <3>6, <3>7, <3>8 DEF Next, User, Framework
  <2>4. QED
    BY <2>2, <2>3
<1>3. QED
  BY <1>1, <1>2

\* The one call that is not answered stays the one that is known.
LEMMA CallKnownStep ==
    ASSUME IInv, [Next]_vars
    PROVE  CallKnown'
<1> SUFFICES ASSUME Running', ~untidy'
             PROVE  \A c \in calls' : c = pending_call' /\ ~is_handled'
  BY DEF CallKnown
<1>1. CASE Create
  BY <1>1 DEF IInv, Fresh, Create, call
<1>2. CASE ~Create
  <2>1. Running
    BY <1>2, RunsOn
  <2>2. ~untidy => \A c \in calls : c = pending_call /\ ~is_handled
    BY <2>1 DEF IInv, CallKnown
  <2>3. CASE PromptYes
    <3>1. CASE GivesUp /\ UNCHANGED <<call, untidy>>
      BY <2>2, <3>1 DEF call
    <3>2. CASE (\E c \in Calls : Deactivate(c)) /\ untidy' = (untidy \/ calls # {})
      <4>1. calls = {}
        BY <3>2
      <4>2. PICK d \in Calls : Deactivate(d)
        BY <3>2
      <4>3. calls' = {d} /\ pending_call' = d /\ is_handled' = FALSE
        BY <4>1, <4>2 DEF Deactivate
      <4>4. QED
        BY <4>3
    <3>3. QED
      BY <2>3, <3>1, <3>2 DEF PromptYes
  <2>4. CASE Answer
    BY <2>2, <2>4 DEF Answer, Answered
  <2>5. CASE BackKey \/ Destroy \/ LeftPromptTapped \/ UsesFreed
    BY <2>1, <2>5 DEF Running, BackKey, Destroy, LeftPromptTapped, UsesFreed
  <2>6. CASE EndKey
    BY <2>2, <2>6 DEF EndKey, Running, call
  <2>7. CASE \/ HeaderTapped \/ Shaken \/ PromptNo \/ Retry \/ NoticeOk \/ Received
             \/ Refresh \/ External \/ PauseOrResume \/ UNCHANGED vars
    BY <2>2, <2>7 DEF HeaderTapped, Shaken, PromptNo, Retry, NoticeOk, Received, Refresh,
       External, RadioStarts, RadioStops, SwitchedByOthers, HotspotSwitched, PauseOrResume,
       call, vars
  <2>8. QED
    BY <1>2, <2>3, <2>4, <2>5, <2>6, <2>7 DEF Next, User, Framework
<1>3. QED
  BY <1>1, <1>2

\* A tidy exit leaves no call and no prompt.
LEMMA GoneStep ==
    ASSUME IInv, [Next]_vars
    PROVE  Gone'
<1> SUFFICES ASSUME life' \in {"left", "destroyed"}, ~untidy'
             PROVE  calls' = {} /\ prompts' = 0
  BY DEF Gone
<1>1. life \in {"left", "destroyed"} /\ ~untidy => calls = {} /\ prompts = 0
  BY DEF IInv, Gone
<1>2. ASSUME Running, ~untidy, WifiExit
      PROVE  calls' = {}
  <2>1. \A c \in calls : c = pending_call /\ ~is_handled
    BY <1>2 DEF IInv, CallKnown
  <2>2. CASE is_handled
    BY <1>2, <2>1, <2>2 DEF WifiExit
  <2>3. CASE ~is_handled
    BY <1>2, <2>1, <2>3 DEF WifiExit
  <2>4. QED
    BY <2>2, <2>3
<1>3. ASSUME Running
      PROVE  prompts = IF popup_user_prompt THEN 1 ELSE 0
  BY <1>3 DEF IInv, OnePrompt
<1>4. CASE EndKey
  <2>1. Running /\ WifiExit /\ ~untidy
    BY <1>4 DEF EndKey, Running
  <2>2. prompts' = 0
    BY <1>3, <1>4, <2>1 DEF EndKey, ClosePrompt
  <2>3. QED
    BY <1>2, <2>1, <2>2
<1>5. CASE BackKey
  <2>1. Running /\ WifiExit /\ ~untidy /\ UNCHANGED prompts
    BY <1>5 DEF BackKey
  <2>2. prompts = 0
    BY <1>5, <2>1 DEF BackKey, NoDialog, IInv, RetryAlone
  <2>3. QED
    BY <1>2, <2>1, <2>2
<1>6. CASE Destroy
  <2>1. CASE Running
    <3>1. WifiExit /\ ~untidy /\ ~popup_user_prompt /\ UNCHANGED prompts
      BY <1>6, <2>1 DEF Destroy
    <3>2. QED
      BY <1>2, <1>3, <2>1, <3>1
  <2>2. CASE ~Running
    <3>1. life = "left" /\ ~untidy /\ UNCHANGED <<dialogs, call>>
      BY <1>6, <2>2 DEF Destroy, Running
    <3>2. QED
      BY <1>1, <3>1 DEF dialogs, call
  <2>3. QED
    BY <2>1, <2>2
<1>7. CASE LeftPromptTapped
  <2>1. life \in {"left", "destroyed"} /\ ~untidy /\ prompts > 0
    BY <1>7 DEF LeftPromptTapped
  <2>2. QED
    BY <1>1, <2>1
<1>8. CASE User /\ ~(EndKey \/ BackKey \/ LeftPromptTapped)
  BY <1>8 DEF User, HeaderTapped, Shaken, PromptYes, PromptNo, Retry, NoticeOk, Running
<1>9. CASE Answer \/ Received \/ Refresh \/ Create \/ PauseOrResume \/ UsesFreed
  BY <1>9 DEF Answer, Answered, Received, Refresh, Create, PauseOrResume, UsesFreed, Running
<1>10. CASE External \/ UNCHANGED vars
  BY <1>1, <1>10 DEF External, RadioStarts, RadioStops, SwitchedByOthers, HotspotSwitched,
     dialogs, call, vars
<1>11. QED
  BY <1>4, <1>5, <1>6, <1>7, <1>8, <1>9, <1>10 DEF Next, Framework

\* Whatever makes the header say "Activating", or takes a cause away, leaves
\* another or gives up.
LEMMA CauseStep ==
    ASSUME IInv, [Next]_vars
    PROVE  ActivatingHasCause'
<1> DEFINE Cause == popup_user_prompt \/ calls # {} \/ radio = "starting" \/ msgs # <<>>
<1> SUFFICES ASSUME Running', header' = "ACTIVATING", ~abandoned'
             PROVE  Cause'
  BY DEF ActivatingHasCause
<1>1. ASSUME Running, ~registered
      PROVE  header = "unset" /\ msgs = <<>> /\ ~popup_user_prompt /\ calls = {}
  BY <1>1 DEF IInv, Unregistered
<1>2. ASSUME Running, header = "ACTIVATING", ~abandoned
      PROVE  Cause
  BY <1>2 DEF IInv, ActivatingHasCause
<1>3. /\ "POWER_ON_OK" \in Messages /\ "POWER_OFF_OK" \in Messages
      /\ "POWER_ON_REFUSED" \in Messages
  BY DEF Messages
<1>4. ASSUME registered, NEW m \in Messages, Post(m)
      PROVE  msgs' # <<>>
  BY <1>4, PostArrives DEF IInv
<1>5. ASSUME Running, Toggle
      PROVE  popup_user_prompt' \/ radio' = "starting" \/ msgs' # <<>>
  <2>1. CASE registered
    <3>1. CASE TurnOn
      <4>1. CASE hotspot /\ Prompt
        BY <4>1 DEF Prompt
      <4>2. CASE PowerOnAccepted
        BY <1>3, <1>4, <2>1, <4>2 DEF PowerOnAccepted
      <4>3. CASE radio = "starting" /\ UNCHANGED radio
        BY <4>3
      <4>4. QED
        BY <3>1, <4>1, <4>2, <4>3 DEF TurnOn
    <3>2. CASE TurnOff
      BY <3>2 DEF TurnOff
    <3>3. CASE header \in {"unset", "DEACTIVATING"} /\ UNCHANGED header
      BY <3>3
    <3>4. QED
      BY <1>5, <3>1, <3>2, <3>3 DEF Toggle
  <2>2. CASE ~registered
    BY <1>1, <1>5, <2>2 DEF Toggle, TurnOn, TurnOff
  <2>3. QED
    BY <2>1, <2>2
<1>6. CASE Create
  <2>1. header = "unset"
    BY <1>6 DEF IInv, Fresh, Create
  <2>2. QED
    BY <1>6, <2>1 DEF Create, Started, HeaderBecomes
<1>7. CASE ~Create
  <2>1. Running
    BY <1>7, RunsOn
  <2>2. CASE HeaderTapped \/ Shaken
    BY <1>5, <2>1, <2>2 DEF HeaderTapped, Shaken
  <2>3. CASE Answer
    <3>1. PICK c \in Calls : Answered(c)
      BY <2>3 DEF Answer
    <3>2. Toggle
      BY <3>1 DEF Answered
    <3>3. QED
      BY <1>5, <2>1, <3>2
  <2>4. CASE PromptYes
    <3>1. CASE \E c \in Calls : Deactivate(c)
      BY <3>1 DEF Deactivate
    <3>2. CASE GivesUp
      BY <2>4, <3>2 DEF PromptYes, GivesUp
    <3>3. QED
      BY <2>4, <3>1, <3>2 DEF PromptYes
  <2>5. CASE PromptNo
    BY <2>5 DEF PromptNo, GivesUp
  <2>6. CASE EndKey
    <3>1. /\ IF popup_user_prompt THEN GivesUp ELSE UNCHANGED abandoned
          /\ UNCHANGED <<header, daemon, call>>
      BY <2>6 DEF EndKey, Running
    <3>2. ~popup_user_prompt /\ ~abandoned
      BY <3>1 DEF GivesUp
    <3>3. QED
      BY <1>2, <2>1, <3>1, <3>2 DEF daemon, call
  <2>7. CASE Retry
    <3>1. UNCHANGED <<popup_user_prompt, prompts, daemon, call>>
      BY <2>7, StartedAsks DEF Retry
    <3>2. UNCHANGED <<header, abandoned>>
      BY <2>7 DEF Retry, Started, HeaderBecomes
    <3>3. QED
      BY <1>2, <2>1, <3>1, <3>2 DEF daemon, call
  <2>8. CASE Received \/ Refresh
    BY <2>8 DEF Received, Refresh, HeaderBecomes
  <2>9. CASE RadioStarts
    <3>1. registered
      BY <1>1, <2>1, <2>9 DEF RadioStarts
    <3>2. ~GivesUp
      BY <2>9 DEF RadioStarts, GivesUp
    <3>3. QED
      BY <1>3, <1>4, <2>9, <3>1, <3>2 DEF RadioStarts
  <2>10. CASE RadioStops
    <3>1. registered
      BY <1>1, <2>1, <2>10 DEF RadioStops
    <3>2. QED
      BY <1>3, <1>4, <2>10, <3>1 DEF RadioStops
  <2>11. CASE SwitchedByOthers \/ HotspotSwitched
    BY <1>2, <2>1, <2>11 DEF SwitchedByOthers, HotspotSwitched, dialogs, call
  <2>12. CASE NoticeOk \/ PauseOrResume \/ UNCHANGED vars
    BY <1>2, <2>1, <2>12 DEF NoticeOk, PauseOrResume, daemon, dialogs, call, vars
  <2>13. ~BackKey /\ ~Destroy /\ ~LeftPromptTapped /\ ~UsesFreed
    BY <2>1 DEF Running, BackKey, Destroy, LeftPromptTapped, UsesFreed
  <2>14. QED
    BY <1>7, <2>2, <2>3, <2>4, <2>5, <2>6, <2>7, <2>8, <2>9, <2>10, <2>11, <2>12, <2>13
       DEF Next, User, External, Framework
<1>8. QED
  BY <1>6, <1>7

-----------------------------------------------------------------------------
(* The theorems.                                                            *)

LEMMA IInvStep == IInv /\ [Next]_vars => IInv'
BY TypeStep, OnePromptStep, CauseStep, FreshStep, UnregisteredStep, RetryAloneStep,
   CallKnownStep, GoneStep DEF IInv

THEOREM Invariance == Spec => []IInv
BY InitIInv, IInvStep, PTL DEF Spec

\* Every variable keeps its type.
THEOREM TypeCorrect == Spec => []TypeOK
<1>1. IInv => TypeOK
  BY DEF IInv
<1>2. QED
  BY <1>1, Invariance, PTL

\* A header that says "Activating" has something under way that will change
\* it, unless powering on was given up behind the header's back.
THEOREM CauseKept == Spec => []ActivatingHasCause
<1>1. IInv => ActivatingHasCause
  BY DEF IInv
<1>2. QED
  BY <1>1, Invariance, PTL

\* However often the hotspot stands in the way, one question is on the screen.
THEOREM OneQuestion == Spec => []OnePrompt
<1>1. IInv => OnePrompt
  BY DEF IInv
<1>2. QED
  BY <1>1, Invariance, PTL

\* wifi_exit cancels the one call whose answer would find the gadget gone.
THEOREM ExitCancelsTheCall == Spec => []NoAnswerAfterExit
<1>1. IInv => NoAnswerAfterExit
  BY DEF IInv, Gone, NoAnswerAfterExit
<1>2. QED
  BY <1>1, Invariance, PTL
=============================================================================
