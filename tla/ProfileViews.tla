--------------------------- MODULE ProfileViews ----------------------------
(***************************************************************************)
(* The two views that edit an AP's profile: the detail view                *)
(* (view_detail.c) and the EAP view (common_eap_connect.c), with the IP    *)
(* form both contain (common_ip_info.c).  A view reads the profile into a  *)
(* data object when it opens and works on its own copy; the daemon's       *)
(* profile changes meanwhile.                                              *)
(*                                                                         *)
(* elm_naviframe pops a view with a transition; until it ends the popped   *)
(* view's buttons may deliver a click again.  Back and Forget's OK guard   *)
(* against it with view_detail_end.  A second click on a handler without a *)
(* guard would use freed memory and is not modelled.  Neither is the place *)
(* of the views in the naviframe (see ScanGate).  A choice from a menu is  *)
(* one action.                                                             *)
(***************************************************************************)
EXTENDS ProfileData, FiniteSets, Functions

CONSTANTS Profiles,   \* the profiles the daemon may start with
          MaxOpens,   \* bound on views opened
          MaxEdits    \* bound on the user's edits

ASSUME ViewsAssumption == Profiles \subseteq Profile /\ {MaxOpens, MaxEdits} \subseteq Nat

VARIABLES
    profile,   \* the daemon's profile
    view,      \* the view on top of the list: "none", "detail", "eap"
    leaving,   \* "no"; "popped" by its handler, which frees it; "ended" by END
    view_detail_end,
    forget_confirm_popup,
    eapList,   \* the detail view has eap_info_list
    favourite, \* the detail view has a Forget key
    deleting,  \* the daemon was asked to delete the profile
    ipInfo,    \* the IP form's data object
    eapInfo,   \* the EAP form's data object
    entries,   \* the text of each entry of the form, Absent if there is none
    defaults,  \* COMMON_UTILS_DEFAULT_ENTRY_TEXT_KEY of each entry, Empty if none
    opens, edits,
    typed,     \* history: the addresses the user last saw in the entries
    shown,     \* history: what the form showed when it opened
    forgot,    \* history: the user confirmed Forget in this view
    writes,    \* history: calls of net_modify_profile by this view
    wiped      \* history: the profile was deleted while the view was open

place   == <<view, leaving, view_detail_end, forget_confirm_popup, eapList, favourite>>
form    == <<ipInfo, eapInfo, entries, defaults>>
history == <<typed, shown, forgot, writes, wiped>>
vars    == <<profile, deleting, place, form, opens, edits, history>>

Entries == Fields \cup {"host", "port", "id", "pw"}
EntryMethods == {"PEAP", "TLS", "TTLS"}   \* methods with identity and password entries

Texts(e) == CASE e \in Fields -> Addr \cup {Junk, Empty}
              [] e = "host"   -> {Zero, Junk, Empty}
              [] e = "port"   -> {Port, Empty}
              [] OTHER        -> {Junk, Empty}

IpInfos  == [type : Types, addr : [Fields -> Text], proxy : Proxies]
EapInfos == [method : Methods, auth : Auths, user : OrNull, pswd : OrNull]

\* What the user sees: the toggle, the entries, the method and the authentication.
\* Under DHCP the address is a disabled row, which no edit touches.
Form(ip, eap, ent) ==
    [known |-> TRUE, static |-> ip.type = "static",
     method |-> eap.method, auth |-> eap.auth, entries |-> ent]

\* Types of the variables, and the address entries are there exactly under STATIC.
TypeOK ==
    /\ profile \in Profile
    /\ view \in {"none", "detail", "eap"} /\ leaving \in {"no", "popped", "ended"}
    /\ view_detail_end \in BOOLEAN /\ forget_confirm_popup \in BOOLEAN /\ eapList \in BOOLEAN
    /\ favourite \in BOOLEAN /\ deleting \in BOOLEAN
    /\ forgot \in BOOLEAN /\ wiped \in BOOLEAN
    /\ ipInfo \in IpInfos /\ eapInfo \in EapInfos
    /\ entries \in [Entries -> OrNull] /\ defaults \in [Entries -> Text]
    /\ opens \in 0..MaxOpens /\ edits \in 0..MaxEdits /\ writes \in 0..2
    /\ typed \in [Fields -> Text]
    /\ shown \in [known : BOOLEAN, static : BOOLEAN,
                  method : Methods, auth : Auths, entries : [Entries -> OrNull]]
    /\ \A f \in Fields : entries[f] = Absent <=> ipInfo.type # "static"

BlankIp == IpInfo(InitDefault)
BlankEap == EapInfo(InitDefault)
NoTexts(t) == [e \in Entries |-> t]

----------------------------------------------------------------------------
(* The forms.                                                              *)

\* The entries under DHCP as well.
StaticTableAlways(ip, f) == ip.addr[f]

\* _create_static_ip_table, _delete_static_ip_table
StaticTable(ip, f) == IF ip.type = "static" THEN ip.addr[f] ELSE Absent

IpEntry(ip, e) ==
    CASE e \in Fields -> StaticTable(ip, e)
      [] e = "host"   -> HostPort(ip.proxy)[1]
      [] e = "port"   -> HostPort(ip.proxy)[2]
      [] OTHER        -> Absent

\* eap_info_append_items: the detail view can only edit the password.
DetailEntries(p, hasEapList) ==
    [e \in Entries |->
        IF e = "pw" /\ hasEapList /\ p.method \notin {"SIM", "AKA"} THEN p.pswd
        ELSE IpEntry(IpInfo(p), e)]

\* _create_list: the EAP view starts with empty identity and password.
EapEntries(p) ==
    [e \in Entries |->
        IF e \in {"id", "pw"} /\ EapInfo(p).method \in EntryMethods THEN Empty
        ELSE IpEntry(IpInfo(p), e)]

\* common_utils_add_edit_box: without a guide text the first text is the default.
DefaultTexts(ent) ==
    [e \in Entries |-> IF e \in {"id", "pw"} \/ ent[e] = Absent THEN Empty ELSE ent[e]]

\* Both views fill their data objects when they open.
OpenForm(ent) ==
    /\ opens < MaxOpens
    /\ view = "none"
    /\ ipInfo' = IpInfo(profile)
    /\ eapInfo' = EapInfo(profile)
    /\ entries' = ent
    /\ defaults' = DefaultTexts(ent)
    /\ opens' = opens + 1
    /\ writes' = 0 /\ forgot' = FALSE /\ wiped' = FALSE
    /\ typed' = IpInfo(profile).addr
    /\ shown' = [Form(ipInfo', eapInfo', entries') EXCEPT !.known = profile.known]
    /\ forget_confirm_popup' = FALSE
    /\ UNCHANGED <<profile, deleting, leaving, edits>>

\* view_detail, for an AP the daemon still knows; it may be the connected one.
ViewDetail(connected) ==
    /\ profile.known
    /\ eapList' = (profile.eapAp /\ (profile.favourite \/ connected))
    /\ OpenForm(DetailEntries(profile, eapList'))
    /\ view' = "detail"
    /\ view_detail_end' = FALSE
    /\ favourite' = profile.favourite

\* create_eap_connect; a profile that is missing gives a default form.
CreateEapConnect ==
    /\ profile.eapAp
    /\ OpenForm(EapEntries(profile))
    /\ view' = "eap"
    /\ eapList' = FALSE /\ favourite' = FALSE
    /\ UNCHANGED view_detail_end

Edit ==
    /\ view # "none" /\ leaving = "no"
    /\ edits < MaxEdits
    /\ edits' = edits + 1
    /\ UNCHANGED <<profile, deleting, place, opens, shown, forgot, writes, wiped>>

Typed(e, t) == typed' = IF e \in Fields THEN [typed EXCEPT ![e] = t] ELSE typed

\* The user types into an entry, or clears it with its eraser.
EnterText(e, t) ==
    /\ Edit
    /\ entries[e] # Absent
    /\ entries' = [entries EXCEPT ![e] = t]
    /\ Typed(e, t)
    /\ UNCHANGED <<ipInfo, eapInfo, defaults>>

\* The focus leaves an empty entry: its default text comes back.
Unfocused(e) ==
    /\ Edit
    /\ entries[e] = Empty /\ defaults[e] # Empty
    /\ entries' = [entries EXCEPT ![e] = defaults[e]]
    /\ Typed(e, defaults[e])
    /\ UNCHANGED <<ipInfo, eapInfo, defaults>>

\* The entries left where they are.
SavedNothing(ip, ent) == ip

\* ip_info_save_data without the profile: the entries go into the data object.
Saved(ip, ent) ==
    [ip EXCEPT !.addr = [f \in Fields |-> SetUnlessNull(ent[f], @[f])],
               !.proxy = <<ent["host"], ent["port"]>>]

\* To DHCP without keeping the entries.
ToDhcpForgetsEntries ==
    /\ ipInfo.type = "static"
    /\ ipInfo' = [ipInfo EXCEPT !.type = "dhcp"]

\* To DHCP: keep what the entries hold, then delete them.
ToDhcp ==
    /\ ipInfo.type = "static"
    /\ ipInfo' = [Saved(ipInfo, entries) EXCEPT !.type = "dhcp"]

ToStatic ==
    /\ ipInfo.type # "static"
    /\ ipInfo' = [ipInfo EXCEPT !.type = "static"]

\* _ip_info_toggle_item_sel_cb
Toggle ==
    /\ Edit
    /\ ToDhcp \/ ToStatic
    /\ entries'  = [e \in Entries |-> IF e \in Fields THEN StaticTable(ipInfo', e) ELSE entries[e]]
    /\ defaults' = [e \in Entries |->
                      IF e \notin Fields THEN defaults[e]
                      ELSE IF ipInfo'.type = "static" THEN ipInfo'.addr[e] ELSE Empty]
    /\ UNCHANGED <<eapInfo, typed>>

----------------------------------------------------------------------------
(* The EAP view.                                                           *)

\* The rules without UNKNOWN: an AP without a method would never get entries.
EntriesByRulesOfSim(pre, new) ==
    CASE new \in EntryMethods /\ pre \in {"SIM", "AKA"} ->
            [entries EXCEPT !["id"] = Empty, !["pw"] = Empty]
      [] new \in {"SIM", "AKA"} /\ pre \in EntryMethods ->
            [entries EXCEPT !["id"] = Absent, !["pw"] = Absent]
      [] OTHER -> entries

\* _create_and_update_list_items_based_on_rules, from the method the data object
\* has to the chosen one: the entries are created, deleted or left alone.
EntriesByRules(pre, new) ==
    CASE new \in EntryMethods /\ pre \in {"UNKNOWN", "SIM", "AKA"} ->
            [entries EXCEPT !["id"] = Empty, !["pw"] = Empty]
      [] new \in {"SIM", "AKA"} /\ pre \in EntryMethods ->
            [entries EXCEPT !["id"] = Absent, !["pw"] = Absent]
      [] OTHER -> entries

\* _gl_eap_type_sub_sel
ChooseMethod(m) ==
    /\ Edit
    /\ view = "eap"
    /\ m # eapInfo.method
    /\ entries' = EntriesByRules(eapInfo.method, m)
    /\ eapInfo' = [eapInfo EXCEPT !.method = m]
    /\ UNCHANGED <<ipInfo, defaults, typed>>

\* _gl_eap_auth_sub_sel: its menu is one of the entries.
ChooseAuth(a) ==
    /\ Edit
    /\ view = "eap" /\ entries["id"] # Absent
    /\ eapInfo' = [eapInfo EXCEPT !.auth = a]
    /\ UNCHANGED <<ipInfo, entries, defaults, typed>>

----------------------------------------------------------------------------
(* Saving and leaving.                                                     *)

\* A save reads the profile again.  It does nothing when the profile is missing, and
\* asks the daemon only when something differs; no caller looks at a refusal (ok).
IpSave(ip, p, ok) == IF p.known /\ ok THEN WithIpInfo(ip, p) ELSE p
IpAsks(ip, p) == IF p.known /\ IpModified(ip, p) THEN 1 ELSE 0

EapSave(eap, p, ok) == IF p.known /\ ok THEN WithEapInfo(eap, p) ELSE p
EapAsks(eap, p) == IF p.known /\ EapModified(eap, p) THEN 1 ELSE 0

\* The view's data is freed and its page popped.
Popped ==
    /\ leaving' = "popped"
    /\ UNCHANGED <<view, eapList, favourite, entries, defaults, opens, edits, typed, shown,
                   wiped>>

\* The body of detailview_sk_cb: the EAP password is saved, then the IP form.
SaveAndPop(okEap, okIp) ==
    LET eap == IF eapList THEN [eapInfo EXCEPT !.pswd = entries["pw"]] ELSE eapInfo
        p1  == IF eapList THEN EapSave(eap, profile, okEap) ELSE profile
    IN  /\ view = "detail"
        /\ view_detail_end' = TRUE
        /\ ipInfo' = Saved(ipInfo, entries)
        /\ eapInfo' = eap
        /\ profile' = IpSave(ipInfo', p1, okIp)
        /\ writes' = writes + IpAsks(ipInfo', p1) + (IF eapList THEN EapAsks(eap, profile) ELSE 0)
        /\ Popped
        /\ UNCHANGED <<forget_confirm_popup, deleting, forgot>>

\* detailview_sk_cb: Back.
DetailBack(okEap, okIp) ==
    /\ ~view_detail_end
    /\ SaveAndPop(okEap, okIp)

\* forget_sk_cb, cancel_cb
AskForget ==
    /\ view = "detail" /\ leaving = "no" /\ favourite
    /\ forget_confirm_popup' = ~forget_confirm_popup
    /\ UNCHANGED <<profile, deleting, view, leaving, view_detail_end, eapList, favourite,
                   form, opens, edits, history>>

\* ok_cb: Forget is confirmed.
ForgetOk ==
    /\ view = "detail" /\ forget_confirm_popup
    /\ ~view_detail_end
    /\ view_detail_end' = TRUE
    /\ forget_confirm_popup' = FALSE
    /\ deleting' = (deleting \/ (profile.known /\ profile.favourite))
    /\ forgot' = TRUE
    /\ Popped
    /\ UNCHANGED <<profile, ipInfo, eapInfo, writes>>

\* PEAP and TTLS need an identity and a password; the other methods save what the
\* profile had.
Credentials ==
    IF eapInfo.method \in {"PEAP", "TTLS"}
    THEN [eapInfo EXCEPT !.user = entries["id"], !.pswd = entries["pw"]]
    ELSE eapInfo

\* __common_eap_connect_done_cb: the IP form is saved, then the EAP form, and the
\* view is closed whether or not the daemon takes the connection request.
Connect(okEap, okIp) ==
    LET p1 == IpSave(Saved(ipInfo, entries), profile, okIp)
    IN  /\ view = "eap" /\ leaving \in {"no", "ended"}
        /\ eapInfo.method \in {"PEAP", "TTLS"} => Empty \notin {entries["id"], entries["pw"]}
        /\ ipInfo' = Saved(ipInfo, entries)
        /\ eapInfo' = Credentials
        /\ profile' = EapSave(eapInfo', p1, okEap)
        /\ writes' = writes + IpAsks(ipInfo', profile) + EapAsks(eapInfo', p1)
        /\ Popped
        /\ UNCHANGED <<view_detail_end, forget_confirm_popup, deleting, forgot>>

\* __common_eap_connect_destroy: Back or Cancel.
EapBack ==
    /\ view = "eap" /\ leaving \in {"no", "ended"}
    /\ Popped
    /\ UNCHANGED <<profile, deleting, view_detail_end, forget_confirm_popup, ipInfo, eapInfo, forgot, writes>>

\* END pops the page without the view's handler: nothing is saved or freed.
EndKey ==
    /\ view # "none" /\ leaving = "no"
    /\ leaving' = "ended"
    /\ UNCHANGED <<profile, deleting, view, view_detail_end, forget_confirm_popup, eapList,
                   favourite, form, opens, edits, history>>

\* The page is deleted with what is on it.
TransitionEnds ==
    /\ leaving # "no"
    /\ view' = "none" /\ leaving' = "no"
    /\ forget_confirm_popup' = FALSE /\ eapList' = FALSE /\ favourite' = FALSE
    /\ ipInfo' = BlankIp /\ eapInfo' = BlankEap
    /\ entries' = NoTexts(Absent) /\ defaults' = NoTexts(Empty)
    /\ typed' = BlankIp.addr /\ shown' = Form(BlankIp, BlankEap, NoTexts(Absent))
    /\ writes' = 0 /\ forgot' = FALSE /\ wiped' = FALSE
    /\ UNCHANGED <<profile, deleting, view_detail_end, opens, edits>>

----------------------------------------------------------------------------
(* The daemon.                                                             *)

DaemonOnly == UNCHANGED <<place, form, opens, edits, history>>

\* A new lease.
Renew(a) ==
    /\ profile.known /\ profile.type = "dhcp"
    /\ profile' = [profile EXCEPT !.addr["ip"] = a]
    /\ UNCHANGED deleting /\ DaemonOnly

\* The AP goes out of range, or comes back.
ComeOrGo ==
    /\ profile' = [profile EXCEPT !.known = ~@]
    /\ UNCHANGED deleting /\ DaemonOnly

\* What is left of a profile without its settings.
Forgotten(p) ==
    [p EXCEPT !.type = "dhcp", !.addr = [f \in Fields |-> Zero], !.dnsCount = 0,
              !.proxy = <<>>, !.method = "UNKNOWN", !.auth = "NONE",
              !.user = Empty, !.pswd = Empty, !.favourite = FALSE]

\* The profile is deleted: the AP stays, as one never connected to.  A view that
\* was opened after Forget and before this shows the old settings.
Deleted ==
    /\ deleting /\ deleting' = FALSE
    /\ profile' = Forgotten(profile)
    /\ wiped' = (view # "none")
    /\ UNCHANGED <<place, form, opens, edits, typed, shown, forgot, writes>>

----------------------------------------------------------------------------
Init ==
    /\ profile \in Profiles /\ deleting = FALSE
    /\ view = "none" /\ leaving = "no" /\ view_detail_end = TRUE
    /\ forget_confirm_popup = FALSE /\ eapList = FALSE /\ favourite = FALSE
    /\ ipInfo = BlankIp /\ eapInfo = BlankEap
    /\ entries = NoTexts(Absent) /\ defaults = NoTexts(Empty)
    /\ typed = BlankIp.addr /\ shown = Form(BlankIp, BlankEap, NoTexts(Absent))
    /\ opens = 0 /\ edits = 0 /\ writes = 0 /\ forgot = FALSE /\ wiped = FALSE

Next ==
    \/ \E connected \in BOOLEAN : ViewDetail(connected)
    \/ CreateEapConnect
    \/ \E e \in Entries : Unfocused(e) \/ \E t \in Texts(e) : EnterText(e, t)
    \/ Toggle
    \/ \E m \in Methods \ {"UNKNOWN"} : ChooseMethod(m)
    \/ \E a \in Auths : ChooseAuth(a)
    \/ \E okEap, okIp \in BOOLEAN : DetailBack(okEap, okIp) \/ Connect(okEap, okIp)
    \/ AskForget \/ ForgetOk \/ EapBack \/ EndKey \/ TransitionEnds
    \/ \E a \in Addr : Renew(a)
    \/ ComeOrGo \/ Deleted

Spec == Init /\ [][Next]_vars

----------------------------------------------------------------------------
(* Properties.                                                             *)

\* While the address entries are on the screen they hold what the user last saw
\* in them, however often the form went to DHCP and back
\* (_ip_info_toggle_item_sel_cb).
TypedTextComesBack ==
    view # "none" /\ leaving = "no" /\ ipInfo.type = "static" =>
        \A f \in Fields : entries[f] = typed[f]

\* The EAP view has identity and password entries exactly for the methods that
\* use them, whatever was chosen before: __common_eap_connect_done_cb reads
\* their texts without a test.
FormMatchesMethod ==
    view = "eap" =>
        \A e \in {"id", "pw"} : entries[e] # Absent <=> eapInfo.method \in EntryMethods

\* The view is left by one of its own keys.
Leaves == leaving # "popped" /\ leaving' = "popped"

IpPart(p)  == <<p.type, p.addr, p.dnsCount, p.proxy>>
EapPart(p) == <<p.method, p.auth, p.user, p.pswd>>

IpForm(static, ent)    == <<static, [e \in Entries \ {"id", "pw"} |-> ent[e]]>>
EapForm(method, auth, ent) == <<method, auth, ent["id"], ent["pw"]>>

\* Stored again as it was read.
ProxyIsShown(proxy) ==
    \/ proxy = <<>>
    \/ Len(proxy) = 2 /\ Empty \notin Range(proxy) /\ proxy # DefaultProxy

\* A form that shows at the end what it showed when it opened leaves its part of
\* the profile as the daemon has it, whatever was edited and taken back.  This
\* takes a profile the daemon knew and has not deleted under the view (Back then
\* writes the old settings, as SavedAsShown says), a type the toggle knows, and no
\* proxy or one with both host and port that is not the default.
LookingChangesNothing ==
    [][ Leaves /\ shown.known /\ ~wiped =>
          /\ /\ IpForm(ipInfo.type = "static", entries) = IpForm(shown.static, shown.entries)
             /\ profile.type \in {"static", "dhcp"}
             /\ ProxyIsShown(profile.proxy)
             => IpPart(profile') = IpPart(profile)
          /\ EapForm(eapInfo.method, eapInfo.auth, entries)
               = EapForm(shown.method, shown.auth, shown.entries)
             => EapPart(profile') = EapPart(profile) ]_vars

\* What the two forms show, put into a profile.
ShownIp(p) ==
    [p EXCEPT !.type  = ipInfo.type,
              !.proxy = ProxyToStore(<<entries["host"], entries["port"]>>),
              !.addr  = [f \in Fields |-> IF ipInfo.type = "static" /\ entries[f] \in Addr
                                          THEN entries[f] ELSE p.addr[f]],
              !.dnsCount = 0]

\* A credential the form does not write from an entry is the profile's; the one
\* that was read comes back if the profile was deleted meanwhile.
Kept(read, old) == IF wiped THEN SetUnlessNull(read, old) ELSE old

ShownEap(p) ==
    [p EXCEPT !.method = eapInfo.method, !.auth = eapInfo.auth,
              !.user = IF eapInfo.method = "TLS" \/ entries["id"] = Absent
                       THEN Kept(eapInfo.user, @) ELSE entries["id"],
              !.pswd = IF view = "detail" THEN SetUnlessNull(entries["pw"], @)
                       ELSE IF eapInfo.method = "TLS" \/ entries["pw"] = Absent
                       THEN Kept(eapInfo.pswd, @) ELSE entries["pw"]]

\* Leaving a view writes, of the IP form and of the EAP form, either nothing or
\* all that the form shows, and neither write undoes the other; under DHCP the
\* addresses stay the daemon's (detailview_sk_cb, __common_eap_connect_done_cb).
SavedAsShown ==
    [][ Leaves =>
          \E p \in {profile, ShownIp(profile), ShownEap(profile), ShownEap(ShownIp(profile))} :
              [profile' EXCEPT !.dnsCount = 0] = [p EXCEPT !.dnsCount = 0] ]_vars

\* Once Forget is confirmed the view writes nothing to the profile any more, so
\* that no edit that was pending creates it again (view_detail_end).
ForgottenIsNotWritten ==
    [][forgot /\ view # "none" => writes' = writes]_vars

=============================================================================
