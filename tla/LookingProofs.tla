---------------------------- MODULE LookingProofs ----------------------------
(***************************************************************************)
(* The proof that opening a view of ProfileViews and leaving it with the   *)
(* form as it was changes nothing, for any addresses and profiles, any     *)
(* number of views and edits, and whatever the daemon does meanwhile short *)
(* of deleting the profile.                                                *)
(***************************************************************************)
EXTENDS ProfileViewsProofs

----------------------------------------------------------------------------
(* The inductive invariant.                                                 *)

ProxyOf(p) == IF p.proxy = <<>> THEN DefaultProxy ELSE p.proxy

\* What the form s of the view v showed when it opened is what the profile p has.
FormShows(s, p, v) ==
    /\ s.static <=> p.type = "static"
    /\ s.static => \A f \in Fields : s.entries[f] = p.addr[f]
    /\ s.entries["host"] = HostPort(ProxyOf(p))[1] /\ s.entries["port"] = HostPort(ProxyOf(p))[2]
    /\ s.method = p.method /\ s.auth = p.auth
    /\ v = "eap" /\ p.method \in EntryMethods => s.entries["id"] = Empty
    /\ v = "detail" => s.entries["pw"] \in {Absent, p.pswd}

\* The daemon renews leases only under DHCP, where no address is shown, so that a form
\* of a known profile still tells what the profile is, unless it was deleted.
ShownIsProfile ==
    view # "none" /\ leaving # "popped" /\ shown.known /\ ~wiped => FormShows(shown, profile, view)

\* The toggle knows two types; any other is what the profile has.
TypeIsToggled ==
    view # "none" /\ leaving # "popped" /\ shown.known /\ ~wiped =>
        ipInfo.type \in {"static", "dhcp", profile.type}

LookInv == IInv /\ ShownIsProfile /\ TypeIsToggled

----------------------------------------------------------------------------
(* The form still tells the profile.                                        *)

LEMMA DetailPassword ==
    ASSUME TypeOK, Opens, view' = "detail"
    PROVE  entries'["pw"] \in {Absent, profile.pswd}
<1>1. PICK c \in BOOLEAN : ViewDetail(c)
  BY DEF Opens, CreateEapConnect
<1>2. entries' = DetailEntries(profile, eapList')
  BY <1>1 DEF ViewDetail, OpenForm
<1>3. IpInfo(profile) \in IpInfos
  BY IpInfoType DEF TypeOK
<1>4. IpEntry(IpInfo(profile), "pw") = Absent
  BY <1>3, IpEntryType DEF Entries
<1>5. entries'["pw"] = IF eapList' /\ profile.method \notin {"SIM", "AKA"} THEN profile.pswd
                       ELSE IpEntry(IpInfo(profile), "pw")
  BY <1>2 DEF DetailEntries, Entries
<1>6. QED
  BY <1>4, <1>5

LEMMA OpensShown ==
    ASSUME IInv, Opens
    PROVE  ShownIsProfile' /\ TypeIsToggled'
<1>1. SUFFICES ASSUME shown'.known
               PROVE  FormShows(shown', profile', view') /\ ipInfo'.type = profile'.type
  BY DEF ShownIsProfile, TypeIsToggled
<1>2. /\ TypeOK /\ profile \in Profile
      /\ FormOf(profile, entries') /\ OpenForm(entries')
      /\ IpInfo(profile) \in IpInfos
  BY OpensForm, IpInfoType DEF IInv, TypeOK
<1>3. /\ profile' = profile /\ ipInfo' = IpInfo(profile) /\ eapInfo' = EapInfo(profile)
      /\ shown' = [Form(ipInfo', eapInfo', entries') EXCEPT !.known = profile.known]
  BY <1>2 DEF OpenForm
<1>4. /\ shown'.known = profile.known /\ shown'.static = (ipInfo'.type = "static")
      /\ shown'.method = eapInfo'.method /\ shown'.auth = eapInfo'.auth
      /\ shown'.entries = entries'
  BY <1>3 DEF Form
<1>5. Read(profile) = profile
  BY <1>1, <1>4 DEF Read
<1>6. /\ ipInfo'.type = profile.type /\ ipInfo'.addr = profile.addr
      /\ ipInfo'.proxy = ProxyOf(profile)
      /\ eapInfo'.method = profile.method /\ eapInfo'.auth = profile.auth
  BY <1>3, <1>5 DEF IpInfo, EapInfo, ProxyOf
<1>7. \A e \in Entries \ {"id", "pw"} : entries'[e] = IpEntry(ipInfo', e)
  BY <1>2, <1>3 DEF FormOf
<1>8. /\ entries'["host"] = HostPort(ProxyOf(profile))[1]
      /\ entries'["port"] = HostPort(ProxyOf(profile))[2]
  BY <1>6, <1>7 DEF IpEntry, Entries, Fields
<1>9. profile.type = "static" => \A f \in Fields : entries'[f] = profile.addr[f]
  BY <1>2, <1>3, <1>6, <1>7, IpEntryType, FieldsAreEntries
<1>10. view' = "eap" /\ profile.method \in EntryMethods => entries'["id"] = Empty
  BY <1>2, <1>3, <1>6, OpensForm
<1>11. view' = "detail" => entries'["pw"] \in {Absent, profile.pswd}
  BY <1>2, DetailPassword
<1>12. QED
  BY <1>3, <1>4, <1>6, <1>8, <1>9, <1>10, <1>11 DEF FormShows

\* What an edit leaves the type at.
LEMMA EditsToggle ==
    ASSUME TypeOK, ProxyEntries,
           \/ \E e \in Entries : Unfocused(e) \/ \E t \in Texts(e) : EnterText(e, t)
           \/ Toggle
           \/ \E m \in Methods \ {"UNKNOWN"} : ChooseMethod(m)
           \/ \E a \in Auths : ChooseAuth(a)
    PROVE  ipInfo'.type \in {"static", "dhcp", ipInfo.type}
<1>1. CASE Toggle
  BY <1>1, ToggleForm
<1>2. CASE ~Toggle
  BY <1>2 DEF Unfocused, EnterText, ChooseMethod, ChooseAuth
<1>3. QED
  BY <1>1, <1>2

\* What the daemon does meanwhile is not shown.
LEMMA OutsideShown ==
    ASSUME IInv, Outside, ~Deleted, NEW s, NEW v, FormShows(s, profile, v)
    PROVE  FormShows(s, profile', v) /\ profile'.type = profile.type
<1>1. profile \in Profile
  BY DEF IInv, TypeOK
<1>2. ASSUME NEW a \in Addr, Renew(a)
      PROVE  FormShows(s, profile', v) /\ profile'.type = profile.type
  <2>1. /\ profile'.type = profile.type /\ profile.type = "dhcp" /\ profile'.proxy = profile.proxy
        /\ profile'.method = profile.method /\ profile'.auth = profile.auth
        /\ profile'.pswd = profile.pswd
    BY <1>1, <1>2 DEF Renew, Profile
  <2>2. QED
    BY <2>1 DEF FormShows, ProxyOf
<1>3. CASE ComeOrGo \/ UNCHANGED vars
  <2>1. /\ profile'.type = profile.type /\ profile'.proxy = profile.proxy
        /\ profile'.addr = profile.addr
        /\ profile'.method = profile.method /\ profile'.auth = profile.auth
        /\ profile'.pswd = profile.pswd
    BY <1>1, <1>3 DEF ComeOrGo, vars, Profile
  <2>2. QED
    BY <2>1 DEF FormShows, ProxyOf
<1>4. QED
  BY <1>2, <1>3 DEF Outside

LEMMA LookStep ==
    ASSUME LookInv, [Next]_vars
    PROVE  ShownIsProfile' /\ TypeIsToggled'
<1>1. IInv /\ TypeOK /\ ProxyEntries /\ ShownIsProfile /\ TypeIsToggled
  BY DEF LookInv, IInv
<1>2. CASE Opens
  BY <1>1, <1>2, OpensShown
<1>3. CASE \/ \E e \in Entries : Unfocused(e) \/ \E t \in Texts(e) : EnterText(e, t)
           \/ Toggle
           \/ \E m \in Methods \ {"UNKNOWN"} : ChooseMethod(m)
           \/ \E a \in Auths : ChooseAuth(a)
  <2>1. UNCHANGED <<view, leaving, shown, profile, wiped>>
    BY <1>3, EditsOnlyEdit DEF Edit, place
  <2>2. ipInfo'.type \in {"static", "dhcp", ipInfo.type}
    BY <1>1, <1>3, EditsToggle
  <2>3. QED
    BY <1>1, <2>1, <2>2 DEF ShownIsProfile, TypeIsToggled
<1>4. CASE Leaving \/ TransitionEnds
  BY <1>4, LeavingPops DEF TransitionEnds, ShownIsProfile, TypeIsToggled
<1>5. CASE AskForget \/ EndKey
  <2>1. UNCHANGED <<view, shown, profile, ipInfo, wiped>> /\ leaving # "popped"
    BY <1>5 DEF AskForget, EndKey, form, history
  <2>2. QED
    BY <1>1, <2>1 DEF ShownIsProfile, TypeIsToggled
<1>6. CASE Outside
  <2>1. UNCHANGED <<view, leaving, shown, ipInfo>>
    BY <1>6, OutsideKeeps DEF place, form
  <2>2. CASE Deleted
    BY <2>1, <2>2 DEF Deleted, ShownIsProfile, TypeIsToggled
  <2>3. CASE ~Deleted
    <3>1. wiped' = wiped
      BY <1>6, <2>3 DEF Outside, Renew, ComeOrGo, DaemonOnly, vars, history
    <3>2. QED
      BY <1>1, <1>6, <2>1, <2>3, <3>1, OutsideShown DEF ShownIsProfile, TypeIsToggled
  <2>4. QED
    BY <2>2, <2>3
<1>7. QED
  BY <1>2, <1>3, <1>4, <1>5, <1>6, StepKinds

\* While a view is open, the form it showed at first tells the profile, known or not,
\* renewed or not (create_eap_connect, view_detail).
THEOREM LookInvariance == Spec => []LookInv
<1>1. Init => LookInv
  <2>1. Init => view = "none"
    BY DEF Init
  <2>2. QED
    BY <2>1, InitIInv DEF LookInv, ShownIsProfile, TypeIsToggled
<1>2. LookInv /\ [Next]_vars => LookInv'
  <2>1. IInv /\ [Next]_vars => IInv'
    BY TypeStep, TypedStep, MethodStep, EntriesStay, WritesStep, CredentialsStep DEF IInv
  <2>2. QED
    BY <2>1, LookStep DEF LookInv
<1>3. QED
  BY <1>1, <1>2, PTL DEF Spec

----------------------------------------------------------------------------
(* Leaving the view.                                                        *)

\* The texts of the proxy's entries are stored as the proxy they were read from.
LEMMA ProxyIsKept ==
    ASSUME NEW p \in Profile, ProxyIsShown(p.proxy)
    PROVE  ProxyToStore(<<HostPort(ProxyOf(p))[1], HostPort(ProxyOf(p))[2]>>) = p.proxy
<1>1. CASE p.proxy = <<>>
  <2>1. ProxyOf(p) = <<Zero, Port>> /\ Zero # Empty
    BY <1>1, TextAssumption DEF ProxyOf, DefaultProxy
  <2>2. HostPort(ProxyOf(p)) = <<Zero, Port>>
    BY <2>1 DEF HostPort
  <2>3. QED
    BY <1>1, <2>2 DEF ProxyToStore, DefaultProxy
<1>2. CASE p.proxy # <<>>
  <2>1. /\ Len(p.proxy) = 2 /\ Empty \notin Range(p.proxy) /\ p.proxy # DefaultProxy
        /\ p.proxy \in Proxies
    BY <1>2 DEF ProxyIsShown, Profile
  <2>2. PICK h \in Text, t \in Text : p.proxy = <<h, t>>
    BY <2>1 DEF Proxies
  <2>3. h # Empty
    BY <2>1, <2>2 DEF Range
  <2>4. ProxyOf(p) = <<h, t>>
    BY <1>2, <2>2 DEF ProxyOf
  <2>5. HostPort(ProxyOf(p)) = <<h, t>>
    BY <2>3, <2>4 DEF HostPort
  <2>6. QED
    BY <2>1, <2>2, <2>5 DEF ProxyToStore
<1>3. QED
  BY <1>1, <1>2

\* A save of the IP form as it was shown, of any profile with that IP part, as it is
\* after the EAP password has been saved.
LEMMA IpSaveKeeps ==
    ASSUME LookInv, view # "none", leaving # "popped", shown.known, ~wiped,
           IpForm(ipInfo.type = "static", entries) = IpForm(shown.static, shown.entries),
           profile.type \in {"static", "dhcp"}, ProxyIsShown(profile.proxy),
           NEW p \in Profile, IpPart(p) = IpPart(profile), NEW ok \in BOOLEAN
    PROVE  IpPart(IpSave(Saved(ipInfo, entries), p, ok)) = IpPart(profile)
<1> DEFINE d == Saved(ipInfo, entries)
<1>1. /\ profile \in Profile /\ ipInfo \in IpInfos /\ entries \in [Entries -> OrNull]
      /\ FormShows(shown, profile, view)
      /\ ipInfo.type \in {"static", "dhcp", profile.type}
      /\ \A f \in Fields : entries[f] = Absent <=> ipInfo.type # "static"
  BY DEF LookInv, IInv, TypeOK, ShownIsProfile, TypeIsToggled
<1>2. /\ p.type = profile.type /\ p.addr = profile.addr /\ p.proxy = profile.proxy
      /\ p.dnsCount = profile.dnsCount
  BY DEF IpPart
<1>3. /\ (ipInfo.type = "static") = shown.static
      /\ [e \in Entries \ {"id", "pw"} |-> entries[e]]
           = [e \in Entries \ {"id", "pw"} |-> shown.entries[e]]
  BY DEF IpForm
<1>4. \A e \in Entries \ {"id", "pw"} : entries[e] = shown.entries[e]
  <2>1. ASSUME NEW e \in Entries \ {"id", "pw"}
        PROVE  entries[e] = shown.entries[e]
    <3>1. /\ [x \in Entries \ {"id", "pw"} |-> entries[x]][e] = entries[e]
          /\ [x \in Entries \ {"id", "pw"} |-> shown.entries[x]][e] = shown.entries[e]
      BY <2>1
    <3>2. QED
      BY <1>3, <3>1
  <2>2. QED
    BY <2>1
<1>5. ipInfo.type = profile.type
  <2>1. shown.static \in BOOLEAN
    BY DEF LookInv, IInv, TypeOK
  <2>2. ipInfo.type = "static" <=> profile.type = "static"
    BY <1>1, <1>3, <2>1 DEF FormShows
  <2>3. QED
    BY <1>1, <2>2
<1>6. /\ entries["host"] = HostPort(ProxyOf(profile))[1]
      /\ entries["port"] = HostPort(ProxyOf(profile))[2]
  BY <1>1, <1>4 DEF FormShows, Entries, Fields
<1>7. /\ d.type = profile.type /\ ProxyToStore(d.proxy) = profile.proxy
      /\ \A f \in Fields : d.addr[f] = SetUnlessNull(entries[f], ipInfo.addr[f])
  <2>1. /\ d.type = ipInfo.type /\ d.proxy = <<entries["host"], entries["port"]>>
        /\ \A f \in Fields : d.addr[f] = SetUnlessNull(entries[f], ipInfo.addr[f])
    BY <1>1, SavedFields
  <2> HIDE DEF d
  <2>2. ProxyToStore(<<entries["host"], entries["port"]>>) = profile.proxy
    BY <1>1, <1>6, ProxyIsKept
  <2>3. QED
    BY <1>5, <2>1, <2>2
<1> HIDE DEF d
<1>8. d.type = "static" => \A f \in Fields : d.addr[f] = p.addr[f]
  BY <1>1, <1>2, <1>4, <1>5, <1>7, FieldsAreEntries DEF FormShows, SetUnlessNull
<1>9. \A f \in Fields : ~Differs(d, p, f)
  BY <1>8 DEF Differs
<1>10. \A f \in Fields : (IF d.type = "static" THEN Parsed(d.addr[f], p.addr[f]) ELSE p.addr[f]) = p.addr[f]
  BY <1>8 DEF Parsed
<1>11. [f \in Fields |-> IF d.type = "static" THEN Parsed(d.addr[f], p.addr[f]) ELSE p.addr[f]] = p.addr
  BY <1>10 DEF Profile
<1>12. WithIpInfo(d, p).type = d.type /\ WithIpInfo(d, p).proxy = ProxyToStore(d.proxy)
       /\ WithIpInfo(d, p).addr = p.addr
  BY <1>11 DEF WithIpInfo, Profile
<1>13. WithIpInfo(d, p).dnsCount = p.dnsCount
  <2>1. ~Differs(d, p, "dns1") /\ ~Differs(d, p, "dns2")
    BY <1>9 DEF Fields
  <2>2. QED
    BY <2>1 DEF WithIpInfo, Profile
<1>14. IpPart(WithIpInfo(d, p)) = IpPart(profile)
  BY <1>2, <1>7, <1>12, <1>13 DEF IpPart
<1>15. QED
  BY <1>14 DEF IpSave, d

\* Each save leaves the other part alone.
LEMMA OtherPart ==
    ASSUME NEW p \in Profile, NEW ip, NEW eap, NEW ok \in BOOLEAN
    PROVE  /\ EapPart(IpSave(ip, p, ok)) = EapPart(p)
           /\ IpPart(EapSave(eap, p, ok)) = IpPart(p)
BY DEF IpSave, EapSave, WithIpInfo, WithEapInfo, EapPart, IpPart, Profile

\* A save of an EAP form with the profile's method, whose identity and password are
\* the profile's as far as they are set.
LEMMA EapSaveKeeps ==
    ASSUME NEW p \in Profile, NEW eap, NEW ok \in BOOLEAN,
           eap.method = p.method, eap.auth = p.auth,
           eap.user \in {Absent, p.user}, eap.pswd \in {Absent, p.pswd}
    PROVE  EapPart(EapSave(eap, p, ok)) = EapPart(p)
BY DEF EapSave, WithEapInfo, SetUnlessNull, EapPart, Profile

LEMMA FormIsProfiles ==
    ASSUME LookInv, view # "none", leaving # "popped", shown.known, ~wiped,
           EapForm(eapInfo.method, eapInfo.auth, entries)
             = EapForm(shown.method, shown.auth, shown.entries)
    PROVE  /\ profile \in Profile /\ eapInfo \in EapInfos
           /\ eapInfo.method = profile.method /\ eapInfo.auth = profile.auth
           /\ eapInfo.user \in {Absent, profile.user} /\ eapInfo.pswd \in {Absent, profile.pswd}
           /\ view = "eap" /\ eapInfo.method \in EntryMethods => entries["id"] = Empty
           /\ view = "detail" => entries["pw"] \in {Absent, profile.pswd}
<1>1. /\ profile \in Profile /\ eapInfo \in EapInfos /\ FormShows(shown, profile, view)
      /\ eapInfo.user \in {Absent, profile.user} /\ eapInfo.pswd \in {Absent, profile.pswd}
  BY DEF LookInv, IInv, TypeOK, ShownIsProfile, CredentialsAreRead
<1>2. /\ eapInfo.method = shown.method /\ eapInfo.auth = shown.auth
      /\ entries["id"] = shown.entries["id"] /\ entries["pw"] = shown.entries["pw"]
  BY DEF EapForm
<1>3. QED
  BY <1>1, <1>2 DEF FormShows

\* A form that shows at the end what it showed at first leaves its part of the profile
\* alone, whatever was edited and taken back and whatever the daemon did meanwhile
\* short of deleting the profile (detailview_sk_cb, __common_eap_connect_done_cb).
THEOREM LookingIsSafe == Spec => LookingChangesNothing
<1> DEFINE IpSame == /\ IpForm(ipInfo.type = "static", entries) = IpForm(shown.static, shown.entries)
                     /\ profile.type \in {"static", "dhcp"}
                     /\ ProxyIsShown(profile.proxy)
           EapSame == EapForm(eapInfo.method, eapInfo.auth, entries)
                        = EapForm(shown.method, shown.auth, shown.entries)
           PartsKept ==
             /\ IpSame => IpPart(profile') = IpPart(profile)
             /\ EapSame => EapPart(profile') = EapPart(profile)
<1>1. ASSUME LookInv, [Next]_vars, Leaves, shown.known, ~wiped
      PROVE  PartsKept
  <2>1. profile \in Profile /\ leaving # "popped" /\ IInv /\ ProxyEntries
    BY <1>1 DEF LookInv, IInv, TypeOK, Leaves
  <2>2. Leaving
    BY <1>1, <2>1, StepKinds, OpensForm, EditsOnlyEdit, OutsideKeeps
       DEF Leaves, IInv, OpenForm, Edit, place, AskForget, EndKey, TransitionEnds
  <2>3. view # "none"
    BY <2>2, LeavingPops
  <2>4. Saved(ipInfo, entries) \in IpInfos /\ DetailEap \in EapInfos /\ Credentials \in EapInfos
    BY <2>1, <2>3, LeavingForms DEF IInv
  <2>5. CASE ForgetOk \/ EapBack
    <3>1. profile' = profile
      BY <2>5 DEF ForgetOk, EapBack
    <3>2. QED
      BY <3>1
  <2>6. ASSUME NEW okEap \in BOOLEAN, NEW okIp \in BOOLEAN, DetailBack(okEap, okIp)
        PROVE  PartsKept
    <3> DEFINE p1 == IF eapList THEN EapSave(DetailEap, profile, okEap) ELSE profile
    <3>1. view = "detail" /\ profile' = IpSave(Saved(ipInfo, entries), p1, okIp)
      BY <2>6 DEF DetailBack, SaveAndPop, DetailEap
    <3>2. p1 \in Profile
      BY <2>1, <2>4, SaveType
    <3>3. IpPart(p1) = IpPart(profile)
      BY <2>1, OtherPart
    <3>4. ASSUME EapSame
          PROVE  EapPart(p1) = EapPart(profile)
      <4>1. /\ eapInfo \in EapInfos
            /\ eapInfo.method = profile.method /\ eapInfo.auth = profile.auth
            /\ eapInfo.user \in {Absent, profile.user}
            /\ entries["pw"] \in {Absent, profile.pswd}
        BY <1>1, <2>1, <2>3, <3>1, <3>4, FormIsProfiles
      <4>2. CASE eapList
        <5>1. /\ DetailEap.method = profile.method /\ DetailEap.auth = profile.auth
              /\ DetailEap.user \in {Absent, profile.user}
              /\ DetailEap.pswd \in {Absent, profile.pswd}
          BY <4>1, <4>2 DEF DetailEap, EapInfos
        <5>2. QED
          BY <2>1, <4>2, <5>1, EapSaveKeeps
      <4>3. QED
        BY <4>2
    <3> HIDE DEF p1
    <3>5. EapPart(profile') = EapPart(p1)
      BY <3>1, <3>2, OtherPart
    <3>6. IpSame => IpPart(profile') = IpPart(profile)
      BY <1>1, <2>1, <2>3, <3>1, <3>2, <3>3, IpSaveKeeps
    <3>7. QED
      BY <3>4, <3>5, <3>6
  <2>7. ASSUME NEW okEap \in BOOLEAN, NEW okIp \in BOOLEAN, Connect(okEap, okIp)
        PROVE  PartsKept
    <3> DEFINE p1 == IpSave(Saved(ipInfo, entries), profile, okIp)
    <3>1. /\ view = "eap" /\ profile' = EapSave(Credentials, p1, okEap)
          /\ eapInfo.method \in {"PEAP", "TTLS"} => Empty \notin {entries["id"], entries["pw"]}
      BY <2>7 DEF Connect
    <3>2. p1 \in Profile
      BY <2>1, <2>4, SaveType
    <3>3. EapPart(p1) = EapPart(profile)
      BY <2>1, OtherPart
    <3>4. IpSame => IpPart(p1) = IpPart(profile)
      BY <1>1, <2>1, <2>3, IpSaveKeeps
    <3> HIDE DEF p1
    <3>5. IpPart(profile') = IpPart(p1)
      BY <3>1, <3>2, OtherPart
    <3>6. ASSUME EapSame
          PROVE  EapPart(profile') = EapPart(p1)
      <4>1. /\ eapInfo.method = profile.method /\ eapInfo.auth = profile.auth
            /\ eapInfo.user \in {Absent, profile.user} /\ eapInfo.pswd \in {Absent, profile.pswd}
            /\ eapInfo.method \in EntryMethods => entries["id"] = Empty
        BY <1>1, <2>1, <2>3, <3>1, <3>6, FormIsProfiles
      \* An empty identity is not sent.
      <4>2. Credentials = eapInfo
        BY <3>1, <4>1 DEF Credentials, EntryMethods
      <4>3. /\ p1.method = profile.method /\ p1.auth = profile.auth
            /\ p1.user = profile.user /\ p1.pswd = profile.pswd
        BY <3>3 DEF EapPart
      <4>4. QED
        BY <3>1, <3>2, <4>1, <4>2, <4>3, EapSaveKeeps
    <3>7. QED
      BY <3>3, <3>4, <3>5, <3>6
  <2>8. QED
    BY <2>2, <2>5, <2>6, <2>7 DEF Leaving
<1>2. LookInv /\ [Next]_vars =>
        (Leaves /\ shown.known /\ ~wiped =>
          /\ /\ IpForm(ipInfo.type = "static", entries) = IpForm(shown.static, shown.entries)
             /\ profile.type \in {"static", "dhcp"}
             /\ ProxyIsShown(profile.proxy)
             => IpPart(profile') = IpPart(profile)
          /\ EapForm(eapInfo.method, eapInfo.auth, entries)
               = EapForm(shown.method, shown.auth, shown.entries)
             => EapPart(profile') = EapPart(profile))
  BY <1>1
<1> HIDE DEF IpSame, EapSame, PartsKept
<1>3. QED
  BY <1>2, LookInvariance, PTL DEF Spec, LookingChangesNothing

=============================================================================
