------------------------- MODULE ProfileViewsProofs -------------------------
(***************************************************************************)
(* Proofs about ProfileViews, for any addresses, any profiles of the       *)
(* daemon and any number of views and edits.                               *)
(***************************************************************************)
EXTENDS ProfileViews, TLAPS

----------------------------------------------------------------------------
(* The data objects: what is read, shown and saved has its type.           *)

LEMMA TextFacts ==
    /\ Zero \in Text /\ Port \in Text /\ Junk \in Text /\ Empty \in Text
    /\ Zero \in Addr /\ Addr \subseteq Text /\ Text \subseteq OrNull
    /\ Absent \in OrNull /\ Absent \notin Text
BY TextAssumption DEF Text, OrNull

LEMMA PairIsProxy ==
    ASSUME NEW s \in Text, NEW t \in Text
    PROVE  <<s, t>> \in Proxies
BY DEF Proxies

LEMMA ReadType ==
    ASSUME NEW p \in Profile
    PROVE  Read(p) \in Profile
<1>1. InitDefault \in Profile
  BY TextFacts DEF InitDefault, Profile, Types, Methods, Auths, Proxies, Fields
<1>2. QED
  BY <1>1 DEF Read

LEMMA IpInfoType ==
    ASSUME NEW p \in Profile
    PROVE  IpInfo(p) \in IpInfos
<1>1. Read(p) \in Profile
  BY ReadType
<1>2. DefaultProxy \in Proxies
  BY TextFacts, PairIsProxy DEF DefaultProxy
<1>3. /\ Read(p).type \in Types
      /\ Read(p).addr \in [Fields -> Text]
      /\ Read(p).proxy \in Proxies
  BY <1>1, TextFacts DEF Profile
<1>4. QED
  BY <1>2, <1>3 DEF IpInfo, IpInfos

LEMMA EapInfoType ==
    ASSUME NEW p \in Profile
    PROVE  EapInfo(p) \in EapInfos
<1>1. Read(p) \in Profile
  BY ReadType
<1>2. \A t \in Text : OrAbsent(t) \in OrNull
  BY TextFacts DEF OrAbsent
<1>3. QED
  BY <1>1, <1>2 DEF EapInfo, EapInfos, Profile

LEMMA HostPortType ==
    ASSUME NEW x \in Proxies
    PROVE  HostPort(x)[1] \in Text /\ HostPort(x)[2] \in Text
<1>1. CASE x = <<>>
  BY <1>1, TextFacts DEF HostPort
<1>2. ASSUME NEW h \in Text, x = <<h>>
      PROVE  HostPort(x)[1] \in Text /\ HostPort(x)[2] \in Text
  BY <1>2, TextFacts DEF HostPort
<1>3. ASSUME NEW h \in Text, NEW t \in Text, x = <<h, t>>
      PROVE  HostPort(x)[1] \in Text /\ HostPort(x)[2] \in Text
  BY <1>3, TextFacts DEF HostPort
<1>4. QED
  BY <1>1, <1>2, <1>3 DEF Proxies

\* An entry reads as a text, or as NULL when it is not there.
LEMMA SetUnlessNullType ==
    ASSUME NEW new \in OrNull, NEW old \in Text
    PROVE  SetUnlessNull(new, old) \in Text
BY TextFacts DEF SetUnlessNull, OrNull

LEMMA SavedType ==
    ASSUME NEW ip \in IpInfos, NEW ent \in [Entries -> OrNull],
           ent["host"] # Absent, ent["port"] # Absent
    PROVE  Saved(ip, ent) \in IpInfos
<1>1. <<ent["host"], ent["port"]>> \in Proxies
  <2>1. ent["host"] \in Text /\ ent["port"] \in Text
    BY DEF Entries, OrNull
  <2>2. QED
    BY <2>1, PairIsProxy
<1>2. \A f \in Fields : SetUnlessNull(ent[f], ip.addr[f]) \in Text
  BY SetUnlessNullType DEF Entries, IpInfos
<1>3. [f \in Fields |-> SetUnlessNull(ent[f], ip.addr[f])] \in [Fields -> Text]
  BY <1>2
<1>4. QED
  BY <1>1, <1>3 DEF Saved, IpInfos

LEMMA SavedFields ==
    ASSUME NEW ip \in IpInfos, NEW ent
    PROVE  /\ Saved(ip, ent).type = ip.type
           /\ Saved(ip, ent).proxy = <<ent["host"], ent["port"]>>
           /\ \A f \in Fields : Saved(ip, ent).addr[f] = SetUnlessNull(ent[f], ip.addr[f])
BY DEF Saved, IpInfos

LEMMA WithIpInfoType ==
    ASSUME NEW d \in IpInfos, NEW p \in Profile
    PROVE  WithIpInfo(d, p) \in Profile
<1>1. ProxyToStore(d.proxy) \in Proxies
  BY DEF ProxyToStore, IpInfos, Proxies
<1>2. \A f \in Fields : Parsed(d.addr[f], p.addr[f]) \in Addr /\ p.addr[f] \in Addr
  BY DEF Parsed, Profile
<1>3. d.type \in Types
  BY DEF IpInfos
<1>4. (IF Differs(d, p, "dns2") THEN 2 ELSE IF Differs(d, p, "dns1") THEN 1 ELSE p.dnsCount) \in 0..2
  BY DEF Profile
<1>5. [f \in Fields |-> IF d.type = "static" THEN Parsed(d.addr[f], p.addr[f]) ELSE p.addr[f]]
        \in [Fields -> Addr]
  BY <1>2
<1>6. QED
  BY <1>1, <1>3, <1>4, <1>5 DEF WithIpInfo, Profile

LEMMA WithEapInfoType ==
    ASSUME NEW e \in EapInfos, NEW p \in Profile
    PROVE  WithEapInfo(e, p) \in Profile
<1>1. SetUnlessNull(e.user, p.user) \in Text /\ SetUnlessNull(e.pswd, p.pswd) \in Text
  BY SetUnlessNullType DEF EapInfos, Profile
<1>2. e.method \in Methods /\ e.auth \in Auths
  BY DEF EapInfos
<1>3. QED
  BY <1>1, <1>2 DEF WithEapInfo, Profile

LEMMA SaveType ==
    ASSUME NEW ip \in IpInfos, NEW e \in EapInfos, NEW p \in Profile, NEW ok \in BOOLEAN
    PROVE  /\ IpSave(ip, p, ok) \in Profile /\ EapSave(e, p, ok) \in Profile
           /\ IpAsks(ip, p) \in 0..1 /\ EapAsks(e, p) \in 0..1
BY WithIpInfoType, WithEapInfoType DEF IpSave, EapSave, IpAsks, EapAsks

----------------------------------------------------------------------------
(* The forms: what a view shows when it opens.                             *)

LEMMA IpEntryType ==
    ASSUME NEW ip \in IpInfos, NEW e \in Entries
    PROVE  /\ IpEntry(ip, e) \in OrNull
           /\ e \in Fields => (IpEntry(ip, e) = Absent <=> ip.type # "static")
           /\ e \in Fields /\ ip.type = "static" => IpEntry(ip, e) = ip.addr[e]
           /\ e \in {"host", "port"} => IpEntry(ip, e) # Absent
           /\ e \in {"id", "pw"} => IpEntry(ip, e) = Absent
<1>1. ip.proxy \in Proxies /\ \A f \in Fields : ip.addr[f] \in Text
  BY DEF IpInfos
<1>2. HostPort(ip.proxy)[1] \in Text /\ HostPort(ip.proxy)[2] \in Text
  BY <1>1, HostPortType
<1>3. CASE e \in Fields
  <2>1. IpEntry(ip, e) = StaticTable(ip, e) /\ e \notin {"host", "port", "id", "pw"}
    BY <1>3 DEF IpEntry, Fields
  <2>2. QED
    BY <1>1, <1>3, <2>1, TextFacts DEF StaticTable
<1>4. CASE e \in {"host", "port"}
  BY <1>2, <1>4, TextFacts DEF IpEntry, Fields
<1>5. CASE e \in {"id", "pw"}
  BY <1>5, TextFacts DEF IpEntry, Fields
<1>6. QED
  BY <1>3, <1>4, <1>5 DEF Entries

\* A form of the profile p: the entries that are there, and what they hold.
FormOf(p, ent) ==
    /\ ent \in [Entries -> OrNull]
    /\ \A e \in Entries \ {"id", "pw"} : ent[e] = IpEntry(IpInfo(p), e)

LEMMA DetailEntriesForm ==
    ASSUME NEW p \in Profile, NEW has \in BOOLEAN
    PROVE  FormOf(p, DetailEntries(p, has)) /\ DetailEntries(p, has)["id"] = Absent
<1>1. IpInfo(p) \in IpInfos /\ p.pswd \in OrNull
  BY IpInfoType, TextFacts DEF Profile
<1>2. QED
  BY <1>1, IpEntryType DEF DetailEntries, FormOf, Entries

LEMMA EapEntriesForm ==
    ASSUME NEW p \in Profile
    PROVE  /\ FormOf(p, EapEntries(p))
           /\ \A e \in {"id", "pw"} :
                 EapEntries(p)[e] = IF EapInfo(p).method \in EntryMethods THEN Empty ELSE Absent
<1>1. IpInfo(p) \in IpInfos
  BY IpInfoType
<1>2. QED
  BY <1>1, IpEntryType, TextFacts DEF EapEntries, FormOf, Entries

LEMMA DefaultTextsType ==
    ASSUME NEW ent \in [Entries -> OrNull]
    PROVE  DefaultTexts(ent) \in [Entries -> Text]
<1>1. \A e \in Entries : (IF e \in {"id", "pw"} \/ ent[e] = Absent THEN Empty ELSE ent[e]) \in Text
  BY TextFacts DEF OrNull
<1>2. QED
  BY <1>1 DEF DefaultTexts

----------------------------------------------------------------------------
(* The inductive invariant.                                                *)

\* Every view has the entries of the proxy.
ProxyEntries ==
    view # "none" => entries["host"] # Absent /\ entries["port"] # Absent

\* Under DHCP the data object holds what the user last saw in the entries.
TypedTextIsKept ==
    view # "none" /\ leaving = "no" /\ ipInfo.type # "static" =>
        \A f \in Fields : ipInfo.addr[f] = typed[f]

\* Without a view nothing is being left; nothing is written before a view is left;
\* and only the detail view forgets.
WritesWhenLeft ==
    /\ view = "none" => leaving = "no"
    /\ view # "none" /\ leaving # "popped" => writes = 0 /\ ~forgot
    /\ view = "detail" /\ leaving = "popped" => view_detail_end
    /\ forgot => view = "detail" /\ leaving = "popped" /\ writes = 0

\* Until the view is left or the profile deleted, the EAP form's data has the
\* profile's identity and password, or none.
CredentialsAreRead ==
    view # "none" /\ leaving # "popped" /\ ~wiped =>
        eapInfo.user \in {Absent, profile.user} /\ eapInfo.pswd \in {Absent, profile.pswd}

\* The detail view has no entry for the identity.
DetailHasNoIdentity == view = "detail" => entries["id"] = Absent

IInv ==
    /\ TypeOK
    /\ TypedTextComesBack /\ FormMatchesMethod
    /\ ProxyEntries /\ TypedTextIsKept /\ WritesWhenLeft
    /\ CredentialsAreRead /\ DetailHasNoIdentity

----------------------------------------------------------------------------
(* Type correctness.                                                       *)

ShownForms == [known : BOOLEAN, static : BOOLEAN,
               method : Methods, auth : Auths, entries : [Entries -> OrNull]]

\* The parts of the type that a form, the place of the view and the history have.
FormType ==
    /\ ipInfo \in IpInfos /\ eapInfo \in EapInfos
    /\ entries \in [Entries -> OrNull] /\ defaults \in [Entries -> Text]
    /\ \A f \in Fields : entries[f] = Absent <=> ipInfo.type # "static"

PlaceType ==
    /\ view \in {"none", "detail", "eap"} /\ leaving \in {"no", "popped", "ended"}
    /\ view_detail_end \in BOOLEAN /\ forget_confirm_popup \in BOOLEAN
    /\ eapList \in BOOLEAN /\ favourite \in BOOLEAN

HistoryType ==
    /\ typed \in [Fields -> Text] /\ shown \in ShownForms
    /\ forgot \in BOOLEAN /\ wiped \in BOOLEAN /\ writes \in 0..2

CountType == opens \in 0..MaxOpens /\ edits \in 0..MaxEdits

LEMMA TypeParts ==
    TypeOK <=> /\ profile \in Profile /\ deleting \in BOOLEAN
               /\ FormType /\ PlaceType /\ HistoryType /\ CountType
BY DEF TypeOK, FormType, PlaceType, HistoryType, CountType, ShownForms

LEMMA TypePartsNext ==
    TypeOK' <=> /\ profile' \in Profile /\ deleting' \in BOOLEAN
                /\ FormType' /\ PlaceType' /\ HistoryType' /\ CountType'
BY DEF TypeOK, FormType, PlaceType, HistoryType, CountType, ShownForms

LEMMA FormShown ==
    ASSUME NEW ip \in IpInfos, NEW eap \in EapInfos, NEW ent \in [Entries -> OrNull],
           NEW known \in BOOLEAN
    PROVE  /\ Form(ip, eap, ent) \in ShownForms
           /\ [Form(ip, eap, ent) EXCEPT !.known = known] \in ShownForms
<1>1. eap.method \in Methods /\ eap.auth \in Auths
  BY DEF EapInfos
<1>2. Form(ip, eap, ent) \in ShownForms
  BY <1>1 DEF Form, ShownForms
<1>3. QED
  BY <1>2 DEF ShownForms

LEMMA BlankForm ==
    /\ BlankIp \in IpInfos /\ BlankEap \in EapInfos
    /\ BlankIp.type = "unset" /\ BlankIp.addr \in [Fields -> Text]
    /\ NoTexts(Absent) \in [Entries -> OrNull] /\ NoTexts(Empty) \in [Entries -> Text]
    /\ \A e \in Entries : NoTexts(Absent)[e] = Absent
<1>1. InitDefault \in Profile
  BY TextFacts DEF InitDefault, Profile, Types, Methods, Auths, Proxies, Fields
<1>2. BlankIp \in IpInfos /\ BlankEap \in EapInfos
  BY <1>1, IpInfoType, EapInfoType DEF BlankIp, BlankEap
<1>3. BlankIp.type = "unset"
  BY DEF BlankIp, IpInfo, Read, InitDefault
<1>4. QED
  BY <1>2, <1>3, TextFacts DEF NoTexts, IpInfos

LEMMA TypeInit == Init => TypeOK
<1> SUFFICES ASSUME Init PROVE TypeOK
  OBVIOUS
<1> USE TypeParts
<1>1. profile \in Profile /\ deleting \in BOOLEAN
  BY ViewsAssumption DEF Init
<1>2. FormType
  BY BlankForm DEF Init, FormType, Entries
<1>3. PlaceType
  BY DEF Init, PlaceType
<1>4. HistoryType
  <2>1. typed \in [Fields -> Text] /\ shown \in ShownForms
    BY BlankForm, FormShown DEF Init
  <2>2. forgot \in BOOLEAN /\ wiped \in BOOLEAN
    BY DEF Init
  <2>3. writes \in 0..2
    BY DEF Init
  <2>4. QED
    BY <2>1, <2>2, <2>3 DEF HistoryType
<1>5. CountType
  BY ViewsAssumption DEF Init, CountType
<1>6. QED
  BY <1>1, <1>2, <1>3, <1>4, <1>5

\* A view opens with the form of the profile.
LEMMA OpenFormType ==
    ASSUME TypeOK, NEW ent, FormOf(profile, ent), OpenForm(ent)
    PROVE  /\ FormType' /\ HistoryType' /\ CountType'
           /\ profile' \in Profile /\ deleting' \in BOOLEAN /\ leaving' \in {"no", "popped", "ended"}
           /\ forget_confirm_popup' \in BOOLEAN
<1>1. profile \in Profile /\ deleting \in BOOLEAN /\ PlaceType /\ CountType
  BY TypeParts
<1>2. ipInfo' \in IpInfos /\ eapInfo' \in EapInfos /\ entries' \in [Entries -> OrNull]
  BY <1>1, IpInfoType, EapInfoType DEF OpenForm, FormOf
<1>3. defaults' \in [Entries -> Text]
  BY <1>2, DefaultTextsType DEF OpenForm
<1>4. \A f \in Fields : entries'[f] = Absent <=> ipInfo'.type # "static"
  <2>1. \A f \in Fields : f \in Entries \ {"id", "pw"}
    BY DEF Entries, Fields
  <2>2. QED
    BY <1>2, <2>1, IpEntryType DEF OpenForm, FormOf
<1>5. typed' \in [Fields -> Text]
  BY <1>2 DEF OpenForm, IpInfos
<1>6. shown' \in ShownForms
  BY <1>1, <1>2, FormShown DEF OpenForm, Profile
<1>7. forgot' \in BOOLEAN /\ wiped' \in BOOLEAN
  BY DEF OpenForm
<1>8. writes' \in 0..2
  BY DEF OpenForm
<1>9. CountType'
  BY <1>1, ViewsAssumption DEF OpenForm, CountType
<1>10. QED
  BY <1>1, <1>2, <1>3, <1>4, <1>5, <1>6, <1>7, <1>8, <1>9
     DEF OpenForm, FormType, HistoryType, PlaceType

LEMMA EditType ==
    ASSUME TypeOK, Edit
    PROVE  /\ profile' \in Profile /\ deleting' \in BOOLEAN /\ PlaceType' /\ CountType'
           /\ shown' \in ShownForms /\ forgot' \in BOOLEAN /\ wiped' \in BOOLEAN
           /\ writes' \in 0..2
<1>1. CountType'
  BY TypeParts, ViewsAssumption DEF Edit, CountType
<1>2. QED
  BY <1>1, TypeParts DEF Edit, PlaceType, HistoryType, place

\* A text that comes into an entry that is there.
LEMMA EntryType ==
    ASSUME TypeOK, NEW e \in Entries, NEW t \in Text,
           entries[e] # Absent, entries' = [entries EXCEPT ![e] = t], Typed(e, t),
           UNCHANGED <<ipInfo, eapInfo, defaults>>
    PROVE  FormType' /\ typed' \in [Fields -> Text]
<1>1. FormType /\ typed \in [Fields -> Text]
  BY TypeParts DEF HistoryType
<1>2. entries' \in [Entries -> OrNull]
  BY <1>1, TextFacts DEF FormType
<1>3. \A f \in Fields : entries'[f] = Absent <=> entries[f] = Absent
  BY <1>1, TextFacts DEF FormType, Entries
<1>4. typed' \in [Fields -> Text]
  BY <1>1 DEF Typed
<1>5. QED
  BY <1>1, <1>2, <1>3, <1>4 DEF FormType

LEMMA TextsAreTexts == \A e \in Entries : Texts(e) \subseteq Text
BY TextFacts DEF Texts, Entries

LEMMA ToggleForm ==
    ASSUME TypeOK, ProxyEntries, Toggle
    PROVE  /\ ipInfo' \in IpInfos
           /\ ipInfo.type = "static" => ipInfo'.type = "dhcp"
           /\ ipInfo.type = "static" =>
                \A f \in Fields : ipInfo'.addr[f] = SetUnlessNull(entries[f], ipInfo.addr[f])
           /\ ipInfo.type # "static" => ipInfo'.type = "static" /\ ipInfo'.addr = ipInfo.addr
<1>1. ipInfo \in IpInfos /\ entries \in [Entries -> OrNull]
  BY DEF TypeOK
<1>2. CASE ToDhcp
  <2>1. Saved(ipInfo, entries) \in IpInfos
    BY <1>1, SavedType DEF ProxyEntries, Toggle, Edit
  <2>2. \A f \in Fields : Saved(ipInfo, entries).addr[f] = SetUnlessNull(entries[f], ipInfo.addr[f])
    BY <1>1, SavedFields
  <2>3. QED
    BY <1>2, <2>1, <2>2 DEF ToDhcp, IpInfos, Types
<1>3. CASE ToStatic
  BY <1>1, <1>3 DEF ToStatic, IpInfos, Types
<1>4. QED
  BY <1>2, <1>3 DEF Toggle

LEMMA ToggleType ==
    ASSUME TypeOK, ProxyEntries, Toggle
    PROVE  TypeOK'
<1> USE TypePartsNext
<1>1. ipInfo' \in IpInfos /\ FormType /\ HistoryType
  BY ToggleForm, TypeParts
<1>2. \A f \in Fields : ipInfo'.addr[f] \in Text
  BY <1>1 DEF IpInfos
<1>3. \A f \in Fields : /\ StaticTable(ipInfo', f) \in OrNull
                        /\ StaticTable(ipInfo', f) = Absent <=> ipInfo'.type # "static"
  BY <1>2, TextFacts DEF StaticTable
<1>4. entries' \in [Entries -> OrNull]
  BY <1>1, <1>3 DEF Toggle, FormType
<1>5. defaults' \in [Entries -> Text]
  BY <1>1, <1>2, TextFacts DEF Toggle, FormType
<1>6. \A f \in Fields : entries'[f] = StaticTable(ipInfo', f)
  BY DEF Toggle, Entries
<1>7. FormType'
  BY <1>1, <1>3, <1>4, <1>5, <1>6 DEF Toggle, FormType
<1>8. Edit /\ UNCHANGED typed
  BY DEF Toggle
<1>9. QED
  BY <1>1, <1>7, <1>8, EditType DEF HistoryType

LEMMA ChooseMethodForm ==
    ASSUME TypeOK, NEW m \in Methods \ {"UNKNOWN"}, ChooseMethod(m)
    PROVE  /\ entries' \in [Entries -> OrNull]
           /\ eapInfo' = [eapInfo EXCEPT !.method = m] /\ eapInfo' \in EapInfos
           /\ \A e \in Entries \ {"id", "pw"} : entries'[e] = entries[e]
<1>1. entries \in [Entries -> OrNull] /\ eapInfo \in EapInfos
  BY DEF TypeOK
<1>2. /\ entries' \in [Entries -> OrNull]
      /\ \A e \in Entries \ {"id", "pw"} : entries'[e] = entries[e]
  <2>1. CASE entries' = [entries EXCEPT !["id"] = Empty, !["pw"] = Empty]
    BY <1>1, <2>1, TextFacts DEF Entries
  <2>2. CASE entries' = [entries EXCEPT !["id"] = Absent, !["pw"] = Absent]
    BY <1>1, <2>2, TextFacts DEF Entries
  <2>3. CASE entries' = entries
    BY <1>1, <2>3
  <2>4. QED
    BY <2>1, <2>2, <2>3 DEF ChooseMethod, EntriesByRules
<1>3. eapInfo' = [eapInfo EXCEPT !.method = m] /\ eapInfo' \in EapInfos
  BY <1>1 DEF ChooseMethod, EapInfos
<1>4. QED
  BY <1>2, <1>3

\* What a view works with when it is left.
DetailEap == IF eapList THEN [eapInfo EXCEPT !.pswd = entries["pw"]] ELSE eapInfo

LEMMA LeavingForms ==
    ASSUME TypeOK, ProxyEntries, view # "none"
    PROVE  /\ Saved(ipInfo, entries) \in IpInfos
           /\ DetailEap \in EapInfos /\ Credentials \in EapInfos
           /\ \A f \in Fields : entries[f] = Absent <=> Saved(ipInfo, entries).type # "static"
<1>1. ipInfo \in IpInfos /\ eapInfo \in EapInfos /\ entries \in [Entries -> OrNull]
  BY DEF TypeOK
<1>2. Saved(ipInfo, entries) \in IpInfos
  BY <1>1, SavedType DEF ProxyEntries
<1>3. entries["id"] \in OrNull /\ entries["pw"] \in OrNull
  BY <1>1 DEF Entries
<1>4. DetailEap \in EapInfos /\ Credentials \in EapInfos
  BY <1>1, <1>3 DEF DetailEap, Credentials, EapInfos
<1>5. \A f \in Fields : entries[f] = Absent <=> Saved(ipInfo, entries).type # "static"
  BY <1>1, SavedFields DEF TypeOK
<1>6. QED
  BY <1>2, <1>4, <1>5

LEMMA PoppedType ==
    ASSUME TypeOK, Popped,
           view_detail_end' \in BOOLEAN, forget_confirm_popup' \in BOOLEAN
    PROVE  /\ PlaceType' /\ CountType' /\ typed' \in [Fields -> Text] /\ shown' \in ShownForms
           /\ wiped' \in BOOLEAN
BY TypeParts DEF Popped, PlaceType, CountType, HistoryType

LEMMA SaveAndPopType ==
    ASSUME TypeOK, ProxyEntries, writes = 0,
           NEW okEap \in BOOLEAN, NEW okIp \in BOOLEAN, SaveAndPop(okEap, okIp)
    PROVE  TypeOK'
<1> DEFINE p1 == IF eapList THEN EapSave(DetailEap, profile, okEap) ELSE profile
<1>1. /\ ipInfo' = Saved(ipInfo, entries) /\ eapInfo' = DetailEap
      /\ profile' = IpSave(ipInfo', p1, okIp)
      /\ writes' = writes + IpAsks(ipInfo', p1)
                     + (IF eapList THEN EapAsks(DetailEap, profile) ELSE 0)
      /\ Popped /\ UNCHANGED <<forget_confirm_popup, deleting, forgot>>
  BY DEF SaveAndPop, DetailEap
<1>2. /\ profile \in Profile /\ deleting \in BOOLEAN /\ FormType /\ forgot \in BOOLEAN
      /\ forget_confirm_popup \in BOOLEAN
  BY TypeParts DEF HistoryType, PlaceType
<1>3. /\ Saved(ipInfo, entries) \in IpInfos /\ DetailEap \in EapInfos
      /\ \A f \in Fields : entries[f] = Absent <=> Saved(ipInfo, entries).type # "static"
  BY LeavingForms DEF SaveAndPop
<1>4. p1 \in Profile
  BY <1>2, <1>3, SaveType
<1> HIDE DEF p1
<1>5. profile' \in Profile /\ IpAsks(ipInfo', p1) \in 0..1 /\ EapAsks(DetailEap, profile) \in 0..1
  BY <1>1, <1>2, <1>3, <1>4, SaveType
<1>6. writes' \in 0..2
  BY <1>1, <1>5
<1>7. FormType'
  BY <1>1, <1>2, <1>3 DEF FormType, Popped
<1>8. view_detail_end' \in BOOLEAN
  BY DEF SaveAndPop
<1>9. /\ PlaceType' /\ CountType' /\ typed' \in [Fields -> Text] /\ shown' \in ShownForms
      /\ wiped' \in BOOLEAN
  BY <1>1, <1>2, <1>8, PoppedType
<1>10. QED
  BY <1>1, <1>2, <1>5, <1>6, <1>7, <1>9, TypePartsNext DEF HistoryType

LEMMA ConnectType ==
    ASSUME TypeOK, ProxyEntries, writes = 0,
           NEW okEap \in BOOLEAN, NEW okIp \in BOOLEAN, Connect(okEap, okIp)
    PROVE  TypeOK'
<1> DEFINE p1 == IpSave(Saved(ipInfo, entries), profile, okIp)
<1>1. /\ ipInfo' = Saved(ipInfo, entries) /\ eapInfo' = Credentials
      /\ profile' = EapSave(eapInfo', p1, okEap)
      /\ writes' = writes + IpAsks(ipInfo', profile) + EapAsks(eapInfo', p1)
      /\ Popped /\ UNCHANGED <<view_detail_end, forget_confirm_popup, deleting, forgot>>
  BY DEF Connect
<1>2. /\ profile \in Profile /\ deleting \in BOOLEAN /\ FormType /\ forgot \in BOOLEAN
      /\ forget_confirm_popup \in BOOLEAN /\ view_detail_end \in BOOLEAN
  BY TypeParts DEF HistoryType, PlaceType
<1>3. /\ Saved(ipInfo, entries) \in IpInfos /\ Credentials \in EapInfos
      /\ \A f \in Fields : entries[f] = Absent <=> Saved(ipInfo, entries).type # "static"
  BY LeavingForms DEF Connect
<1>4. p1 \in Profile
  BY <1>2, <1>3, SaveType
<1> HIDE DEF p1
<1>5. profile' \in Profile /\ IpAsks(ipInfo', profile) \in 0..1 /\ EapAsks(eapInfo', p1) \in 0..1
  BY <1>1, <1>2, <1>3, <1>4, SaveType
<1>6. writes' \in 0..2
  BY <1>1, <1>5
<1>7. FormType'
  BY <1>1, <1>2, <1>3 DEF FormType, Popped
<1>8. /\ PlaceType' /\ CountType' /\ typed' \in [Fields -> Text] /\ shown' \in ShownForms
      /\ wiped' \in BOOLEAN
  BY <1>1, <1>2, PoppedType
<1>9. QED
  BY <1>1, <1>2, <1>5, <1>6, <1>7, <1>8, TypePartsNext DEF HistoryType

\* A step of the view that leaves form, profile and counts alone.
LEMMA PlaceStepType ==
    ASSUME TypeOK, PlaceType', deleting' \in BOOLEAN, forgot' \in BOOLEAN,
           UNCHANGED <<profile, form, opens, edits, typed, shown, writes, wiped>>
    PROVE  TypeOK'
<1>1. FormType' /\ CountType' /\ typed' \in [Fields -> Text] /\ shown' \in ShownForms
  BY TypeParts DEF FormType, CountType, HistoryType, form
<1>2. writes' \in 0..2 /\ wiped' \in BOOLEAN /\ profile' \in Profile
  BY TypeParts DEF HistoryType
<1>3. QED
  BY <1>1, <1>2, TypePartsNext DEF HistoryType

LEMMA DaemonStepType ==
    ASSUME TypeOK, profile' \in Profile, deleting' \in BOOLEAN, wiped' \in BOOLEAN,
           UNCHANGED <<place, form, opens, edits, typed, shown, forgot, writes>>
    PROVE  TypeOK'
<1>1. FormType' /\ CountType' /\ PlaceType' /\ HistoryType'
  BY TypeParts
     DEF FormType, CountType, PlaceType, HistoryType, place, form
<1>2. QED
  BY <1>1, TypePartsNext

LEMMA ForgottenType == ASSUME NEW p \in Profile PROVE Forgotten(p) \in Profile
<1>1. [f \in Fields |-> Zero] \in [Fields -> Addr] /\ <<>> \in Proxies /\ Empty \in Text
  BY TextAssumption DEF Proxies, Text
<1>2. "dhcp" \in Types /\ "UNKNOWN" \in Methods /\ "NONE" \in Auths /\ 0 \in 0..2
  BY DEF Types, Methods, Auths
<1>3. QED
  BY <1>1, <1>2 DEF Forgotten, Profile

LEMMA TypeStep ==
    ASSUME IInv, [Next]_vars
    PROVE  TypeOK'
<1>1. /\ TypeOK /\ ProxyEntries /\ WritesWhenLeft
      /\ profile \in Profile /\ deleting \in BOOLEAN
      /\ FormType /\ PlaceType /\ HistoryType /\ CountType
  BY TypeParts DEF IInv
<1>2. ASSUME NEW c \in BOOLEAN, ViewDetail(c) PROVE TypeOK'
  <2>1. eapList' \in BOOLEAN /\ favourite' \in BOOLEAN
    BY <1>1, <1>2 DEF ViewDetail, Profile
  <2>2. FormOf(profile, DetailEntries(profile, eapList'))
    BY <1>1, <2>1, DetailEntriesForm
  <2>3. OpenForm(DetailEntries(profile, eapList'))
    BY <1>2 DEF ViewDetail
  <2>4. view' \in {"none", "detail", "eap"} /\ view_detail_end' \in BOOLEAN
    BY <1>2 DEF ViewDetail
  <2>5. QED
    BY <1>1, <2>1, <2>2, <2>3, <2>4, OpenFormType, TypePartsNext DEF PlaceType
<1>3. CASE CreateEapConnect
  <2>1. eapList' \in BOOLEAN /\ favourite' \in BOOLEAN
    BY <1>3 DEF CreateEapConnect
  <2>2. FormOf(profile, EapEntries(profile))
    BY <1>1, EapEntriesForm
  <2>3. OpenForm(EapEntries(profile))
    BY <1>3 DEF CreateEapConnect
  <2>4. view' \in {"none", "detail", "eap"} /\ view_detail_end' \in BOOLEAN
    BY <1>1, <1>3 DEF CreateEapConnect, PlaceType
  <2>5. QED
    BY <1>1, <2>1, <2>2, <2>3, <2>4, OpenFormType, TypePartsNext DEF PlaceType
<1>4. ASSUME NEW e \in Entries, NEW t \in Text, Edit,
             entries[e] # Absent, entries' = [entries EXCEPT ![e] = t], Typed(e, t),
             UNCHANGED <<ipInfo, eapInfo, defaults>>
      PROVE  TypeOK'
  BY <1>1, <1>4, EditType, EntryType, TypePartsNext DEF HistoryType
<1>5. ASSUME NEW e \in Entries, Unfocused(e) PROVE TypeOK'
  <2>1. defaults[e] \in Text /\ entries[e] # Absent
    BY <1>1, <1>5, TextFacts DEF FormType, Unfocused
  <2>2. QED
    BY <1>4, <1>5, <2>1 DEF Unfocused
<1>6. ASSUME NEW e \in Entries, NEW t \in Texts(e), EnterText(e, t) PROVE TypeOK'
  <2>1. t \in Text
    BY <1>6, TextsAreTexts
  <2>2. QED
    BY <1>4, <1>6, <2>1 DEF EnterText
<1>7. CASE Toggle
  BY <1>1, <1>7, ToggleType
<1>8. ASSUME NEW m \in Methods \ {"UNKNOWN"}, ChooseMethod(m) PROVE TypeOK'
  <2>1. \A f \in Fields : f \in Entries \ {"id", "pw"}
    BY DEF Entries, Fields
  <2>2. FormType'
    BY <1>1, <1>8, <2>1, ChooseMethodForm DEF ChooseMethod, FormType
  <2>3. Edit /\ UNCHANGED typed
    BY <1>8 DEF ChooseMethod
  <2>4. QED
    BY <1>1, <2>2, <2>3, EditType, TypePartsNext DEF HistoryType
<1>9. ASSUME NEW a \in Auths, ChooseAuth(a) PROVE TypeOK'
  <2>1. eapInfo' \in EapInfos
    BY <1>1, <1>9 DEF ChooseAuth, FormType, EapInfos
  <2>2. FormType'
    BY <1>1, <1>9, <2>1 DEF ChooseAuth, FormType
  <2>3. Edit /\ UNCHANGED typed
    BY <1>9 DEF ChooseAuth
  <2>4. QED
    BY <1>1, <2>2, <2>3, EditType, TypePartsNext DEF HistoryType
<1>10. ASSUME NEW okEap \in BOOLEAN, NEW okIp \in BOOLEAN, DetailBack(okEap, okIp) PROVE TypeOK'
  <2>1. writes = 0
    BY <1>1, <1>10 DEF DetailBack, SaveAndPop, WritesWhenLeft
  <2>2. QED
    BY <1>1, <1>10, <2>1, SaveAndPopType DEF DetailBack
<1>11. ASSUME NEW okEap \in BOOLEAN, NEW okIp \in BOOLEAN, Connect(okEap, okIp) PROVE TypeOK'
  <2>1. writes = 0
    BY <1>1, <1>11 DEF Connect, WritesWhenLeft
  <2>2. QED
    BY <1>1, <1>11, <2>1, ConnectType
<1>12. CASE AskForget
  <2>1. PlaceType' /\ deleting' \in BOOLEAN /\ forgot' \in BOOLEAN
    BY <1>1, <1>12 DEF AskForget, PlaceType, HistoryType, history
  <2>2. QED
    BY <1>1, <1>12, <2>1, PlaceStepType DEF AskForget, history
<1>13. CASE ForgetOk
  <2>1. PlaceType' /\ deleting' \in BOOLEAN /\ forgot' \in BOOLEAN
    BY <1>1, <1>13 DEF ForgetOk, Popped, PlaceType
  <2>2. QED
    BY <1>1, <1>13, <2>1, PlaceStepType DEF ForgetOk, Popped, form
<1>14. CASE EapBack
  <2>1. PlaceType' /\ deleting' \in BOOLEAN /\ forgot' \in BOOLEAN
    BY <1>1, <1>14 DEF EapBack, Popped, PlaceType, HistoryType
  <2>2. QED
    BY <1>1, <1>14, <2>1, PlaceStepType DEF EapBack, Popped, form
<1>15. CASE EndKey
  <2>1. PlaceType' /\ deleting' \in BOOLEAN /\ forgot' \in BOOLEAN
    BY <1>1, <1>15 DEF EndKey, PlaceType, HistoryType, history
  <2>2. QED
    BY <1>1, <1>15, <2>1, PlaceStepType DEF EndKey, history
<1>16. CASE TransitionEnds
  <2>1. FormType'
    BY <1>16, BlankForm DEF TransitionEnds, FormType, Entries
  <2>2. PlaceType' /\ forgot' \in BOOLEAN /\ wiped' \in BOOLEAN
    BY <1>1, <1>16 DEF TransitionEnds, PlaceType
  <2>3. typed' \in [Fields -> Text] /\ shown' \in ShownForms
    BY <1>16, BlankForm, FormShown DEF TransitionEnds
  <2>4. writes' \in 0..2
    BY <1>16 DEF TransitionEnds
  <2>5. profile' \in Profile /\ deleting' \in BOOLEAN /\ CountType'
    BY <1>1, <1>16 DEF TransitionEnds, CountType
  <2>6. QED
    BY <2>1, <2>2, <2>3, <2>4, <2>5, TypePartsNext DEF HistoryType
<1>17. ASSUME NEW a \in Addr, Renew(a) PROVE TypeOK'
  <2>1. profile' \in Profile
    BY <1>1, <1>17 DEF Renew, Profile
  <2>2. QED
    BY <1>1, <1>17, <2>1, DaemonStepType DEF Renew, DaemonOnly, HistoryType, history
<1>18. CASE ComeOrGo
  <2>1. profile' \in Profile
    BY <1>1, <1>18 DEF ComeOrGo, Profile
  <2>2. QED
    BY <1>1, <1>18, <2>1, DaemonStepType DEF ComeOrGo, DaemonOnly, HistoryType, history
<1>19. CASE Deleted
  <2>1. profile' \in Profile
    BY <1>1, <1>19, ForgottenType DEF Deleted
  <2>2. deleting' \in BOOLEAN /\ wiped' \in BOOLEAN
    BY <1>19 DEF Deleted
  <2>3. QED
    BY <1>1, <1>19, <2>1, <2>2, DaemonStepType DEF Deleted
<1>20. CASE UNCHANGED vars
  BY <1>1, <1>20, DaemonStepType DEF vars, HistoryType, history
<1>21. QED
  BY <1>2, <1>3, <1>5, <1>6, <1>7, <1>8, <1>9, <1>10, <1>11, <1>12, <1>13, <1>14, <1>15,
     <1>16, <1>17, <1>18, <1>19, <1>20 DEF Next

----------------------------------------------------------------------------
(* The invariant is inductive.                                             *)

\* The kinds of steps the properties tell apart.
Opens == (\E connected \in BOOLEAN : ViewDetail(connected)) \/ CreateEapConnect

Leaving == \/ \E okEap, okIp \in BOOLEAN : DetailBack(okEap, okIp) \/ Connect(okEap, okIp)
           \/ ForgetOk \/ EapBack

Outside == (\E a \in Addr : Renew(a)) \/ ComeOrGo \/ Deleted \/ UNCHANGED vars

LEMMA StepKinds ==
    ASSUME [Next]_vars
    PROVE  \/ Opens
           \/ \E e \in Entries : Unfocused(e) \/ \E t \in Texts(e) : EnterText(e, t)
           \/ Toggle
           \/ \E m \in Methods \ {"UNKNOWN"} : ChooseMethod(m)
           \/ \E a \in Auths : ChooseAuth(a)
           \/ Leaving \/ AskForget \/ EndKey \/ TransitionEnds \/ Outside
BY DEF Next, Opens, Leaving, Outside

LEMMA OutsideKeeps ==
    ASSUME Outside
    PROVE  UNCHANGED <<place, form, typed, shown, forgot, writes>>
BY DEF Outside, Renew, ComeOrGo, Deleted, DaemonOnly, vars, history

LEMMA LeavingPops ==
    ASSUME Leaving
    PROVE  /\ Popped /\ leaving' = "popped" /\ view' = view
           /\ view # "none"
BY DEF Leaving, DetailBack, SaveAndPop, Connect, ForgetOk, EapBack, Popped

LEMMA FieldsAreEntries == Fields \subseteq Entries \ {"id", "pw"}
BY DEF Fields, Entries

\* Typing and unfocusing put the same text into the entry and the history.
LEMMA EntryTyped ==
    ASSUME TypeOK, NEW e \in Entries, Unfocused(e) \/ \E t \in Texts(e) : EnterText(e, t)
    PROVE  \E t \in Text :
              /\ entries[e] # Absent /\ entries' = [entries EXCEPT ![e] = t] /\ Typed(e, t)
              /\ Edit /\ UNCHANGED <<ipInfo, eapInfo, defaults>>
<1>1. CASE Unfocused(e)
  <2>1. defaults[e] \in Text /\ entries[e] # Absent
    BY <1>1, TextFacts DEF TypeOK, Unfocused
  <2>2. QED
    BY <1>1, <2>1 DEF Unfocused
<1>2. CASE \E t \in Texts(e) : EnterText(e, t)
  BY <1>2, TextsAreTexts DEF EnterText
<1>3. QED
  BY <1>1, <1>2

\* A view opens with the profile's addresses in the data object, in the entries
\* if there are any, and in what the user has seen.
LEMMA OpensForm ==
    ASSUME TypeOK, Opens
    PROVE  /\ FormOf(profile, entries') /\ OpenForm(entries')
           /\ view' \in {"detail", "eap"}
           /\ view' = "detail" => entries'["id"] = Absent
           /\ view' = "eap" =>
                \A e \in {"id", "pw"} :
                   entries'[e] = IF EapInfo(profile).method \in EntryMethods THEN Empty ELSE Absent
<1>1. profile \in Profile
  BY DEF TypeOK
<1>2. ASSUME NEW c \in BOOLEAN, ViewDetail(c)
      PROVE  /\ FormOf(profile, entries') /\ OpenForm(entries')
             /\ view' = "detail" /\ entries'["id"] = Absent
  <2>1. eapList' \in BOOLEAN
    BY <1>1, <1>2 DEF ViewDetail, Profile
  <2>2. entries' = DetailEntries(profile, eapList')
    BY <1>2 DEF ViewDetail, OpenForm
  <2>3. QED
    BY <1>1, <1>2, <2>1, <2>2, DetailEntriesForm DEF ViewDetail
<1>3. ASSUME CreateEapConnect
      PROVE  /\ FormOf(profile, entries') /\ OpenForm(entries') /\ view' = "eap"
             /\ \A e \in {"id", "pw"} :
                   entries'[e] = IF EapInfo(profile).method \in EntryMethods THEN Empty ELSE Absent
  <2>1. entries' = EapEntries(profile)
    BY <1>3 DEF CreateEapConnect, OpenForm
  <2>2. QED
    BY <1>1, <1>3, <2>1, EapEntriesForm DEF CreateEapConnect
<1>4. QED
  BY <1>2, <1>3 DEF Opens

LEMMA TypedStep ==
    ASSUME IInv, [Next]_vars
    PROVE  TypedTextComesBack' /\ TypedTextIsKept'
<1>1. /\ TypeOK /\ ProxyEntries /\ TypedTextComesBack /\ TypedTextIsKept
      /\ ipInfo \in IpInfos /\ entries \in [Entries -> OrNull] /\ typed \in [Fields -> Text]
  BY DEF IInv, TypeOK
<1>2. CASE Opens
  <2>1. IpInfo(profile) \in IpInfos
    BY <1>1, IpInfoType DEF TypeOK
  <2>2. /\ FormOf(profile, entries')
        /\ ipInfo' = IpInfo(profile) /\ typed' = IpInfo(profile).addr
    BY <1>1, <1>2, OpensForm DEF OpenForm
  <2>3. \A f \in Fields : ipInfo'.type = "static" => entries'[f] = ipInfo'.addr[f]
    BY <2>1, <2>2, FieldsAreEntries, IpEntryType DEF FormOf
  <2>4. QED
    BY <2>2, <2>3 DEF TypedTextComesBack, TypedTextIsKept
<1>3. ASSUME NEW e \in Entries, Unfocused(e) \/ \E t \in Texts(e) : EnterText(e, t)
      PROVE  TypedTextComesBack' /\ TypedTextIsKept'
  <2>1. PICK t \in Text :
              /\ entries[e] # Absent /\ entries' = [entries EXCEPT ![e] = t] /\ Typed(e, t)
              /\ Edit /\ UNCHANGED <<ipInfo, eapInfo, defaults>>
    BY <1>1, <1>3, EntryTyped
  <2>2. view # "none" /\ leaving = "no"
    BY <2>1 DEF Edit
  <2>3. ASSUME ipInfo.type = "static"
        PROVE  \A f \in Fields : entries'[f] = typed'[f]
    BY <1>1, <2>1, <2>2, <2>3, FieldsAreEntries DEF Typed, TypedTextComesBack
  <2>4. ASSUME ipInfo.type # "static"
        PROVE  typed' = typed
    <3>1. e \notin Fields
      BY <1>1, <2>1, <2>4 DEF TypeOK
    <3>2. QED
      BY <2>1, <3>1 DEF Typed
  <2>5. QED
    BY <1>1, <2>1, <2>2, <2>3, <2>4 DEF TypedTextComesBack, TypedTextIsKept
<1>4. CASE Toggle
  <2>1. view # "none" /\ leaving = "no" /\ typed' = typed
    BY <1>4 DEF Toggle, Edit
  <2>2. \A f \in Fields : entries'[f] = StaticTable(ipInfo', f)
    BY <1>4 DEF Toggle, Entries
  <2>3. CASE ipInfo.type = "static"
    <3>1. \A f \in Fields : entries[f] = typed[f] /\ entries[f] # Absent
      BY <1>1, <2>1, <2>3 DEF TypedTextComesBack, TypeOK
    <3>2. ipInfo'.type = "dhcp" /\ \A f \in Fields : ipInfo'.addr[f] = typed[f]
      BY <1>1, <1>4, <2>3, <3>1, ToggleForm DEF SetUnlessNull
    <3>3. QED
      BY <2>1, <3>2 DEF TypedTextComesBack, TypedTextIsKept
  <2>4. CASE ipInfo.type # "static"
    <3>1. ipInfo'.type = "static" /\ ipInfo'.addr = ipInfo.addr
      BY <1>1, <1>4, <2>4, ToggleForm
    <3>2. \A f \in Fields : ipInfo.addr[f] = typed[f]
      BY <1>1, <2>1, <2>4 DEF TypedTextIsKept
    <3>3. QED
      BY <2>1, <2>2, <3>1, <3>2 DEF TypedTextComesBack, TypedTextIsKept, StaticTable
  <2>5. QED
    BY <2>3, <2>4
<1>5. ASSUME NEW m \in Methods \ {"UNKNOWN"}, ChooseMethod(m)
      PROVE  TypedTextComesBack' /\ TypedTextIsKept'
  <2>1. /\ UNCHANGED <<ipInfo, typed, view, leaving>>
        /\ \A f \in Fields : entries'[f] = entries[f]
    BY <1>1, <1>5, ChooseMethodForm, FieldsAreEntries DEF ChooseMethod, Edit, place
  <2>2. QED
    BY <1>1, <2>1 DEF TypedTextComesBack, TypedTextIsKept
<1>6. ASSUME NEW a \in Auths, ChooseAuth(a)
      PROVE  TypedTextComesBack' /\ TypedTextIsKept'
  BY <1>1, <1>6 DEF ChooseAuth, Edit, place, TypedTextComesBack, TypedTextIsKept
<1>7. CASE Leaving \/ EndKey \/ TransitionEnds
  BY <1>7, LeavingPops DEF EndKey, TransitionEnds, TypedTextComesBack, TypedTextIsKept
<1>8. CASE AskForget \/ Outside
  <2>1. UNCHANGED <<view, leaving, ipInfo, entries, typed>>
    BY <1>8, OutsideKeeps DEF AskForget, place, form, history
  <2>2. QED
    BY <1>1, <2>1 DEF TypedTextComesBack, TypedTextIsKept
<1>9. QED
  BY <1>2, <1>3, <1>4, <1>5, <1>6, <1>7, <1>8, StepKinds

LEMMA MethodStep ==
    ASSUME IInv, [Next]_vars
    PROVE  FormMatchesMethod'
<1>1. /\ TypeOK /\ FormMatchesMethod
      /\ eapInfo \in EapInfos /\ entries \in [Entries -> OrNull]
  BY DEF IInv, TypeOK
<1>2. CASE Opens
  <2>1. eapInfo' = EapInfo(profile)
    BY <1>1, <1>2, OpensForm DEF OpenForm
  <2>2. QED
    BY <1>1, <1>2, <2>1, OpensForm, TextFacts DEF FormMatchesMethod
<1>3. ASSUME NEW e \in Entries, Unfocused(e) \/ \E t \in Texts(e) : EnterText(e, t)
      PROVE  FormMatchesMethod'
  <2>1. PICK t \in Text :
              /\ entries[e] # Absent /\ entries' = [entries EXCEPT ![e] = t] /\ Typed(e, t)
              /\ Edit /\ UNCHANGED <<ipInfo, eapInfo, defaults>>
    BY <1>1, <1>3, EntryTyped
  <2>2. \A d \in {"id", "pw"} : entries'[d] = Absent <=> entries[d] = Absent
    BY <1>1, <2>1, TextFacts DEF Entries
  <2>3. view' = view /\ eapInfo' = eapInfo
    BY <2>1 DEF Edit, place
  <2>4. QED
    BY <1>1, <2>2, <2>3 DEF FormMatchesMethod
<1>4. ASSUME NEW m \in Methods \ {"UNKNOWN"}, ChooseMethod(m)
      PROVE  FormMatchesMethod'
  <2>1. view = "eap" /\ view' = view /\ eapInfo'.method = m
    BY <1>1, <1>4 DEF ChooseMethod, Edit, place, EapInfos
  <2>2. entries' = EntriesByRules(eapInfo.method, m) /\ eapInfo.method \in Methods
    BY <1>1, <1>4 DEF ChooseMethod, EapInfos
  <2>3. \A d \in {"id", "pw"} : entries[d] # Absent <=> eapInfo.method \in EntryMethods
    BY <1>1, <2>1 DEF FormMatchesMethod
  <2>4. CASE m \in EntryMethods /\ eapInfo.method \in {"UNKNOWN", "SIM", "AKA"}
    <3>1. entries' = [entries EXCEPT !["id"] = Empty, !["pw"] = Empty]
      BY <2>2, <2>4 DEF EntriesByRules, EntryMethods
    <3>2. QED
      BY <1>1, <2>1, <2>4, <3>1, TextFacts DEF FormMatchesMethod, Entries
  <2>5. CASE m \in {"SIM", "AKA"} /\ eapInfo.method \in EntryMethods
    <3>1. entries' = [entries EXCEPT !["id"] = Absent, !["pw"] = Absent] /\ m \notin EntryMethods
      BY <2>2, <2>5 DEF EntriesByRules, EntryMethods
    <3>2. QED
      BY <1>1, <2>1, <3>1 DEF FormMatchesMethod, Entries
  <2>6. CASE m \in EntryMethods <=> eapInfo.method \in EntryMethods
    <3>1. entries' = entries
      BY <2>2, <2>6 DEF EntriesByRules, EntryMethods
    <3>2. QED
      BY <2>1, <2>3, <2>6, <3>1 DEF FormMatchesMethod
  <2>7. QED
    BY <2>2, <2>4, <2>5, <2>6 DEF Methods, EntryMethods
<1>5. CASE Toggle
  <2>1. view' = view /\ eapInfo' = eapInfo /\ \A d \in {"id", "pw"} : entries'[d] = entries[d]
    BY <1>5 DEF Toggle, Edit, place, Entries, Fields
  <2>2. QED
    BY <1>1, <2>1 DEF FormMatchesMethod
<1>6. ASSUME NEW a \in Auths, ChooseAuth(a)
      PROVE  FormMatchesMethod'
  <2>1. view' = view /\ entries' = entries /\ eapInfo'.method = eapInfo.method
    BY <1>1, <1>6 DEF ChooseAuth, Edit, place, EapInfos
  <2>2. QED
    BY <1>1, <2>1 DEF FormMatchesMethod
<1>7. CASE Leaving
  <2>1. view' = view /\ entries' = entries
    BY <1>7, LeavingPops DEF Popped
  <2>2. eapInfo'.method = eapInfo.method
    BY <1>1, <1>7
       DEF Leaving, DetailBack, SaveAndPop, Connect, Credentials, ForgetOk, EapBack, EapInfos
  <2>3. QED
    BY <1>1, <2>1, <2>2 DEF FormMatchesMethod
<1>8. CASE TransitionEnds
  BY <1>8 DEF TransitionEnds, FormMatchesMethod
<1>9. CASE AskForget \/ EndKey \/ Outside
  <2>1. UNCHANGED <<view, entries, eapInfo>>
    BY <1>9, OutsideKeeps DEF AskForget, EndKey, place, form
  <2>2. QED
    BY <1>1, <2>1 DEF FormMatchesMethod
<1>10. QED
  BY <1>2, <1>3, <1>4, <1>5, <1>6, <1>7, <1>8, <1>9, StepKinds

LEMMA EntriesStay ==
    ASSUME IInv, [Next]_vars
    PROVE  ProxyEntries' /\ DetailHasNoIdentity'
<1>1. /\ TypeOK /\ ProxyEntries /\ DetailHasNoIdentity
      /\ profile \in Profile /\ eapInfo \in EapInfos /\ entries \in [Entries -> OrNull]
  BY DEF IInv, TypeOK
<1>2. CASE Opens
  <2>1. IpInfo(profile) \in IpInfos
    BY <1>1, IpInfoType
  <2>2. \A e \in {"host", "port"} : entries'[e] # Absent
    BY <1>1, <1>2, <2>1, OpensForm, IpEntryType DEF FormOf, Entries
  <2>3. QED
    BY <1>1, <1>2, <2>2, OpensForm DEF ProxyEntries, DetailHasNoIdentity
<1>3. ASSUME NEW e \in Entries, Unfocused(e) \/ \E t \in Texts(e) : EnterText(e, t)
      PROVE  ProxyEntries' /\ DetailHasNoIdentity'
  <2>1. PICK t \in Text :
              /\ entries[e] # Absent /\ entries' = [entries EXCEPT ![e] = t] /\ Typed(e, t)
              /\ Edit /\ UNCHANGED <<ipInfo, eapInfo, defaults>>
    BY <1>1, <1>3, EntryTyped
  <2>2. \A d \in Entries : entries'[d] = Absent <=> entries[d] = Absent
    BY <1>1, <2>1, TextFacts
  <2>3. view' = view
    BY <2>1 DEF Edit, place
  <2>4. entries["id"] = Absent => entries'["id"] = Absent
    BY <2>2 DEF Entries
  <2>5. (entries["host"] # Absent => entries'["host"] # Absent)
        /\ (entries["port"] # Absent => entries'["port"] # Absent)
    BY <2>2 DEF Entries
  <2>6. QED
    BY <1>1, <2>3, <2>4, <2>5 DEF ProxyEntries, DetailHasNoIdentity
<1>4. ASSUME NEW m \in Methods \ {"UNKNOWN"}, ChooseMethod(m)
      PROVE  ProxyEntries' /\ DetailHasNoIdentity'
  <2>1. view = "eap" /\ view' = view /\ entries' = EntriesByRules(eapInfo.method, m)
    BY <1>4 DEF ChooseMethod, Edit, place
  <2>2. \/ entries' = entries
        \/ entries' = [entries EXCEPT !["id"] = Empty, !["pw"] = Empty]
        \/ entries' = [entries EXCEPT !["id"] = Absent, !["pw"] = Absent]
    BY <2>1 DEF EntriesByRules
  <2>3. entries'["host"] = entries["host"] /\ entries'["port"] = entries["port"]
    BY <1>1, <2>2 DEF Entries
  <2>4. QED
    BY <1>1, <2>1, <2>3 DEF ProxyEntries, DetailHasNoIdentity
<1>5. CASE Toggle
  <2>1. view' = view /\ \A d \in {"id", "host", "port"} : entries'[d] = entries[d]
    BY <1>5 DEF Toggle, Edit, place, Entries, Fields
  <2>2. QED
    BY <1>1, <2>1 DEF ProxyEntries, DetailHasNoIdentity
<1>6. ASSUME NEW a \in Auths, ChooseAuth(a)
      PROVE  ProxyEntries' /\ DetailHasNoIdentity'
  BY <1>1, <1>6 DEF ChooseAuth, Edit, place, ProxyEntries, DetailHasNoIdentity
<1>7. CASE Leaving
  BY <1>1, <1>7, LeavingPops DEF Popped, ProxyEntries, DetailHasNoIdentity
<1>8. CASE TransitionEnds
  BY <1>8 DEF TransitionEnds, ProxyEntries, DetailHasNoIdentity
<1>9. CASE AskForget \/ EndKey \/ Outside
  <2>1. UNCHANGED <<view, entries>>
    BY <1>9, OutsideKeeps DEF AskForget, EndKey, place, form
  <2>2. QED
    BY <1>1, <2>1 DEF ProxyEntries, DetailHasNoIdentity
<1>10. QED
  BY <1>2, <1>3, <1>4, <1>5, <1>6, <1>7, <1>8, <1>9, StepKinds

\* Edits leave the place, the profile and what was written alone.
LEMMA EditsOnlyEdit ==
    ASSUME \/ \E e \in Entries : Unfocused(e) \/ \E t \in Texts(e) : EnterText(e, t)
           \/ Toggle
           \/ \E m \in Methods \ {"UNKNOWN"} : ChooseMethod(m)
           \/ \E a \in Auths : ChooseAuth(a)
    PROVE  Edit
BY DEF Unfocused, EnterText, Toggle, ChooseMethod, ChooseAuth

LEMMA WritesStep ==
    ASSUME IInv, [Next]_vars
    PROVE  WritesWhenLeft'
<1>1. TypeOK /\ WritesWhenLeft
  BY DEF IInv
<1>2. CASE Opens
  <2>1. leaving' = "no" /\ writes' = 0 /\ ~forgot' /\ view' # "none"
    BY <1>1, <1>2, OpensForm DEF OpenForm, WritesWhenLeft
  <2>2. view' = "detail" => ~view_detail_end'
    BY <1>2 DEF Opens, ViewDetail, CreateEapConnect
  <2>3. QED
    BY <2>1, <2>2 DEF WritesWhenLeft
<1>3. CASE Edit
  BY <1>1, <1>3 DEF Edit, place, WritesWhenLeft
<1>4. CASE \E okEap, okIp \in BOOLEAN : DetailBack(okEap, okIp)
  <2>1. view' = "detail" /\ leaving' = "popped" /\ view_detail_end' /\ forgot' = forgot
        /\ view = "detail" /\ ~view_detail_end
    BY <1>4 DEF DetailBack, SaveAndPop, Popped
  <2>2. QED
    BY <1>1, <2>1 DEF WritesWhenLeft
<1>5. CASE \E okEap, okIp \in BOOLEAN : Connect(okEap, okIp)
  BY <1>1, <1>5 DEF Connect, Popped, WritesWhenLeft
<1>6. CASE ForgetOk
  BY <1>1, <1>6 DEF ForgetOk, Popped, WritesWhenLeft
<1>7. CASE EapBack
  BY <1>1, <1>7 DEF EapBack, Popped, WritesWhenLeft
<1>8. CASE AskForget \/ Outside
  <2>1. UNCHANGED <<view, leaving, view_detail_end, writes, forgot>>
    BY <1>8, OutsideKeeps DEF AskForget, place, history
  <2>2. QED
    BY <1>1, <2>1 DEF WritesWhenLeft
<1>9. CASE EndKey
  BY <1>1, <1>9 DEF EndKey, history, WritesWhenLeft
<1>10. CASE TransitionEnds
  BY <1>10 DEF TransitionEnds, WritesWhenLeft
<1>11. QED
  BY <1>2, <1>3, <1>4, <1>5, <1>6, <1>7, <1>8, <1>9, <1>10, StepKinds, EditsOnlyEdit DEF Leaving

LEMMA CredentialsStep ==
    ASSUME IInv, [Next]_vars
    PROVE  CredentialsAreRead'
<1>1. /\ TypeOK /\ CredentialsAreRead
      /\ profile \in Profile /\ eapInfo \in EapInfos
  BY DEF IInv, TypeOK
<1>2. CASE Opens
  <2>1. eapInfo' = EapInfo(profile) /\ profile' = profile
    BY <1>1, <1>2, OpensForm DEF OpenForm
  <2>2. /\ EapInfo(profile).user = OrAbsent(Read(profile).user)
        /\ EapInfo(profile).pswd = OrAbsent(Read(profile).pswd)
    BY DEF EapInfo
  <2>3. Read(profile).user \in {Empty, profile.user} /\ Read(profile).pswd \in {Empty, profile.pswd}
    BY DEF Read, InitDefault
  <2>4. QED
    BY <2>1, <2>2, <2>3 DEF OrAbsent, CredentialsAreRead
<1>3. CASE \/ \E e \in Entries : Unfocused(e) \/ \E t \in Texts(e) : EnterText(e, t)
           \/ Toggle
           \/ \E m \in Methods \ {"UNKNOWN"} : ChooseMethod(m)
           \/ \E a \in Auths : ChooseAuth(a)
  <2>1. view' = view /\ leaving' = leaving /\ profile' = profile /\ wiped' = wiped
    BY <1>3, EditsOnlyEdit DEF Edit, place
  <2>2. \/ eapInfo' = eapInfo
        \/ \E m \in Methods : eapInfo' = [eapInfo EXCEPT !.method = m]
        \/ \E a \in Auths : eapInfo' = [eapInfo EXCEPT !.auth = a]
    BY <1>3 DEF Unfocused, EnterText, Toggle, ChooseMethod, ChooseAuth
  <2>3. eapInfo'.user = eapInfo.user /\ eapInfo'.pswd = eapInfo.pswd
    BY <1>1, <2>2 DEF EapInfos
  <2>4. QED
    BY <1>1, <2>1, <2>3 DEF CredentialsAreRead
<1>4. CASE Leaving
  BY <1>4, LeavingPops DEF CredentialsAreRead
<1>5. CASE AskForget
  BY <1>1, <1>5 DEF AskForget, form, history, CredentialsAreRead
<1>6. CASE EndKey
  BY <1>1, <1>6 DEF EndKey, form, history, CredentialsAreRead
<1>7. CASE TransitionEnds
  BY <1>7 DEF TransitionEnds, CredentialsAreRead
<1>8. CASE Outside
  <2>1. UNCHANGED <<view, leaving, eapInfo>>
    BY <1>8, OutsideKeeps DEF place, form
  <2>2. CASE Deleted
    BY <2>1, <2>2 DEF Deleted, CredentialsAreRead
  <2>3. CASE ~Deleted
    <3>1. profile'.user = profile.user /\ profile'.pswd = profile.pswd /\ wiped' = wiped
      BY <1>1, <1>8, <2>3 DEF Outside, Renew, ComeOrGo, DaemonOnly, vars, history, Profile
    <3>2. QED
      BY <1>1, <2>1, <3>1 DEF CredentialsAreRead
  <2>4. QED
    BY <2>2, <2>3
<1>9. QED
  BY <1>2, <1>3, <1>4, <1>5, <1>6, <1>7, <1>8, StepKinds

LEMMA InitIInv == Init => IInv
<1>1. SUFFICES ASSUME Init PROVE IInv
  OBVIOUS
<1>2. TypeOK
  BY <1>1, TypeInit
<1>3. view = "none" /\ leaving = "no" /\ ~forgot /\ writes = 0
  BY <1>1 DEF Init
<1>4. QED
  BY <1>2, <1>3
     DEF IInv, TypedTextComesBack, FormMatchesMethod, ProxyEntries, TypedTextIsKept,
         WritesWhenLeft, CredentialsAreRead, DetailHasNoIdentity

\* The strengthening of the invariants below holds in every state.
THEOREM ViewsInvariance == Spec => []IInv
<1>1. IInv /\ [Next]_vars => IInv'
  BY TypeStep, TypedStep, MethodStep, EntriesStay, WritesStep, CredentialsStep DEF IInv
<1>2. QED
  BY <1>1, InitIInv, PTL DEF Spec

\* The data objects, the entries and the profile keep their types, and the entries
\* of the addresses are on the screen exactly under STATIC.
THEOREM ViewsTypeCorrect == Spec => []TypeOK
<1>1. IInv => TypeOK
  BY DEF IInv
<1>2. QED
  BY <1>1, ViewsInvariance, PTL

\* Going to DHCP and back never loses or changes an address the user typed
\* (_ip_info_toggle_item_sel_cb).
THEOREM TypedTextIsNotLost == Spec => []TypedTextComesBack
<1>1. IInv => TypedTextComesBack
  BY DEF IInv
<1>2. QED
  BY <1>1, ViewsInvariance, PTL

\* Whatever methods were chosen before, the EAP view has the entries that Connect
\* reads (_create_and_update_list_items_based_on_rules).
THEOREM FormFitsMethod == Spec => []FormMatchesMethod
<1>1. IInv => FormMatchesMethod
  BY DEF IInv
<1>2. QED
  BY <1>1, ViewsInvariance, PTL

\* After Forget's OK no click that still arrives writes to the profile
\* (detailview_sk_cb and ok_cb test view_detail_end).
THEOREM ForgetIsFinal == Spec => ForgottenIsNotWritten
<1>1. IInv /\ [Next]_vars => (forgot /\ view # "none" => writes' = writes)
  <2>1. SUFFICES ASSUME IInv, [Next]_vars, forgot, view # "none"
                 PROVE  writes' = writes
    OBVIOUS
  <2>2. view = "detail" /\ leaving = "popped" /\ view_detail_end /\ writes = 0
    BY <2>1 DEF IInv, WritesWhenLeft
  <2>3. ~Opens
    BY <2>2 DEF Opens, ViewDetail, CreateEapConnect, OpenForm
  <2>4. ~Edit
    BY <2>2 DEF Edit
  <2>5. Leaving => ForgetOk
    BY <2>2 DEF Leaving, DetailBack, Connect, EapBack
  <2>6. QED
    BY <2>1, <2>2, <2>3, <2>4, <2>5, StepKinds, EditsOnlyEdit, OutsideKeeps
       DEF ForgetOk, AskForget, EndKey, TransitionEnds, history
<1>2. QED
  BY <1>1, ViewsInvariance, PTL DEF Spec, ForgottenIsNotWritten

----------------------------------------------------------------------------
(* What a view writes when it is left.                                     *)

\* Two profiles that differ at most in dnsCount, field by field.
SameProfile(p, q) ==
    /\ p.type = q.type /\ p.addr = q.addr /\ p.proxy = q.proxy
    /\ p.method = q.method /\ p.auth = q.auth /\ p.user = q.user /\ p.pswd = q.pswd
    /\ p.eapAp = q.eapAp /\ p.favourite = q.favourite /\ p.known = q.known

LEMMA SameIsEqual ==
    ASSUME NEW p \in Profile, NEW q \in Profile, SameProfile(p, q)
    PROVE  [p EXCEPT !.dnsCount = 0] = [q EXCEPT !.dnsCount = 0]
BY DEF SameProfile, Profile

LEMMA ShownIpFields ==
    ASSUME IInv, view # "none", NEW p \in Profile
    PROVE  /\ ShownIp(p) \in Profile
           /\ ShownIp(p).user = p.user /\ ShownIp(p).pswd = p.pswd
           /\ ShownIp(p).method = p.method /\ ShownIp(p).auth = p.auth
           /\ ShownIp(p).type = ipInfo.type
           /\ ShownIp(p).proxy = ProxyToStore(<<entries["host"], entries["port"]>>)
           /\ ShownIp(p).eapAp = p.eapAp /\ ShownIp(p).favourite = p.favourite
           /\ ShownIp(p).known = p.known
           /\ ShownIp(p).addr = [f \in Fields |-> IF ipInfo.type = "static" /\ entries[f] \in Addr
                                                  THEN entries[f] ELSE p.addr[f]]
<1>1. TypeOK /\ ProxyEntries
  BY DEF IInv
<1>2. entries["host"] \in Text /\ entries["port"] \in Text /\ ipInfo.type \in Types
  BY <1>1 DEF TypeOK, ProxyEntries, Entries, OrNull, IpInfos
<1>3. ProxyToStore(<<entries["host"], entries["port"]>>) \in Proxies
  BY <1>2, PairIsProxy DEF ProxyToStore, Proxies
<1>4. [f \in Fields |-> IF ipInfo.type = "static" /\ entries[f] \in Addr
                        THEN entries[f] ELSE p.addr[f]] \in [Fields -> Addr]
  BY DEF Profile
<1> DEFINE addr == [f \in Fields |-> IF ipInfo.type = "static" /\ entries[f] \in Addr
                                     THEN entries[f] ELSE p.addr[f]]
           proxy == ProxyToStore(<<entries["host"], entries["port"]>>)
<1>5. ShownIp(p) = [p EXCEPT !.type = ipInfo.type, !.proxy = proxy, !.addr = addr, !.dnsCount = 0]
  BY DEF ShownIp
<1> HIDE DEF addr, proxy
<1>6. addr \in [Fields -> Addr] /\ proxy \in Proxies
  BY <1>3, <1>4 DEF addr, proxy
<1>7. ShownIp(p) \in Profile
  <2>1. 0 \in 0..2
    OBVIOUS
  <2>2. QED
    BY <1>2, <1>5, <1>6, <2>1 DEF Profile
<1>8. /\ ShownIp(p).type = ipInfo.type /\ ShownIp(p).proxy = proxy /\ ShownIp(p).addr = addr
      /\ ShownIp(p).method = p.method /\ ShownIp(p).auth = p.auth
      /\ ShownIp(p).user = p.user /\ ShownIp(p).pswd = p.pswd /\ ShownIp(p).eapAp = p.eapAp
      /\ ShownIp(p).favourite = p.favourite /\ ShownIp(p).known = p.known
  BY <1>5 DEF Profile
<1>9. QED
  BY <1>7, <1>8 DEF addr, proxy

LEMMA ShownEapFields ==
    ASSUME IInv, NEW p \in Profile
    PROVE  /\ ShownEap(p) \in Profile
           /\ ShownEap(p).type = p.type /\ ShownEap(p).addr = p.addr /\ ShownEap(p).proxy = p.proxy
           /\ ShownEap(p).method = eapInfo.method /\ ShownEap(p).auth = eapInfo.auth
           /\ ShownEap(p).eapAp = p.eapAp /\ ShownEap(p).favourite = p.favourite
           /\ ShownEap(p).known = p.known
           /\ ShownEap(p).user = IF eapInfo.method = "TLS" \/ entries["id"] = Absent
                                 THEN Kept(eapInfo.user, p.user) ELSE entries["id"]
           /\ ShownEap(p).pswd = IF view = "detail" THEN SetUnlessNull(entries["pw"], p.pswd)
                                 ELSE IF eapInfo.method = "TLS" \/ entries["pw"] = Absent
                                 THEN Kept(eapInfo.pswd, p.pswd) ELSE entries["pw"]
<1>1. /\ entries["id"] \in OrNull /\ entries["pw"] \in OrNull
      /\ eapInfo.method \in Methods /\ eapInfo.auth \in Auths
      /\ eapInfo.user \in OrNull /\ eapInfo.pswd \in OrNull
  BY DEF IInv, TypeOK, Entries, EapInfos
<1>2. p.user \in Text /\ p.pswd \in Text
  BY DEF Profile
<1>3. SetUnlessNull(entries["pw"], p.pswd) \in Text
  BY <1>1, <1>2, SetUnlessNullType
<1>4. Kept(eapInfo.user, p.user) \in Text /\ Kept(eapInfo.pswd, p.pswd) \in Text
  BY <1>1, <1>2, SetUnlessNullType DEF Kept
<1>5. /\ entries["id"] # Absent => entries["id"] \in Text
      /\ entries["pw"] # Absent => entries["pw"] \in Text
  BY <1>1 DEF OrNull
<1>6. QED
  BY <1>1, <1>2, <1>3, <1>4, <1>5 DEF ShownEap, Profile

\* The IP form is written as it is shown, or not at all.
LEMMA IpSaveShown ==
    ASSUME IInv, view # "none", NEW p \in Profile, NEW ok \in BOOLEAN
    PROVE  \/ IpSave(Saved(ipInfo, entries), p, ok) = p
           \/ SameProfile(IpSave(Saved(ipInfo, entries), p, ok), ShownIp(p))
<1> DEFINE d == Saved(ipInfo, entries)
<1>1. /\ ipInfo \in IpInfos /\ entries \in [Entries -> OrNull] /\ ProxyEntries
      /\ \A f \in Fields : entries[f] = Absent <=> ipInfo.type # "static"
  BY DEF IInv, TypeOK
<1>2. /\ d.type = ipInfo.type /\ d.proxy = <<entries["host"], entries["port"]>>
      /\ \A f \in Fields : d.addr[f] = SetUnlessNull(entries[f], ipInfo.addr[f])
  BY <1>1, SavedFields
<1> HIDE DEF d
<1>3. \A f \in Fields :
         (IF d.type = "static" THEN Parsed(d.addr[f], p.addr[f]) ELSE p.addr[f])
           = (IF ipInfo.type = "static" /\ entries[f] \in Addr THEN entries[f] ELSE p.addr[f])
  BY <1>1, <1>2 DEF Parsed, SetUnlessNull
<1>4. WithIpInfo(d, p).addr = ShownIp(p).addr
  <2>1. WithIpInfo(d, p).addr = [f \in Fields |->
           IF d.type = "static" THEN Parsed(d.addr[f], p.addr[f]) ELSE p.addr[f]]
    BY DEF WithIpInfo, Profile
  <2>2. ShownIp(p).addr = [f \in Fields |->
           IF ipInfo.type = "static" /\ entries[f] \in Addr THEN entries[f] ELSE p.addr[f]]
    BY ShownIpFields
  <2>3. QED
    BY <1>3, <2>1, <2>2
<1>5. /\ WithIpInfo(d, p).type = d.type /\ WithIpInfo(d, p).proxy = ProxyToStore(d.proxy)
      /\ WithIpInfo(d, p).method = p.method /\ WithIpInfo(d, p).auth = p.auth
      /\ WithIpInfo(d, p).user = p.user /\ WithIpInfo(d, p).pswd = p.pswd
      /\ WithIpInfo(d, p).eapAp = p.eapAp /\ WithIpInfo(d, p).favourite = p.favourite
      /\ WithIpInfo(d, p).known = p.known
  BY DEF WithIpInfo, Profile
<1>6. SameProfile(WithIpInfo(d, p), ShownIp(p))
  BY <1>2, <1>4, <1>5, ShownIpFields DEF SameProfile
<1>7. QED
  BY <1>6 DEF IpSave, d

\* So is an EAP form whose identity and password, as far as they are set, are the
\* profile's or those the form shows.
EapDataFits(eap, p) ==
    /\ eap \in EapInfos /\ eap.method = eapInfo.method /\ eap.auth = eapInfo.auth
    /\ SetUnlessNull(eap.user, p.user) = ShownEap(p).user
    /\ SetUnlessNull(eap.pswd, p.pswd) = ShownEap(p).pswd

LEMMA EapSaveShown ==
    ASSUME IInv, NEW p \in Profile, NEW ok \in BOOLEAN, NEW eap, EapDataFits(eap, p)
    PROVE  EapSave(eap, p, ok) = p \/ SameProfile(EapSave(eap, p, ok), ShownEap(p))
<1>1. /\ WithEapInfo(eap, p).type = p.type /\ WithEapInfo(eap, p).addr = p.addr
      /\ WithEapInfo(eap, p).proxy = p.proxy /\ WithEapInfo(eap, p).eapAp = p.eapAp
      /\ WithEapInfo(eap, p).method = eap.method /\ WithEapInfo(eap, p).auth = eap.auth
      /\ WithEapInfo(eap, p).user = SetUnlessNull(eap.user, p.user)
      /\ WithEapInfo(eap, p).pswd = SetUnlessNull(eap.pswd, p.pswd)
      /\ WithEapInfo(eap, p).favourite = p.favourite /\ WithEapInfo(eap, p).known = p.known
  BY DEF WithEapInfo, Profile
<1>2. SameProfile(WithEapInfo(eap, p), ShownEap(p))
  BY <1>1, ShownEapFields DEF SameProfile, EapDataFits
<1>3. QED
  BY <1>2 DEF EapSave

\* The two parts do not touch each other.
LEMMA PartsCommute ==
    ASSUME IInv, view # "none", NEW p \in Profile, NEW q \in Profile
    PROVE  /\ SameProfile(q, ShownEap(p)) =>
                SameProfile(ShownIp(q), ShownEap(ShownIp(p)))
           /\ SameProfile(q, ShownIp(p)) =>
                SameProfile(ShownEap(q), ShownEap(ShownIp(p)))
<1> DEFINE ip == ShownIp(p)
           both == ShownEap(ip)
<1>1. /\ ip \in Profile /\ ip.type = ipInfo.type /\ ip.method = p.method /\ ip.auth = p.auth
      /\ ip.user = p.user /\ ip.pswd = p.pswd
      /\ ip.eapAp = p.eapAp /\ ip.favourite = p.favourite /\ ip.known = p.known
  BY ShownIpFields
<1> HIDE DEF ip
<1>2. /\ both.type = ip.type /\ both.addr = ip.addr /\ both.proxy = ip.proxy
      /\ both.method = eapInfo.method /\ both.auth = eapInfo.auth
      /\ both.user = ShownEap(p).user /\ both.pswd = ShownEap(p).pswd
      /\ both.eapAp = p.eapAp /\ both.favourite = p.favourite /\ both.known = p.known
  <2>1. both.user = ShownEap(p).user /\ both.pswd = ShownEap(p).pswd
    BY <1>1, ShownEapFields
  <2>2. QED
    BY <1>1, <2>1, ShownEapFields
<1> HIDE DEF both
<1>3. ASSUME SameProfile(q, ShownEap(p))
      PROVE  SameProfile(ShownIp(q), both)
  <2>1. /\ q.addr = p.addr /\ q.method = eapInfo.method /\ q.auth = eapInfo.auth
        /\ q.user = ShownEap(p).user /\ q.pswd = ShownEap(p).pswd
        /\ q.eapAp = p.eapAp /\ q.favourite = p.favourite /\ q.known = p.known
    BY <1>3, ShownEapFields DEF SameProfile
  <2>2. ShownIp(q).addr = ip.addr
    <3>1. ShownIp(q).addr = [f \in Fields |-> IF ipInfo.type = "static" /\ entries[f] \in Addr
                                              THEN entries[f] ELSE q.addr[f]]
      BY ShownIpFields
    <3>2. ip.addr = [f \in Fields |-> IF ipInfo.type = "static" /\ entries[f] \in Addr
                                      THEN entries[f] ELSE p.addr[f]]
      BY ShownIpFields DEF ip
    <3>3. QED
      BY <2>1, <3>1, <3>2
  <2>3. ShownIp(q).proxy = ip.proxy /\ ShownIp(q).type = ip.type
    BY ShownIpFields DEF ip
  <2>4. /\ ShownIp(q).method = q.method /\ ShownIp(q).auth = q.auth
        /\ ShownIp(q).user = q.user /\ ShownIp(q).pswd = q.pswd /\ ShownIp(q).eapAp = q.eapAp
        /\ ShownIp(q).favourite = q.favourite /\ ShownIp(q).known = q.known
    BY ShownIpFields
  <2>5. QED
    BY <1>2, <2>1, <2>2, <2>3, <2>4 DEF SameProfile
<1>4. ASSUME SameProfile(q, ip)
      PROVE  SameProfile(ShownEap(q), both)
  <2>1. /\ q.type = ip.type /\ q.addr = ip.addr /\ q.proxy = ip.proxy
        /\ q.user = p.user /\ q.pswd = p.pswd
        /\ q.eapAp = p.eapAp /\ q.favourite = p.favourite /\ q.known = p.known
    BY <1>1, <1>4 DEF SameProfile
  <2>2. ShownEap(q).user = ShownEap(p).user /\ ShownEap(q).pswd = ShownEap(p).pswd
    BY <2>1, ShownEapFields
  <2>3. /\ ShownEap(q).type = q.type /\ ShownEap(q).addr = q.addr /\ ShownEap(q).proxy = q.proxy
        /\ ShownEap(q).method = eapInfo.method /\ ShownEap(q).auth = eapInfo.auth
        /\ ShownEap(q).eapAp = q.eapAp /\ ShownEap(q).favourite = q.favourite
        /\ ShownEap(q).known = q.known
    BY ShownEapFields
  <2>4. QED
    BY <1>2, <2>1, <2>2, <2>3 DEF SameProfile
<1>5. QED
  BY <1>3, <1>4 DEF ip, both

\* The password the detail view took from its entry, with the identity it read.
LEMMA DetailDataFits ==
    ASSUME IInv, view = "detail", leaving # "popped"
    PROVE  EapDataFits([eapInfo EXCEPT !.pswd = entries["pw"]], profile)
<1>1. /\ eapInfo \in EapInfos /\ entries["pw"] \in OrNull /\ entries["id"] = Absent
      /\ ~wiped => eapInfo.user \in {Absent, profile.user}
      /\ profile \in Profile
  BY DEF IInv, TypeOK, DetailHasNoIdentity, CredentialsAreRead, Entries
<1> DEFINE eap == [eapInfo EXCEPT !.pswd = entries["pw"]]
<1>2. /\ eap \in EapInfos /\ eap.method = eapInfo.method /\ eap.auth = eapInfo.auth
      /\ eap.user = eapInfo.user /\ eap.pswd = entries["pw"]
  BY <1>1 DEF EapInfos
<1> HIDE DEF eap
<1>3. /\ ShownEap(profile).user = Kept(eapInfo.user, profile.user)
      /\ ShownEap(profile).pswd = SetUnlessNull(entries["pw"], profile.pswd)
  BY <1>1, ShownEapFields
<1>4. SetUnlessNull(eap.user, profile.user) = Kept(eapInfo.user, profile.user)
  BY <1>1, <1>2 DEF SetUnlessNull, Kept
<1>5. EapDataFits(eap, profile)
  BY <1>2, <1>3, <1>4 DEF EapDataFits
<1>6. QED
  BY <1>5 DEF eap

\* What Connect takes: for PEAP and TTLS the entries, otherwise what was read.
LEMMA CredentialsFit ==
    ASSUME IInv, view = "eap", leaving # "popped",
           NEW p \in Profile, p.user = profile.user, p.pswd = profile.pswd
    PROVE  EapDataFits(Credentials, p)
<1>1. /\ eapInfo \in EapInfos /\ entries["pw"] \in OrNull /\ entries["id"] \in OrNull
      /\ \A e \in {"id", "pw"} : entries[e] # Absent <=> eapInfo.method \in EntryMethods
      /\ ~wiped => eapInfo.user \in {Absent, p.user} /\ eapInfo.pswd \in {Absent, p.pswd}
  BY DEF IInv, TypeOK, FormMatchesMethod, CredentialsAreRead, Entries
<1>2. /\ ShownEap(p).user = IF eapInfo.method = "TLS" \/ entries["id"] = Absent
                            THEN Kept(eapInfo.user, p.user) ELSE entries["id"]
      /\ ShownEap(p).pswd = IF eapInfo.method = "TLS" \/ entries["pw"] = Absent
                            THEN Kept(eapInfo.pswd, p.pswd) ELSE entries["pw"]
  BY ShownEapFields
<1>3. CASE eapInfo.method \in {"PEAP", "TTLS"}
  <2>1. /\ Credentials \in EapInfos
        /\ Credentials.method = eapInfo.method /\ Credentials.auth = eapInfo.auth
        /\ Credentials.user = entries["id"] /\ Credentials.pswd = entries["pw"]
    BY <1>1, <1>3 DEF Credentials, EapInfos
  <2>2. eapInfo.method # "TLS" /\ entries["id"] # Absent /\ entries["pw"] # Absent
    BY <1>1, <1>3 DEF EntryMethods
  <2>3. ShownEap(p).user = entries["id"] /\ ShownEap(p).pswd = entries["pw"]
    BY <1>2, <2>2
  <2>4. QED
    BY <2>1, <2>2, <2>3 DEF EapDataFits, SetUnlessNull
<1>4. CASE eapInfo.method \notin {"PEAP", "TTLS"}
  <2>1. Credentials = eapInfo
    BY <1>4 DEF Credentials
  <2>2. /\ SetUnlessNull(eapInfo.user, p.user) = Kept(eapInfo.user, p.user)
        /\ SetUnlessNull(eapInfo.pswd, p.pswd) = Kept(eapInfo.pswd, p.pswd)
    BY <1>1 DEF SetUnlessNull, Kept
  <2>3. /\ ShownEap(p).user = Kept(eapInfo.user, p.user)
        /\ ShownEap(p).pswd = Kept(eapInfo.pswd, p.pswd)
    BY <1>1, <1>2, <1>4 DEF EntryMethods
  <2>4. QED
    BY <1>1, <2>1, <2>2, <2>3 DEF EapDataFits
<1>5. QED
  BY <1>3, <1>4

LEMMA SameAsShown ==
    ASSUME IInv, view # "none", profile' \in Profile,
           NEW p \in {profile, ShownIp(profile), ShownEap(profile), ShownEap(ShownIp(profile))},
           profile' = p \/ SameProfile(profile', p)
    PROVE  \E q \in {profile, ShownIp(profile), ShownEap(profile), ShownEap(ShownIp(profile))} :
              [profile' EXCEPT !.dnsCount = 0] = [q EXCEPT !.dnsCount = 0]
<1>1. profile \in Profile
  BY DEF IInv, TypeOK
<1>2. p \in Profile
  BY <1>1, ShownIpFields, ShownEapFields
<1>3. [profile' EXCEPT !.dnsCount = 0] = [p EXCEPT !.dnsCount = 0]
  BY <1>2, SameIsEqual
<1>4. QED
  BY <1>3

\* However the form was edited and whatever the daemon did meanwhile, leaving a view
\* writes the IP form, the EAP form, both or nothing, each as it is shown
\* (detailview_sk_cb, __common_eap_connect_done_cb).
THEOREM SavedIsShown == Spec => SavedAsShown
<1> DEFINE Shown == {profile, ShownIp(profile), ShownEap(profile), ShownEap(ShownIp(profile))}
           AsShown == \E q \in Shown :
                         [profile' EXCEPT !.dnsCount = 0] = [q EXCEPT !.dnsCount = 0]
<1>1. IInv /\ [Next]_vars => (Leaves => AsShown)
  <2>1. SUFFICES ASSUME IInv, [Next]_vars, Leaves
                 PROVE  AsShown
    OBVIOUS
  <2>2. profile \in Profile /\ profile' \in Profile /\ leaving # "popped"
    BY <2>1, TypeStep DEF IInv, TypeOK, Leaves
  <2>3. Leaving
    BY <2>1, StepKinds, OpensForm, EditsOnlyEdit, OutsideKeeps
       DEF Leaves, IInv, OpenForm, Edit, place, AskForget, EndKey, TransitionEnds
  <2>4. view # "none"
    BY <2>3, LeavingPops
  <2>5. ASSUME ForgetOk \/ EapBack
        PROVE  AsShown
    <3>1. profile' = profile
      BY <2>5 DEF ForgetOk, EapBack
    <3>2. QED
      BY <2>1, <2>2, <2>4, <3>1, SameAsShown
  <2>6. ASSUME NEW okEap \in BOOLEAN, NEW okIp \in BOOLEAN, DetailBack(okEap, okIp)
        PROVE  AsShown
    <3> DEFINE eap == [eapInfo EXCEPT !.pswd = entries["pw"]]
               p1  == IF eapList THEN EapSave(eap, profile, okEap) ELSE profile
    <3>1. view = "detail" /\ profile' = IpSave(Saved(ipInfo, entries), p1, okIp)
      BY <2>6 DEF DetailBack, SaveAndPop
    <3>2. p1 = profile \/ SameProfile(p1, ShownEap(profile))
      BY <2>1, <2>2, <3>1, DetailDataFits, EapSaveShown
    <3>3. p1 \in Profile
      BY <2>1, <2>2, <3>1, DetailDataFits, WithEapInfoType DEF EapSave, EapDataFits
    <3> HIDE DEF p1
    <3>4. profile' = p1 \/ SameProfile(profile', ShownIp(p1))
      BY <2>1, <2>4, <3>1, <3>3, IpSaveShown
    <3>5. CASE p1 = profile
      BY <2>1, <2>2, <2>4, <3>4, <3>5, SameAsShown
    <3>6. CASE SameProfile(p1, ShownEap(profile))
      <4>1. SameProfile(ShownIp(p1), ShownEap(ShownIp(profile)))
        BY <2>1, <2>2, <2>4, <3>3, <3>6, PartsCommute
      <4>2. \/ SameProfile(profile', ShownEap(profile))
            \/ SameProfile(profile', ShownEap(ShownIp(profile)))
        BY <3>4, <3>6, <4>1 DEF SameProfile
      <4>3. QED
        BY <2>1, <2>2, <2>4, <4>2, SameAsShown
    <3>7. QED
      BY <3>2, <3>5, <3>6
  <2>7. ASSUME NEW okEap \in BOOLEAN, NEW okIp \in BOOLEAN, Connect(okEap, okIp)
        PROVE  AsShown
    <3> DEFINE p1 == IpSave(Saved(ipInfo, entries), profile, okIp)
    <3>1. view = "eap" /\ profile' = EapSave(Credentials, p1, okEap)
      BY <2>7 DEF Connect
    <3>2. p1 = profile \/ SameProfile(p1, ShownIp(profile))
      BY <2>1, <2>2, <2>4, IpSaveShown
    <3>3. p1 \in Profile /\ p1.user = profile.user /\ p1.pswd = profile.pswd
      <4>1. Saved(ipInfo, entries) \in IpInfos
        BY <2>1, <2>4, SavedType DEF IInv, TypeOK, ProxyEntries
      <4>2. p1 \in Profile
        BY <2>2, <4>1, SaveType, WithIpInfoType DEF IpSave
      <4>3. QED
        BY <2>1, <2>2, <2>4, <3>2, <4>2, ShownIpFields DEF SameProfile
    <3> HIDE DEF p1
    <3>4. profile' = p1 \/ SameProfile(profile', ShownEap(p1))
      BY <2>1, <2>2, <3>1, <3>3, CredentialsFit, EapSaveShown
    <3>5. CASE p1 = profile
      BY <2>1, <2>2, <2>4, <3>4, <3>5, SameAsShown
    <3>6. CASE SameProfile(p1, ShownIp(profile))
      <4>1. SameProfile(ShownEap(p1), ShownEap(ShownIp(profile)))
        BY <2>1, <2>2, <2>4, <3>3, <3>6, PartsCommute
      <4>2. \/ SameProfile(profile', ShownIp(profile))
            \/ SameProfile(profile', ShownEap(ShownIp(profile)))
        BY <3>4, <3>6, <4>1 DEF SameProfile
      <4>3. QED
        BY <2>1, <2>2, <2>4, <4>2, SameAsShown
    <3>7. QED
      BY <3>2, <3>5, <3>6
  <2>8. QED
    BY <2>3, <2>5, <2>6, <2>7 DEF Leaving
<1>2. IInv /\ [Next]_vars =>
        (Leaves =>
          \E p \in {profile, ShownIp(profile), ShownEap(profile), ShownEap(ShownIp(profile))} :
              [profile' EXCEPT !.dnsCount = 0] = [p EXCEPT !.dnsCount = 0])
  BY <1>1
<1> HIDE DEF Shown, AsShown
<1>3. QED
  BY <1>2, ViewsInvariance, PTL DEF Spec, SavedAsShown

=============================================================================
