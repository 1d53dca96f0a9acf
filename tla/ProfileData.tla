---------------------------- MODULE ProfileData ----------------------------
(***************************************************************************)
(* The data objects between a form and the daemon's profile                *)
(* (common_datamodel.c) and the texts the forms show (common_ip_info.c,    *)
(* common_utils.c).  Constant operators only; ProfileViews has the state.  *)
(*                                                                         *)
(* A text is an address, the port of the default proxy, one that is no     *)
(* address, or empty; Absent is the NULL read from an entry that is not    *)
(* there.  Subnet mask and gateway are read, shown, set and saved exactly  *)
(* as the IP address is, and left out.                                     *)
(***************************************************************************)
EXTENDS Naturals, Sequences

CONSTANTS Addr,    \* dotted addresses
          Zero,    \* 0.0.0.0
          Port,    \* "80"
          Junk,    \* a text inet_aton refuses
          Empty,   \* ""
          Absent   \* NULL

ASSUME TextAssumption ==
    /\ Zero \in Addr /\ {Port, Junk, Empty, Absent} \cap Addr = {}
    /\ Empty \notin {Port, Junk, Absent} /\ Absent \notin {Port, Junk} /\ Port # Junk

Text    == Addr \cup {Port, Junk, Empty}
OrNull  == Text \cup {Absent}
Fields  == {"ip", "dns1", "dns2"}
Types   == {"unset", "static", "dhcp", "auto"}
\* Without FAST, which DISABLE_FAST_EAP_METHOD compiles out.
Methods == {"UNKNOWN", "PEAP", "TLS", "TTLS", "SIM", "AKA"}
Auths   == {"NONE", "MSCHAPV2"}

\* "", "host", or "host:port" with either part empty.
Proxies == {<<>>} \cup {<<h>> : h \in Text \ {Empty}} \cup (Text \X Text)
DefaultProxy == <<Zero, Port>>

Profile == [type : Types, addr : [Fields -> Addr], dnsCount : 0..2, proxy : Proxies,
            method : Methods, auth : Auths, user : Text, pswd : Text,
            eapAp : BOOLEAN,       \* its security is 802.1x
            favourite : BOOLEAN,
            known : BOOLEAN]       \* net_get_profile_info finds it

\* What the forms of a missing profile start from.
InitDefault ==
    [type |-> "unset", addr |-> [f \in Fields |-> Zero], dnsCount |-> 0, proxy |-> <<>>,
     method |-> "PEAP", auth |-> "NONE", user |-> Empty, pswd |-> Empty,
     eapAp |-> FALSE, favourite |-> FALSE, known |-> FALSE]

Read(p) == IF p.known THEN p ELSE InitDefault

----------------------------------------------------------------------------
(* Reading a profile into a data object, and a data object into entries.   *)

IpInfo(p) ==
    [type  |-> Read(p).type,
     addr  |-> Read(p).addr,
     proxy |-> IF Read(p).proxy = <<>> THEN DefaultProxy ELSE Read(p).proxy]

OrAbsent(t) == IF t = Empty THEN Absent ELSE t

EapInfo(p) ==
    [method |-> Read(p).method, auth |-> Read(p).auth,
     user |-> OrAbsent(Read(p).user), pswd |-> OrAbsent(Read(p).pswd)]

\* strtok on ":" skips empty parts: of ":80" it makes the host "80" without a port.
HostPort(proxy) ==
    CASE Len(proxy) = 2 /\ proxy[1] # Empty -> proxy
      [] Len(proxy) = 2 /\ proxy[1] = Empty -> <<proxy[2], Empty>>
      [] Len(proxy) = 1                      -> <<proxy[1], Empty>>
      [] OTHER                               -> <<Empty, Empty>>

\* An address setter of the data object leaves the old value when given NULL.
SetUnlessNull(new, old) == IF new = Absent THEN old ELSE new

----------------------------------------------------------------------------
(* Saving: the profile is read again, and written only if it differs.      *)

\* The default proxy stored as any other.
ProxyAsShown(proxy) == proxy

ProxyToStore(proxy) == IF proxy = DefaultProxy THEN <<>> ELSE proxy

\* inet_aton leaves the address alone when the text is none.
Parsed(text, old) == IF text \in Addr THEN text ELSE old

Differs(d, p, f) == d.type = "static" /\ d.addr[f] # p.addr[f]

IpModified(d, p) ==
    \/ d.type # p.type
    \/ ProxyToStore(d.proxy) # p.proxy
    \/ \E f \in Fields : Differs(d, p, f)

WithIpInfo(d, p) ==
    [p EXCEPT
        !.type  = d.type,
        !.proxy = ProxyToStore(d.proxy),
        !.addr  = [f \in Fields |->
                     IF d.type = "static" THEN Parsed(d.addr[f], p.addr[f]) ELSE p.addr[f]],
        !.dnsCount = IF Differs(d, p, "dns2") THEN 2
                     ELSE IF Differs(d, p, "dns1") THEN 1 ELSE @]

\* g_strlcpy copies nothing from NULL, though NULL differs from "".
EapModified(e, p) ==
    e.method # p.method \/ e.auth # p.auth \/ e.user # p.user \/ e.pswd # p.pswd

WithEapInfo(e, p) ==
    [p EXCEPT !.method = e.method, !.auth = e.auth,
              !.user = SetUnlessNull(e.user, @), !.pswd = SetUnlessNull(e.pswd, @)]

=============================================================================
