--------------------------- MODULE MCProfileViews ---------------------------
EXTENDS ProfileViews

CONSTANT A   \* an address

Plain == [type |-> "dhcp", addr |-> [f \in Fields |-> Zero], dnsCount |-> 2, proxy |-> <<>>,
          method |-> "UNKNOWN", auth |-> "NONE", user |-> Empty, pswd |-> Empty,
          eapAp |-> FALSE, favourite |-> FALSE, known |-> TRUE]
Static == [Plain EXCEPT !.type = "static", !.addr = [f \in Fields |-> A], !.favourite = TRUE]

MCProfiles ==
    { [Plain EXCEPT !.addr["ip"] = A, !.favourite = TRUE],
      [Plain EXCEPT !.type = "auto", !.proxy = <<Empty, Port>>],
      [Static EXCEPT !.proxy = <<Junk, Port>>, !.eapAp = TRUE,
                     !.method = "TTLS", !.user = Junk, !.pswd = Junk],
      [Static EXCEPT !.proxy = <<Junk>>, !.eapAp = TRUE, !.method = "SIM"],
      [Static EXCEPT !.eapAp = TRUE, !.favourite = FALSE],
      [Plain EXCEPT !.eapAp = TRUE, !.method = "TLS", !.user = Junk] }
=============================================================================
