----------------------------- MODULE Normalizer -----------------------------
(***************************************************************************)
(* What src/src/normalizer.py makes of one node.  Imports, saves and the   *)
(* builder all normalise, each what the one before has normalised already. *)
(*                                                                         *)
(* A field is the class of its value: what the code tells apart, no more.  *)
(* "absent" is a missing field.  A name is a text that may have blanks     *)
(* around it; a server is a host, or a host in one of the forms that       *)
(* imported files wrap it in.                                              *)
(***************************************************************************)
EXTENDS FiniteSets

Absent == "absent"

(* A node that normalisation leaves as it is; the forms below are told as  *)
(* changes to it.                                                          *)
PlainNode == [text |-> "a", padded |-> FALSE, type |-> "vless",
              server |-> "host", port |-> "int", hop |-> Absent,
              fingerprint |-> Absent, client |-> Absent,
              vision |-> FALSE, smux |-> Absent, ech |-> Absent]

Types        == {"vless", "hy2", "hysteria2", "masque"}
Servers      == {"host", "list", "listText", "bracketed", "listOfBracketed",
                 "manyText", "many", "blank"}
Ports        == {"int", "digits", "bad", Absent}
Hops         == {Absent, "int", "digits", "range", "junk"}
Fingerprints == {Absent, "none", "browser", "pin", "junk"}
Clients      == {Absent, "none", "browser", "padded"}
Muxes        == {Absent, "off", "on", "brutal"}
EchOptions   == {Absent, "object", "blanks", "text"}

-----------------------------------------------------------------------------
(* _normalize_server_address: a list of one, or its text, is unwrapped     *)
(* once; brackets are taken off an IPv6 address.                           *)
Server(s) ==
    CASE s \in {"list", "listText", "bracketed", "listOfBracketed"} -> "host"
      [] s = "many" -> "manyText"
      [] OTHER -> s

(* A port that does not parse stays, for the error about it.               *)
Port(p) == IF p = "digits" THEN "int" ELSE p

(* _normalize_hysteria2_hop_interval: the least number of seconds.         *)
Hop(type, h) ==
    IF type # "hysteria2" THEN h
    ELSE IF h \in {"int", "digits", "range"} THEN "int" ELSE Absent

(* _normalize_ech_opts: empty options and what is no object are removed.   *)
Ech(e) == IF e = "object" THEN "object" ELSE Absent

(* A browser's name is no certificate pin: it becomes client-fingerprint   *)
(* unless that field has a value.                                          *)
Fingerprint(f) == IF f = "pin" THEN "pin" ELSE Absent

Client(f, c) ==
    LET taken == IF f = "browser" /\ c = Absent THEN "browser" ELSE c
    IN  CASE taken = "none"   -> Absent
          [] taken = "padded" -> "browser"
          [] OTHER            -> taken

(* smux without Brutal does not go with xtls-rprx-vision.                  *)
Smux(vision, m) == IF vision /\ m = "on" THEN Absent ELSE m

Type(t) == IF t = "hy2" THEN "hysteria2" ELSE t

(* Mutant: hop-interval is looked at before hy2 becomes hysteria2.         *)
NormalizeTypeLast(n) ==
    [text |-> n.text, padded |-> FALSE, type |-> Type(n.type),
     server |-> Server(n.server), port |-> Port(n.port), hop |-> Hop(n.type, n.hop),
     fingerprint |-> Fingerprint(n.fingerprint), client |-> Client(n.fingerprint, n.client),
     vision |-> n.vision, smux |-> Smux(n.vision, n.smux), ech |-> Ech(n.ech)]

(* normalize_proxy                                                         *)
Normalize(n) ==
    [text |-> n.text, padded |-> FALSE, type |-> Type(n.type),
     server |-> Server(n.server), port |-> Port(n.port), hop |-> Hop(Type(n.type), n.hop),
     fingerprint |-> Fingerprint(n.fingerprint), client |-> Client(n.fingerprint, n.client),
     vision |-> n.vision, smux |-> Smux(n.vision, n.smux), ech |-> Ech(n.ech)]

PortParses(p) == p \in {"int", "digits"}

(* validate_proxy_fields                                                   *)
FieldErrors(n) ==
    IF n.type = "masque" THEN {"unsupported"}
    ELSE {e \in {"missing", "port"} :
            \/ e = "missing" /\ (n.text = "" \/ n.server = "blank" \/ n.port = Absent)
            \/ e = "port" /\ n.port = "bad"}
=============================================================================
