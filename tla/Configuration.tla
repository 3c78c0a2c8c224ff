---------------------------- MODULE Configuration ----------------------------
(***************************************************************************)
(* The configuration file (internal/config) and the check of the health    *)
(* address on top of it (NewServer of internal/health/server.go).          *)
(*                                                                         *)
(* Addresses are spellings: what the code compares is how an address is    *)
(* written, what the kernel binds is what ParseIP makes of it.             *)
(***************************************************************************)
EXTENDS Integers

CONSTANTS
  Absent,          \* a field the file does not set
  Addresses, Ports, Upstreams, Timeouts, Levels, Formats,   \* what fields may be set to
  ParseIP,         \* the spellings net.ParseIP accepts, and the address of each
  Loopback,        \* addresses IsLoopback is true of
  SplitHostPort,   \* what net.SplitHostPort makes of those upstreams it accepts
  UDPPorts         \* ports net.LookupPort("udp", ...) knows; the empty one is port 0

(* net.ParseIP accepts no host names.                                      *)
ASSUME AddressAssumption == "localhost" \notin DOMAIN ParseIP

Settings == [
  server : Addresses \cup {Absent},    serverPort : Ports \cup {Absent},
  health : Addresses \cup {Absent},    healthPort : Ports \cup {Absent},
  upstream : Upstreams \cup {Absent},  upstreamTimeout : Timeouts \cup {Absent},
  shutdownTimeout : Timeouts \cup {Absent},
  level : Levels \cup {Absent},        format : Formats \cup {Absent}]

(* Timeouts only matter as positive or not.                                *)
Default == [
  server |-> "127.0.0.1", serverPort |-> 5353,
  health |-> "127.0.0.1", healthPort |-> 8081,
  upstream |-> "", upstreamTimeout |-> 1, shutdownTimeout |-> 1,
  level |-> "info", format |-> "json"]

(* Decode leaves the defaults in the fields the file does not set.         *)
Decoded(settings) ==
  [f \in DOMAIN Default |-> IF settings[f] = Absent THEN Default[f] ELSE settings[f]]

ValidListener(address, port) == address \in DOMAIN ParseIP /\ 1 <= port /\ port <= 65535

ValidUpstream(upstream) ==
  /\ upstream # "" /\ upstream \in DOMAIN SplitHostPort
  /\ SplitHostPort[upstream].host # "" /\ SplitHostPort[upstream].port # ""
  /\ SplitHostPort[upstream].port \in UDPPorts

(* DNSAddress and HealthAddress.                                           *)
DNSAddress(c) == <<c.server, c.serverPort>>
HealthAddress(c) == <<c.health, c.healthPort>>

Validate(c) ==
  /\ ValidListener(c.server, c.serverPort) /\ ValidListener(c.health, c.healthPort)
  /\ ValidUpstream(c.upstream)
  /\ c.upstreamTimeout > 0 /\ c.shutdownTimeout > 0
  /\ DNSAddress(c) # HealthAddress(c)
  /\ c.level \in {"debug", "info", "warn", "error"} /\ c.format \in {"json", "text"}

(* Load: the file opens, its document decodes into known fields, and       *)
(* nothing comes after it.                                                 *)
Files == [opens : BOOLEAN, decodes : BOOLEAN, rest : {"eof", "document", "garbage"}]

OneDocument(file) == file.opens /\ file.decodes /\ file.rest = "eof"

(* validateLoopbackAddress, of HealthAddress.                              *)
AnyAddress(address) == address \in DOMAIN ParseIP
LoopbackAddress(address) ==
  \/ address = "localhost"
  \/ address \in DOMAIN ParseIP /\ ParseIP[address] \in Loopback
=============================================================================
