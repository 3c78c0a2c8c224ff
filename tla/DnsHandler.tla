----------------------------- MODULE DnsHandler -----------------------------
(***************************************************************************)
(* The DNS requests being served: Handler.ServeDNS                         *)
(* (src/dns/internal/dnsserver/handler.go), one goroutine per request,     *)
(* with the exchange its upstream client makes, the fallback to TCP        *)
(* included (src/dns/internal/upstream/client.go), and the counters of     *)
(* src/dns/internal/metrics/metrics.go.                                    *)
(*                                                                         *)
(* Every atomic Add and Load is a step: a Snapshot reads its counters one  *)
(* after the other, beside requests that increment them.  A duration is    *)
(* counted in exchanges.  What the upstream answers, and whether the       *)
(* message reaches the client, is external; a WriteMsg that panics does so *)
(* before it sends anything, since it packs the message first.             *)
(***************************************************************************)
EXTENDS Naturals, Sequences, FiniteSets

CONSTANTS
  Requests,      \* messages the server hands to the handler
  Messages,      \* what the upstream may answer
  MaxSnapshots,  \* bound: snapshots taken, 0 or 1
  MaxPanicked    \* bound: requests of which something panics, beside a snapshot

Networks == {"udp", "tcp"}
Kinds == {"nil", "empty"} \cup Networks      \* what ServeDNS is called with

Rcodes == {"noerror", "nxdomain", "servfail", "other"}
Message == [rcode : Rcodes, truncated : BOOLEAN]

ASSUME ConstantsAssumption ==
  /\ IsFiniteSet(Requests)
  /\ Messages # {} /\ Messages \subseteq Message
  /\ MaxSnapshots \in 0..1 /\ MaxPanicked \in Nat

NoMessage == [rcode |-> "none", truncated |-> FALSE]
Plain(rcode) == [rcode |-> rcode, truncated |-> FALSE]

(* The order in which Snapshot loads the counters.                         *)
LoadOrder == <<"latency", "samples", "total", "udp", "tcp", "noerror", "nxdomain",
               "servfail", "other", "timeouts", "errors", "invalid", "writeErrors",
               "panics">>
Counters == {"latency", "samples", "total", "udp", "tcp", "noerror", "nxdomain",
             "servfail", "other", "timeouts", "errors", "invalid", "writeErrors",
             "panics"}

VARIABLES
  forwarder,  \* whether the handler was built with a forwarder
  pc,         \* [Requests -> Steps]
  kind,       \* [Requests -> Kinds or "none"]
  over,       \* [Requests -> network of the exchange being made, or "none"]
  verdict,    \* [Requests -> how the exchange ended]
  reply,      \* [Requests -> the message to write]
  writes,     \* [Requests -> number of WriteMsg calls that returned]
  sent,       \* [Requests -> result of the last of them]
  dropped,    \* [Requests -> the message whose WriteMsg panicked]
  count,      \* [Counters -> Nat], the Registry
  loads,      \* number of loads the Snapshot being taken has made
  snapshot,   \* [Counters -> Nat], what it has loaded
  overlap     \* requests that were in flight while it was being taken

reader == <<loads, snapshot>>
vars == <<forwarder, pc, kind, over, verdict, reply, writes, sent, dropped, count, reader, overlap>>

Steps == {"idle", "received", "network", "forward", "exchange", "latency", "sample",
          "classify", "respond", "write", "write_error", "panic", "done"}
Verdicts == {"none", "timeout", "error", "nil", "panic", "answer", "no_forwarder"}

TypeOK ==
  /\ forwarder \in BOOLEAN
  /\ pc \in [Requests -> Steps]
  /\ kind \in [Requests -> Kinds \cup {"none"}]
  /\ over \in [Requests -> Networks \cup {"none"}]
  /\ verdict \in [Requests -> Verdicts]
  /\ reply \in [Requests -> Message \cup {NoMessage}]
  /\ writes \in [Requests -> 0..1]
  /\ sent \in [Requests -> {"none", "ok", "failed"}]
  /\ dropped \in [Requests -> Message \cup {NoMessage}]
  /\ count \in [Counters -> Nat]
  /\ loads \in 0..Len(LoadOrder)
  /\ snapshot \in [Counters -> Nat]
  /\ overlap \subseteq Requests

Init ==
  /\ forwarder \in BOOLEAN
  /\ pc = [q \in Requests |-> "idle"]
  /\ kind = [q \in Requests |-> "none"]
  /\ over = [q \in Requests |-> "none"]
  /\ verdict = [q \in Requests |-> "none"]
  /\ reply = [q \in Requests |-> NoMessage]
  /\ writes = [q \in Requests |-> 0]
  /\ sent = [q \in Requests |-> "none"]
  /\ dropped = [q \in Requests |-> NoMessage]
  /\ count = [c \in Counters |-> 0]
  /\ loads = 0 /\ snapshot = [c \in Counters |-> 0] /\ overlap = {}

Goto(q, step) == pc' = [pc EXCEPT ![q] = step]
Add(c, n) == count' = [count EXCEPT ![c] = @ + n]
ReplyWith(q, message) == reply' = [reply EXCEPT ![q] = message]

(* Something on the way of the request has panicked.                       *)
Panicked(q) == verdict[q] = "panic" \/ dropped[q] # NoMessage

Panics == {q \in Requests : Panicked(q)}
MayPanic == loads = 0 \/ Cardinality(Panics) < MaxPanicked

InFlight(q) == pc[q] \notin {"idle", "done"}
Snapshotting == loads \in 1..(Len(LoadOrder) - 1)

-----------------------------------------------------------------------------
(* serveDNS.                                                               *)

(* The server hands a message to a new goroutine.                          *)
Receive(q) ==
  /\ pc[q] = "idle"
  /\ \E k \in Kinds : kind' = [kind EXCEPT ![q] = k]
  /\ Goto(q, "received")
  /\ overlap' = IF Snapshotting THEN overlap \cup {q} ELSE overlap
  /\ UNCHANGED <<forwarder, over, verdict, reply, writes, sent, dropped, count, reader>>

(* Nothing is written for a nil request; a message without a question is   *)
(* answered FORMERR, which the counters file under "other".                *)
RejectInvalid(q) ==
  /\ pc[q] = "received" /\ kind[q] \in {"nil", "empty"}
  /\ Add("invalid", 1)
  /\ IF kind[q] = "nil" THEN Goto(q, "done") /\ UNCHANGED reply
                        ELSE Goto(q, "respond") /\ ReplyWith(q, Plain("other"))
  /\ UNCHANGED <<forwarder, kind, over, verdict, writes, sent, dropped, reader, overlap>>

(* RecordRequestUDP and RecordRequestTCP: two counters, one after the other. *)
CountTotal(q) ==
  /\ pc[q] = "received" /\ kind[q] \in Networks
  /\ Add("total", 1)
  /\ Goto(q, "network")
  /\ UNCHANGED <<forwarder, kind, over, verdict, reply, writes, sent, dropped, reader, overlap>>

NetworkSwapped(q) == IF kind[q] = "tcp" THEN "udp" ELSE "tcp"
NetworkTotalled(q) == IF kind[q] = "tcp" THEN "total" ELSE "udp"
NetworkCounter(q) == kind[q]

CountNetwork(q) ==
  /\ pc[q] = "network"
  /\ Add(NetworkCounter(q), 1)
  /\ Goto(q, "forward")
  /\ UNCHANGED <<forwarder, kind, over, verdict, reply, writes, sent, dropped, reader, overlap>>

Forward(q) ==
  /\ pc[q] = "forward"
  /\ IF forwarder
       THEN /\ over' = [over EXCEPT ![q] = kind[q]]
            /\ Goto(q, "exchange")
            /\ UNCHANGED verdict
       ELSE /\ verdict' = [verdict EXCEPT ![q] = "no_forwarder"]
            /\ Goto(q, "classify")
            /\ UNCHANGED over
  /\ UNCHANGED <<forwarder, kind, reply, writes, sent, dropped, count, reader, overlap>>

-----------------------------------------------------------------------------
(* Client.Exchange.                                                        *)

FallsBack(q, m) == kind[q] = "udp" /\ over[q] = "udp" /\ m.truncated

(* A truncated UDP answer is dropped and the request sent again over TCP.  *)
FallBackToTCP(q) ==
  /\ pc[q] = "exchange"
  /\ \E m \in Messages : FallsBack(q, m)
  /\ over' = [over EXCEPT ![q] = "tcp"]
  /\ UNCHANGED <<forwarder, pc, kind, verdict, reply, writes, sent, dropped, count, reader, overlap>>

ExchangeAnswers(q) ==
  /\ pc[q] = "exchange"
  /\ \E m \in Messages : ~FallsBack(q, m) /\ ReplyWith(q, m)
  /\ verdict' = [verdict EXCEPT ![q] = "answer"]
  /\ Goto(q, "latency")
  /\ UNCHANGED <<forwarder, kind, over, writes, sent, dropped, count, reader, overlap>>

(* An error of either exchange, or a forwarder that returns neither an     *)
(* answer nor an error.                                                    *)
ExchangeFails(q) ==
  /\ pc[q] = "exchange"
  /\ \E v \in {"timeout", "error", "nil"} : verdict' = [verdict EXCEPT ![q] = v]
  /\ Goto(q, "latency")
  /\ UNCHANGED <<forwarder, kind, over, reply, writes, sent, dropped, count, reader, overlap>>

ExchangePanics(q) ==
  /\ pc[q] = "exchange" /\ MayPanic
  /\ verdict' = [verdict EXCEPT ![q] = "panic"]
  /\ Goto(q, "panic")
  /\ UNCHANGED <<forwarder, kind, over, reply, writes, sent, dropped, count, reader, overlap>>

-----------------------------------------------------------------------------
(* What serveDNS does with the outcome.                                    *)

Exchanges(q) == IF over[q] = kind[q] THEN 1 ELSE 2

RecordLatency(q) ==
  /\ pc[q] = "latency"
  /\ Add("latency", Exchanges(q))
  /\ Goto(q, "sample")
  /\ UNCHANGED <<forwarder, kind, over, verdict, reply, writes, sent, dropped, reader, overlap>>

RecordSample(q) ==
  /\ pc[q] = "sample"
  /\ Add("samples", 1)
  /\ Goto(q, IF verdict[q] = "answer" THEN "respond" ELSE "classify")
  /\ UNCHANGED <<forwarder, kind, over, verdict, reply, writes, sent, dropped, reader, overlap>>

FailureReply(q) == Plain("servfail")

RecordFailure(q) ==
  /\ pc[q] = "classify"
  /\ Add(IF verdict[q] = "timeout" THEN "timeouts" ELSE "errors", 1)
  /\ ReplyWith(q, FailureReply(q))
  /\ Goto(q, "respond")
  /\ UNCHANGED <<forwarder, kind, over, verdict, writes, sent, dropped, reader, overlap>>

AfterPanicGivesUp(q) == "done"
AfterPanic(q) == "respond"

(* recoverPanic.  The request is not nil, and the server always hands over *)
(* a writer.                                                               *)
Recover(q) ==
  /\ pc[q] = "panic"
  /\ Add("panics", 1)
  /\ ReplyWith(q, FailureReply(q))
  /\ Goto(q, AfterPanic(q))
  /\ UNCHANGED <<forwarder, kind, over, verdict, writes, sent, dropped, reader, overlap>>

(* RecordResponse comes before WriteMsg, also for an error response.       *)
CountResponse(q) ==
  /\ pc[q] = "respond"
  /\ Add(reply[q].rcode, 1)
  /\ Goto(q, "write")
  /\ UNCHANGED <<forwarder, kind, over, verdict, reply, writes, sent, dropped, reader, overlap>>

AfterWriteFallsThrough(q) == IF verdict[q] = "timeout" /\ writes[q] = 0 THEN "respond" ELSE "done"
AfterWrite(q) == "done"

Write(q) ==
  /\ pc[q] = "write"
  /\ writes' = [writes EXCEPT ![q] = @ + 1]
  /\ \/ /\ sent' = [sent EXCEPT ![q] = "ok"]
        /\ Goto(q, AfterWrite(q))
     \/ /\ sent' = [sent EXCEPT ![q] = "failed"]
        /\ Goto(q, "write_error")
  /\ UNCHANGED <<forwarder, kind, over, verdict, reply, dropped, count, reader, overlap>>

(* What recoverPanic writes itself is not protected again: when that       *)
(* panics too the process ends, and there the model stops.                 *)
WritePanics(q) ==
  /\ pc[q] = "write" /\ ~Panicked(q) /\ MayPanic
  /\ dropped' = [dropped EXCEPT ![q] = reply[q]]
  /\ Goto(q, "panic")
  /\ UNCHANGED <<forwarder, kind, over, verdict, reply, writes, sent, count, reader, overlap>>

RecordWriteError(q) ==
  /\ pc[q] = "write_error"
  /\ Add("writeErrors", 1)
  /\ Goto(q, "done")
  /\ UNCHANGED <<forwarder, kind, over, verdict, reply, writes, sent, dropped, reader, overlap>>

-----------------------------------------------------------------------------
(* Registry.Snapshot, for a health request: the next counter is loaded.    *)
Load ==
  /\ MaxSnapshots = 1 /\ loads < Len(LoadOrder) /\ Cardinality(Panics) <= MaxPanicked
  /\ loads' = loads + 1
  /\ snapshot' = [snapshot EXCEPT ![LoadOrder[loads + 1]] = count[LoadOrder[loads + 1]]]
  /\ overlap' = IF loads = 0 THEN {q \in Requests : InFlight(q)} ELSE overlap
  /\ UNCHANGED <<forwarder, pc, kind, over, verdict, reply, writes, sent, dropped, count>>

Serve(q) ==
  \/ RejectInvalid(q) \/ CountTotal(q) \/ CountNetwork(q) \/ Forward(q)
  \/ FallBackToTCP(q) \/ ExchangeAnswers(q) \/ ExchangeFails(q) \/ ExchangePanics(q)
  \/ RecordLatency(q) \/ RecordSample(q) \/ RecordFailure(q) \/ Recover(q)
  \/ CountResponse(q) \/ Write(q) \/ WritePanics(q) \/ RecordWriteError(q)

Next == Load \/ \E q \in Requests : Receive(q) \/ Serve(q)

Spec == Init /\ [][Next]_vars

-----------------------------------------------------------------------------
(* Properties.                                                             *)

AtRest == \A q \in Requests : ~InFlight(q)
Responses(c) == c["noerror"] + c["nxdomain"] + c["servfail"] + c["other"]

(* Whenever no request is in flight the counters tell exactly what was     *)
(* served: each request under its protocol, each reply under its code, one *)
(* whose write panicked included, each failed exchange once as a timeout   *)
(* or an error, each panic and each failed write, and a latency for every  *)
(* exchange that returned.                                                 *)
CountersAddUp ==
  AtRest =>
    /\ count["total"] = count["udp"] + count["tcp"]
    /\ \A n \in Networks : count[n] = Cardinality({q \in Requests : kind[q] = n})
    /\ count["invalid"] = Cardinality({q \in Requests : kind[q] \in {"nil", "empty"}})
    /\ \A r \in Rcodes : count[r] = Cardinality({q \in Requests : reply[q].rcode = r})
                                    + Cardinality({q \in Requests : dropped[q].rcode = r})
    /\ count["timeouts"] = Cardinality({q \in Requests : verdict[q] = "timeout"})
    /\ count["errors"] = Cardinality({q \in Requests :
                           verdict[q] \in {"error", "nil", "no_forwarder"}})
    /\ count["panics"] = Cardinality({q \in Requests : Panicked(q)})
    /\ count["writeErrors"] = Cardinality({q \in Requests : sent[q] = "failed"})
    /\ count["samples"] = Cardinality({q \in Requests :
                            verdict[q] \in {"timeout", "error", "nil", "answer"}})
    /\ count["latency"] = count["samples"] + Cardinality({q \in Requests :
                            verdict[q] # "panic" /\ over[q] \notin {"none", kind[q]}})

(* Every request that carries a message gets one message back, and one     *)
(* only, also when the forwarder panics or the writing of an answer does.  *)
(* It says SERVFAIL then, and whenever the upstream did not answer, for    *)
(* whatever cause, and says that the answer was truncated only when the    *)
(* upstream truncated it over TCP too.                                     *)
AnsweredOnce ==
  \A q \in Requests :
    pc[q] = "done" =>
      /\ writes[q] = (IF kind[q] = "nil" THEN 0 ELSE 1)
      /\ dropped[q] # NoMessage => reply[q] = Plain("servfail")
      /\ kind[q] \in Networks /\ verdict[q] # "answer" => reply[q] = Plain("servfail")
      /\ reply[q].truncated => over[q] = "tcp"

(* A snapshot differs from a consistent one by no more than the requests   *)
(* that were in flight while it was being taken; without one it is exact.  *)
SnapshotSkewBounded ==
  loads = Len(LoadOrder) =>
    LET skew == Cardinality(overlap) IN
      /\ snapshot["total"] <= snapshot["udp"] + snapshot["tcp"] + skew
      /\ snapshot["udp"] + snapshot["tcp"] <= snapshot["total"] + skew
      /\ Responses(snapshot)
           <= snapshot["total"] + snapshot["invalid"] + snapshot["panics"] + skew
      /\ snapshot["timeouts"] + snapshot["errors"] <= snapshot["total"] + skew
      /\ snapshot["samples"] <= snapshot["total"] + skew
=============================================================================
