--------------------------- MODULE DnsHandlerProofs ---------------------------
(***************************************************************************)
(* Theorems about the DNS requests being served, for any finite set of     *)
(* requests and any answers of the upstream: one reply to each, counters   *)
(* that tell exactly what was served, and snapshots of them that are off   *)
(* by no more than the requests in flight.                                 *)
(***************************************************************************)
EXTENDS DnsHandler, FiniteSetTheorems, TLAPS

(* The exchange returned, as opposed to panicking or never being made.     *)
Returned == {"timeout", "error", "nil", "answer"}
Replying == {"respond", "write", "write_error", "done"}

(* Where a request stands, told by the rest of its state.                  *)
KindFollows(q) ==
  /\ pc[q] = "idle" => kind[q] = "none"
  /\ pc[q] = "received" => kind[q] \in Kinds
  /\ pc[q] \in {"network", "forward", "exchange", "latency", "sample", "classify"}
       => kind[q] \in Networks
  /\ pc[q] \in {"panic", "respond", "write", "write_error"} => kind[q] \in Networks \cup {"empty"}
  /\ pc[q] = "done" => kind[q] \in Kinds

OverFollows(q) ==
  /\ pc[q] \in {"idle", "received", "network", "forward"} => over[q] = "none"
  /\ pc[q] \in {"exchange", "latency", "sample"} => over[q] # "none"
  /\ over[q] # "none" => kind[q] \in Networks /\ over[q] \in {kind[q], "tcp"}

VerdictFollows(q) ==
  /\ pc[q] \in {"idle", "received", "network", "forward", "exchange"} => verdict[q] = "none"
  /\ pc[q] \in {"latency", "sample"} => verdict[q] \in Returned
  /\ pc[q] = "classify" => verdict[q] \in {"timeout", "error", "nil", "no_forwarder"}
  /\ pc[q] = "panic" => Panicked(q)
  /\ pc[q] \in Replying \cup {"panic"} => (verdict[q] = "none" <=> kind[q] \notin Networks)
  /\ pc[q] # "exchange" => (over[q] # "none" <=> verdict[q] \in Returned \cup {"panic"})

ReplyFollows(q) ==
  /\ pc[q] \in {"idle", "received", "network", "forward", "exchange", "classify"}
       => reply[q] = NoMessage
  /\ pc[q] = "panic" /\ dropped[q] = NoMessage => reply[q] = NoMessage
  /\ pc[q] \in Replying /\ dropped[q] # NoMessage => reply[q] = Plain("servfail")
  /\ pc[q] \in {"respond", "write", "write_error"} => reply[q].rcode \in Rcodes
  /\ pc[q] \in {"latency", "sample"} /\ verdict[q] = "answer" => reply[q].rcode \in Rcodes
  /\ pc[q] \in {"latency", "sample"} /\ verdict[q] # "answer" => reply[q] = NoMessage
  /\ pc[q] \in Replying /\ kind[q] \in Networks /\ verdict[q] # "answer"
       => reply[q] = Plain("servfail")
  /\ reply[q].truncated => over[q] = "tcp"

WritesFollow(q) ==
  /\ writes[q] = (IF pc[q] = "write_error" \/ (pc[q] = "done" /\ kind[q] # "nil") THEN 1 ELSE 0)
  /\ pc[q] \notin {"write_error", "done"} => sent[q] = "none"
  /\ pc[q] = "write_error" => sent[q] = "failed"

DroppedFollows(q) ==
  dropped[q] # NoMessage =>
    dropped[q].rcode \in Rcodes /\ pc[q] \in Replying \cup {"panic"} /\ verdict[q] # "panic"

Follows(q) ==
  /\ KindFollows(q) /\ OverFollows(q) /\ VerdictFollows(q)
  /\ ReplyFollows(q) /\ WritesFollow(q) /\ DroppedFollows(q)

LocalInv == TypeOK /\ \A q \in Requests : Follows(q)

USE ConstantsAssumption DEF ConstantsAssumption

-----------------------------------------------------------------------------
(* A step of a request leaves the others alone.                            *)
LEMMA OthersKept ==
  ASSUME TypeOK, NEW q \in Requests, Receive(q) \/ Serve(q), NEW r \in Requests, r # q
  PROVE  /\ pc'[r] = pc[r] /\ kind'[r] = kind[r] /\ over'[r] = over[r]
         /\ verdict'[r] = verdict[r] /\ reply'[r] = reply[r]
         /\ writes'[r] = writes[r] /\ sent'[r] = sent[r] /\ dropped'[r] = dropped[r]
<1> USE DEF TypeOK, Goto, Add, ReplyWith
<1>1. CASE Receive(q)
  BY <1>1 DEF Receive
<1>2. CASE RejectInvalid(q)
  BY <1>2 DEF RejectInvalid
<1>3. CASE CountTotal(q) \/ CountNetwork(q)
  BY <1>3 DEF CountTotal, CountNetwork
<1>4. CASE Forward(q)
  BY <1>4 DEF Forward
<1>5. CASE FallBackToTCP(q)
  BY <1>5 DEF FallBackToTCP
<1>6. CASE ExchangeAnswers(q)
  BY <1>6 DEF ExchangeAnswers
<1>7. CASE ExchangeFails(q)
  BY <1>7 DEF ExchangeFails
<1>8. CASE ExchangePanics(q)
  BY <1>8 DEF ExchangePanics
<1>9. CASE RecordLatency(q) \/ RecordSample(q)
  BY <1>9 DEF RecordLatency, RecordSample
<1>10. CASE RecordFailure(q) \/ Recover(q)
  BY <1>10 DEF RecordFailure, Recover
<1>11. CASE CountResponse(q)
  BY <1>11 DEF CountResponse
<1>12. CASE Write(q) \/ WritePanics(q)
  BY <1>12 DEF Write, WritePanics
<1>13. CASE RecordWriteError(q)
  BY <1>13 DEF RecordWriteError
<1>14. QED
  BY <1>1, <1>2, <1>3, <1>4, <1>5, <1>6, <1>7, <1>8, <1>9, <1>10, <1>11, <1>12, <1>13 DEF Serve

-----------------------------------------------------------------------------
LEMMA InitLocal == Init => LocalInv
<1> SUFFICES ASSUME Init PROVE LocalInv
  OBVIOUS
<1>1. /\ forwarder \in BOOLEAN
      /\ pc \in [Requests -> Steps]
      /\ kind \in [Requests -> Kinds \cup {"none"}]
      /\ over \in [Requests -> Networks \cup {"none"}]
      /\ verdict \in [Requests -> Verdicts]
  BY DEF Init, Steps, Verdicts
<1>2. /\ reply \in [Requests -> Message \cup {NoMessage}]
      /\ sent \in [Requests -> {"none", "ok", "failed"}]
      /\ dropped \in [Requests -> Message \cup {NoMessage}]
      /\ overlap \subseteq Requests
  BY DEF Init
<1>3. /\ writes \in [Requests -> 0..1]
      /\ count \in [Counters -> Nat]
      /\ snapshot \in [Counters -> Nat]
  BY DEF Init
<1>4. loads \in 0..Len(LoadOrder)
  BY DEF Init, LoadOrder
<1>5. ASSUME NEW q \in Requests PROVE Follows(q)
  BY <1>5 DEF Init, Follows, KindFollows, OverFollows, VerdictFollows, ReplyFollows,
     WritesFollow, DroppedFollows, NoMessage, Networks, Kinds, Returned, Replying
<1>6. QED
  BY <1>1, <1>2, <1>3, <1>4, <1>5 DEF LocalInv, TypeOK

LEMMA AddTyped ==
  ASSUME TypeOK, NEW c, NEW n \in Nat, Add(c, n)
  PROVE  count' \in [Counters -> Nat]
<1>1. \A d \in Counters : count[d] \in Nat /\ count[d] + n \in Nat
  BY DEF TypeOK
<1>2. QED
  BY <1>1 DEF TypeOK, Add

LEMMA GotoTyped ==
  ASSUME TypeOK, NEW q \in Requests, NEW step \in Steps, Goto(q, step)
  PROVE  pc' \in [Requests -> Steps]
BY DEF TypeOK, Goto

LEMMA ReplyTyped ==
  ASSUME TypeOK, NEW q \in Requests, NEW r \in Rcodes, ReplyWith(q, Plain(r))
  PROVE  reply' \in [Requests -> Message \cup {NoMessage}]
<1>1. Plain(r) \in Message
  BY DEF Plain, Message
<1>2. QED
  BY <1>1 DEF TypeOK, ReplyWith

LEMMA TypeStep == LocalInv /\ [Next]_vars => TypeOK'
<1> SUFFICES ASSUME LocalInv, [Next]_vars PROVE TypeOK'
  OBVIOUS
<1>0. TypeOK
  BY DEF LocalInv
<1> USE DEF reader
<1>1. ASSUME NEW q \in Requests, Receive(q) PROVE TypeOK'
  <2>1. pc' \in [Requests -> Steps]
    BY <1>0, <1>1, GotoTyped DEF Receive, Steps
  <2>2. kind' \in [Requests -> Kinds \cup {"none"}]
    BY <1>0, <1>1 DEF TypeOK, Receive
  <2>3. overlap' \subseteq Requests
    BY <1>0, <1>1 DEF TypeOK, Receive
  <2>4. QED
    BY <1>0, <1>1, <2>1, <2>2, <2>3 DEF TypeOK, Receive
<1>2. ASSUME NEW q \in Requests, RejectInvalid(q) PROVE TypeOK'
  <2>1. count' \in [Counters -> Nat]
    BY <1>0, <1>2, AddTyped DEF RejectInvalid
  <2>2. pc' \in [Requests -> Steps]
    BY <1>0, <1>2, GotoTyped DEF RejectInvalid, Steps
  <2>3. reply' \in [Requests -> Message \cup {NoMessage}]
    BY <1>0, <1>2, ReplyTyped DEF TypeOK, RejectInvalid, Rcodes
  <2>4. QED
    BY <1>0, <1>2, <2>1, <2>2, <2>3 DEF TypeOK, RejectInvalid
<1>3. ASSUME NEW q \in Requests, CountTotal(q) \/ CountNetwork(q) PROVE TypeOK'
  <2>1. count' \in [Counters -> Nat]
    BY <1>0, <1>3, AddTyped DEF CountTotal, CountNetwork
  <2>2. pc' \in [Requests -> Steps]
    BY <1>0, <1>3, GotoTyped DEF CountTotal, CountNetwork, Steps
  <2>3. QED
    BY <1>0, <1>3, <2>1, <2>2 DEF TypeOK, CountTotal, CountNetwork
<1>4. ASSUME NEW q \in Requests, Forward(q) PROVE TypeOK'
  <2>1. kind[q] \in Networks
    BY <1>4 DEF LocalInv, Follows, KindFollows, Forward
  <2>2. pc' \in [Requests -> Steps]
    BY <1>0, <1>4, GotoTyped DEF Forward, Steps
  <2>3. over' \in [Requests -> Networks \cup {"none"}]
    BY <1>0, <1>4, <2>1 DEF TypeOK, Forward
  <2>4. verdict' \in [Requests -> Verdicts]
    BY <1>0, <1>4 DEF TypeOK, Forward, Verdicts
  <2>5. QED
    BY <1>0, <1>4, <2>2, <2>3, <2>4 DEF TypeOK, Forward
<1>5. ASSUME NEW q \in Requests, FallBackToTCP(q) PROVE TypeOK'
  BY <1>0, <1>5 DEF TypeOK, FallBackToTCP, Networks
<1>6. ASSUME NEW q \in Requests, ExchangeAnswers(q) PROVE TypeOK'
  <2>1. pc' \in [Requests -> Steps]
    BY <1>0, <1>6, GotoTyped DEF ExchangeAnswers, Steps
  <2>2. reply' \in [Requests -> Message \cup {NoMessage}]
    BY <1>0, <1>6 DEF TypeOK, ExchangeAnswers, ReplyWith
  <2>3. verdict' \in [Requests -> Verdicts]
    BY <1>0, <1>6 DEF TypeOK, ExchangeAnswers, Verdicts
  <2>4. QED
    BY <1>0, <1>6, <2>1, <2>2, <2>3 DEF TypeOK, ExchangeAnswers
<1>7. ASSUME NEW q \in Requests, ExchangeFails(q) \/ ExchangePanics(q) PROVE TypeOK'
  <2>1. pc' \in [Requests -> Steps]
    BY <1>0, <1>7, GotoTyped DEF ExchangeFails, ExchangePanics, Steps
  <2>2. verdict' \in [Requests -> Verdicts]
    BY <1>0, <1>7 DEF TypeOK, ExchangeFails, ExchangePanics, Verdicts
  <2>3. QED
    BY <1>0, <1>7, <2>1, <2>2 DEF TypeOK, ExchangeFails, ExchangePanics
<1>8. ASSUME NEW q \in Requests, RecordLatency(q) \/ RecordSample(q) PROVE TypeOK'
  <2>1. count' \in [Counters -> Nat]
    BY <1>0, <1>8, AddTyped DEF RecordLatency, RecordSample, Exchanges
  <2>2. pc' \in [Requests -> Steps]
    BY <1>0, <1>8, GotoTyped DEF RecordLatency, RecordSample, Steps
  <2>3. QED
    BY <1>0, <1>8, <2>1, <2>2 DEF TypeOK, RecordLatency, RecordSample
<1>9. ASSUME NEW q \in Requests, RecordFailure(q) \/ Recover(q) PROVE TypeOK'
  <2>1. count' \in [Counters -> Nat]
    BY <1>0, <1>9, AddTyped DEF RecordFailure, Recover
  <2>2. pc' \in [Requests -> Steps]
    BY <1>0, <1>9, GotoTyped DEF RecordFailure, Recover, AfterPanic, Steps
  <2>3. reply' \in [Requests -> Message \cup {NoMessage}]
    BY <1>0, <1>9, ReplyTyped DEF RecordFailure, Recover, FailureReply, Rcodes
  <2>4. QED
    BY <1>0, <1>9, <2>1, <2>2, <2>3 DEF TypeOK, RecordFailure, Recover
<1>10. ASSUME NEW q \in Requests, CountResponse(q) \/ RecordWriteError(q) PROVE TypeOK'
  <2>1. count' \in [Counters -> Nat]
    BY <1>0, <1>10, AddTyped DEF CountResponse, RecordWriteError
  <2>2. pc' \in [Requests -> Steps]
    BY <1>0, <1>10, GotoTyped DEF CountResponse, RecordWriteError, Steps
  <2>3. QED
    BY <1>0, <1>10, <2>1, <2>2 DEF TypeOK, CountResponse, RecordWriteError
<1>11. ASSUME NEW q \in Requests, Write(q) PROVE TypeOK'
  <2>1. writes[q] = 0
    BY <1>11 DEF LocalInv, Follows, WritesFollow, Write
  <2>2. pc' \in [Requests -> Steps]
    BY <1>0, <1>11, GotoTyped DEF Write, AfterWrite, Steps
  <2>3. writes' \in [Requests -> 0..1]
    BY <1>0, <1>11, <2>1 DEF TypeOK, Write
  <2>4. sent' \in [Requests -> {"none", "ok", "failed"}]
    BY <1>0, <1>11 DEF TypeOK, Write
  <2>5. QED
    BY <1>0, <1>11, <2>2, <2>3, <2>4 DEF TypeOK, Write
<1>12. ASSUME NEW q \in Requests, WritePanics(q) PROVE TypeOK'
  <2>1. pc' \in [Requests -> Steps]
    BY <1>0, <1>12, GotoTyped DEF WritePanics, Steps
  <2>2. dropped' \in [Requests -> Message \cup {NoMessage}]
    BY <1>0, <1>12 DEF TypeOK, WritePanics
  <2>3. QED
    BY <1>0, <1>12, <2>1, <2>2 DEF TypeOK, WritePanics
<1>13. CASE Load
  <2>1. loads' \in 0..Len(LoadOrder)
    BY <1>0, <1>13 DEF TypeOK, Load, LoadOrder
  <2>2. LoadOrder[loads + 1] \in Counters
    BY <1>0, <1>13 DEF TypeOK, Load, LoadOrder, Counters
  <2>3. snapshot' \in [Counters -> Nat]
    BY <1>0, <1>13, <2>2 DEF TypeOK, Load
  <2>4. overlap' \subseteq Requests
    BY <1>0, <1>13 DEF TypeOK, Load
  <2>5. QED
    BY <1>0, <1>13, <2>1, <2>3, <2>4 DEF TypeOK, Load
<1>14. CASE UNCHANGED vars
  BY <1>0, <1>14, SMTT(30) DEF TypeOK, vars
<1>15. QED
  BY <1>1, <1>2, <1>3, <1>4, <1>5, <1>6, <1>7, <1>8, <1>9, <1>10, <1>11, <1>12, <1>13, <1>14
  DEF Next, Serve

(* What is known of a request goes on being true when it takes a step.     *)
LEMMA OwnStep ==
  ASSUME LocalInv, NEW q \in Requests, Receive(q) \/ Serve(q)
  PROVE  Follows(q)'
<1>0. TypeOK /\ Follows(q)
  BY DEF LocalInv
<1> USE <1>0 DEF TypeOK, Goto, ReplyWith, Follows, KindFollows, OverFollows, VerdictFollows,
    ReplyFollows, WritesFollow, DroppedFollows, Panicked, Networks, Kinds, Returned, Replying,
    NoMessage, Plain
<1>1. CASE Receive(q)
  BY <1>1 DEF Receive
<1>2. CASE RejectInvalid(q)
  BY <1>2 DEF RejectInvalid, Rcodes
<1>3. CASE CountTotal(q) \/ CountNetwork(q)
  BY <1>3 DEF CountTotal, CountNetwork
<1>4. CASE Forward(q)
  BY <1>4 DEF Forward
<1>5. CASE FallBackToTCP(q)
  BY <1>5 DEF FallBackToTCP, FallsBack
<1>6. CASE ExchangeAnswers(q)
  <2>1. PICK m \in Messages : ~FallsBack(q, m) /\ reply' = [reply EXCEPT ![q] = m]
    BY <1>6 DEF ExchangeAnswers
  <2>2. m.rcode \in Rcodes /\ m.truncated \in BOOLEAN /\ reply'[q] = m
    BY <2>1 DEF Message
  <2>3. m.truncated => over[q] = "tcp"
    BY <1>6, <2>1 DEF FallsBack, ExchangeAnswers
  <2>4. QED
    BY <1>6, <2>2, <2>3 DEF ExchangeAnswers
<1>7. CASE ExchangeFails(q)
  BY <1>7 DEF ExchangeFails
<1>8. CASE ExchangePanics(q)
  BY <1>8 DEF ExchangePanics
<1>9. CASE RecordLatency(q) \/ RecordSample(q)
  BY <1>9 DEF RecordLatency, RecordSample
<1>10. CASE RecordFailure(q) \/ Recover(q)
  <2>1. reply'[q] = Plain("servfail")
    BY <1>10 DEF RecordFailure, Recover, FailureReply
  <2>2. reply'[q].rcode \in Rcodes /\ ~reply'[q].truncated
    BY <2>1 DEF Rcodes
  <2>3. CASE RecordFailure(q)
    BY <2>1, <2>2, <2>3 DEF RecordFailure
  <2>4. CASE Recover(q)
    BY <2>1, <2>2, <2>4 DEF Recover, AfterPanic
  <2>5. QED
    BY <1>10, <2>3, <2>4
<1>11. CASE CountResponse(q)
  BY <1>11 DEF CountResponse
<1>12. CASE Write(q)
  BY <1>12 DEF Write, AfterWrite
<1>13. CASE WritePanics(q)
  <2>1. /\ pc[q] = "write" /\ verdict[q] # "panic" /\ reply[q].rcode \in Rcodes
        /\ pc'[q] = "panic" /\ dropped'[q] = reply[q]
        /\ UNCHANGED <<kind, over, verdict, reply, writes, sent>>
    BY <1>13 DEF WritePanics
  <2>2. reply[q] # NoMessage
    BY <2>1 DEF Rcodes
  <2>3. KindFollows(q)' /\ OverFollows(q)' /\ VerdictFollows(q)' /\ WritesFollow(q)'
    BY <2>1, <2>2
  <2>4. ReplyFollows(q)' /\ DroppedFollows(q)'
    BY <2>1, <2>2
  <2>5. QED
    BY <2>3, <2>4
<1>14. CASE RecordWriteError(q)
  BY <1>14 DEF RecordWriteError
<1>15. QED
  BY <1>1, <1>2, <1>3, <1>4, <1>5, <1>6, <1>7, <1>8, <1>9, <1>10, <1>11, <1>12, <1>13, <1>14
  DEF Serve

LEMMA LocalStep == LocalInv /\ [Next]_vars => LocalInv'
<1> SUFFICES ASSUME LocalInv, [Next]_vars PROVE LocalInv'
  OBVIOUS
<1>1. TypeOK'
  BY TypeStep
<1>2. ASSUME NEW q \in Requests, Receive(q) \/ Serve(q), NEW r \in Requests PROVE Follows(r)'
  <2>1. CASE r = q
    BY <1>2, <2>1, OwnStep
  <2>2. CASE r # q
    BY <1>2, <2>2, OthersKept DEF LocalInv, Follows, KindFollows, OverFollows,
       VerdictFollows, ReplyFollows, WritesFollow, DroppedFollows, Panicked
  <2>3. QED
    BY <2>1, <2>2
<1>3. CASE Load \/ UNCHANGED vars
  <2>1. UNCHANGED <<pc, kind, over, verdict, reply, writes, sent, dropped>>
    BY <1>3 DEF Load, vars
  <2>2. QED
    BY <1>1, <2>1 DEF LocalInv, Follows, KindFollows, OverFollows,
       VerdictFollows, ReplyFollows, WritesFollow, DroppedFollows, Panicked
<1>4. QED
  BY <1>1, <1>2, <1>3 DEF LocalInv, Next

-----------------------------------------------------------------------------
(* What the registry has counted of a request so far, and what it has      *)
(* counted of it a second time: the latency of an exchange that fell back  *)
(* to TCP stands for two, and after a reply whose writing panicked the     *)
(* SERVFAIL sent in its place is counted too.                              *)
Replied == {"write", "write_error", "done"}

First(q) == IF dropped[q] = NoMessage THEN reply[q] ELSE dropped[q]

Once(q, c) ==
  \/ c = "total" /\ kind[q] \in Networks /\ pc[q] \notin {"idle", "received"}
  \/ c \in Networks /\ c = kind[q] /\ pc[q] \notin {"idle", "received", "network"}
  \/ c = "invalid" /\ kind[q] \in {"nil", "empty"} /\ pc[q] \notin {"idle", "received"}
  \/ c \in Rcodes /\ c = First(q).rcode /\ (pc[q] \notin Replied => dropped[q] # NoMessage)
  \/ c = "timeouts" /\ verdict[q] = "timeout" /\ pc[q] \notin {"latency", "sample", "classify"}
  \/ /\ c = "errors" /\ verdict[q] \in {"error", "nil", "no_forwarder"}
     /\ pc[q] \notin {"latency", "sample", "classify"}
  \/ c = "panics" /\ Panicked(q) /\ pc[q] \in Replying
  \/ c = "writeErrors" /\ sent[q] = "failed" /\ pc[q] = "done"
  \/ c = "samples" /\ verdict[q] \in Returned /\ pc[q] \notin {"latency", "sample"}
  \/ c = "latency" /\ verdict[q] \in Returned /\ pc[q] # "latency"

Twice(q, c) ==
  \/ c = "latency" /\ verdict[q] \in Returned /\ pc[q] # "latency" /\ over[q] # kind[q]
  \/ c \in Rcodes /\ c = reply[q].rcode /\ dropped[q] # NoMessage /\ pc[q] \in Replied

Has(q, c, n) == IF n = 1 THEN Once(q, c) ELSE Twice(q, c)

Having(c, n) == {q \in Requests : Has(q, c, n)}

Tallied ==
  \A c \in Counters : count[c] = Cardinality(Having(c, 1)) + Cardinality(Having(c, 2))

(* One request more is one more in the count.                              *)
LEMMA OneMore ==
  ASSUME NEW S \in SUBSET Requests, NEW q \in Requests \ S, NEW T, T = S \cup {q}
  PROVE  Cardinality(T) = Cardinality(S) + 1 /\ Cardinality(S) \in Nat
<1>1. IsFiniteSet(S)
  BY FS_Subset
<1>2. QED
  BY <1>1, FS_AddElement, FS_CardinalityType

LEMMA CountIsNat ==
  ASSUME NEW c, NEW n PROVE Cardinality(Having(c, n)) \in Nat
<1>1. IsFiniteSet(Having(c, n))
  BY FS_Subset DEF Having
<1>2. QED
  BY <1>1, FS_CardinalityType

(* A step that makes the registry count request q once more, under c.      *)
Counts(q, c, n) ==
  /\ count' = [count EXCEPT ![c] = @ + 1]
  /\ \A r \in Requests, d \in Counters, m \in 1..2 :
       Has(r, d, m)' <=> Has(r, d, m) \/ (r = q /\ d = c /\ m = n)
  /\ ~Has(q, c, n)

CountsNothing ==
  /\ count' = count
  /\ \A r \in Requests, d \in Counters, m \in 1..2 : Has(r, d, m)' <=> Has(r, d, m)

LEMMA CountsNothingKeeps ==
  ASSUME Tallied, CountsNothing PROVE Tallied'
<1>1. \A d \in Counters, m \in 1..2 : Having(d, m)' = Having(d, m)
  BY DEF CountsNothing, Having
<1>2. QED
  BY <1>1 DEF Tallied, CountsNothing

LEMMA CountsKeeps ==
  ASSUME TypeOK, Tallied, NEW q \in Requests, NEW c \in Counters, NEW n \in 1..2,
         Counts(q, c, n)
  PROVE  Tallied'
<1>1. ASSUME NEW d \in Counters, NEW m \in 1..2, d # c \/ m # n
      PROVE  Having(d, m)' = Having(d, m)
  BY <1>1 DEF Counts, Having
<1>2. Having(c, n)' = Having(c, n) \cup {q} /\ q \notin Having(c, n)
      /\ Having(c, n) \subseteq Requests
  BY DEF Counts, Having
<1>3. Cardinality(Having(c, n)') = Cardinality(Having(c, n)) + 1
  BY <1>2, OneMore
<1>4. count'[c] = count[c] + 1
  BY DEF Counts, TypeOK
<1>5. \A d \in Counters : d # c => count'[d] = count[d]
  BY DEF Counts, TypeOK
<1>6. count'[c] = Cardinality(Having(c, 1)') + Cardinality(Having(c, 2)')
  <2>1. count[c] = Cardinality(Having(c, 1)) + Cardinality(Having(c, 2))
    BY DEF Tallied
  <2>2. Cardinality(Having(c, 1)) \in Nat /\ Cardinality(Having(c, 2)) \in Nat
    BY CountIsNat
  <2>3. CASE n = 1
    BY <1>1, <1>3, <1>4, <2>1, <2>2, <2>3
  <2>4. CASE n = 2
    BY <1>1, <1>3, <1>4, <2>1, <2>2, <2>4
  <2>5. QED
    BY <2>3, <2>4
<1>7. ASSUME NEW d \in Counters, d # c
      PROVE  count'[d] = Cardinality(Having(d, 1)') + Cardinality(Having(d, 2)')
  BY <1>1, <1>5, <1>7 DEF Tallied
<1>8. QED
  BY <1>6, <1>7 DEF Tallied

LEMMA OthersHave ==
  ASSUME TypeOK, NEW q \in Requests, Receive(q) \/ Serve(q), NEW r \in Requests, r # q,
         NEW d, NEW m
  PROVE  Has(r, d, m)' <=> Has(r, d, m)
BY OthersKept DEF Has, Once, Twice, First, Panicked

(* It is enough to look at the request that takes the step.                *)
LEMMA CountsFirst ==
  ASSUME TypeOK, NEW q \in Requests, Receive(q) \/ Serve(q), NEW c \in Counters, Add(c, 1),
         ~Once(q, c), \A d \in Counters : Once(q, d)' <=> Once(q, d) \/ d = c,
         \A d \in Counters : Twice(q, d)' <=> Twice(q, d)
  PROVE  Counts(q, c, 1)
<1>1. \A d \in Counters, m \in 1..2 : Has(q, d, m)' <=> Has(q, d, m) \/ (d = c /\ m = 1)
  BY DEF Has
<1>2. \A r \in Requests, d \in Counters, m \in 1..2 : r # q => (Has(r, d, m)' <=> Has(r, d, m))
  BY OthersHave
<1>3. ~Has(q, c, 1)
  BY DEF Has
<1>4. QED
  BY <1>1, <1>2, <1>3 DEF Counts, Add

LEMMA CountsSecond ==
  ASSUME TypeOK, NEW q \in Requests, Receive(q) \/ Serve(q), NEW c \in Counters, Add(c, 1),
         ~Twice(q, c), \A d \in Counters : Twice(q, d)' <=> Twice(q, d) \/ d = c,
         \A d \in Counters : Once(q, d)' <=> Once(q, d)
  PROVE  Counts(q, c, 2)
<1>1. \A d \in Counters, m \in 1..2 : Has(q, d, m)' <=> Has(q, d, m) \/ (d = c /\ m = 2)
  BY DEF Has
<1>2. \A r \in Requests, d \in Counters, m \in 1..2 : r # q => (Has(r, d, m)' <=> Has(r, d, m))
  BY OthersHave
<1>3. ~Has(q, c, 2)
  BY DEF Has
<1>4. QED
  BY <1>1, <1>2, <1>3 DEF Counts, Add

LEMMA CountsNone ==
  ASSUME TypeOK, NEW q \in Requests, Receive(q) \/ Serve(q), count' = count,
         \A d \in Counters : Once(q, d)' <=> Once(q, d),
         \A d \in Counters : Twice(q, d)' <=> Twice(q, d)
  PROVE  CountsNothing
<1>1. \A d \in Counters, m \in 1..2 : Has(q, d, m)' <=> Has(q, d, m)
  BY DEF Has
<1>2. QED
  BY <1>1, OthersHave DEF CountsNothing

(* The steps that add nothing to the registry have nothing to add.         *)
Silent(q) ==
  \/ Receive(q) \/ Forward(q) \/ FallBackToTCP(q) \/ ExchangeAnswers(q)
  \/ ExchangeFails(q) \/ ExchangePanics(q) \/ Write(q) \/ WritePanics(q)

Counting(q) ==
  \/ RejectInvalid(q) \/ CountTotal(q) \/ CountNetwork(q) \/ RecordSample(q)
  \/ RecordFailure(q) \/ Recover(q) \/ CountResponse(q) \/ RecordWriteError(q)

LEMMA SilentSteps ==
  ASSUME LocalInv, NEW q \in Requests, Silent(q) PROVE CountsNothing
<1> USE DEF Silent
<1>0. TypeOK /\ Follows(q)
  BY DEF LocalInv
<1>1. ASSUME NEW d \in Counters PROVE Once(q, d)' <=> Once(q, d)
  <2> USE <1>0 DEF TypeOK, Goto, ReplyWith, Follows, KindFollows, OverFollows, VerdictFollows,
      ReplyFollows, WritesFollow, DroppedFollows, Networks, Kinds, Returned, Replying, Replied,
      Panicked, NoMessage, Once, First
  <2>1. CASE Receive(q)
    BY <2>1 DEF Receive
  <2>2. CASE Forward(q)
    BY <2>2 DEF Forward
  <2>3. CASE FallBackToTCP(q)
    BY <2>3 DEF FallBackToTCP
  <2>4. CASE ExchangeAnswers(q)
    BY <2>4 DEF ExchangeAnswers
  <2>5. CASE ExchangeFails(q)
    BY <2>5 DEF ExchangeFails
  <2>6. CASE ExchangePanics(q)
    BY <2>6 DEF ExchangePanics
  <2>7. CASE Write(q)
    BY <2>7 DEF Write, AfterWrite
  <2>8. CASE WritePanics(q)
    BY <2>8 DEF WritePanics, Rcodes
  <2>9. QED
    BY <2>1, <2>2, <2>3, <2>4, <2>5, <2>6, <2>7, <2>8
<1>2. ASSUME NEW d \in Counters PROVE Twice(q, d)' <=> Twice(q, d)
  <2> USE <1>0 DEF TypeOK, Goto, ReplyWith, Follows, KindFollows, OverFollows, VerdictFollows,
      ReplyFollows, WritesFollow, DroppedFollows, Networks, Kinds, Returned, Replying, Replied,
      Panicked, NoMessage, Twice
  <2>1. CASE Receive(q)
    BY <2>1 DEF Receive
  <2>2. CASE Forward(q)
    BY <2>2 DEF Forward
  <2>3. CASE FallBackToTCP(q)
    BY <2>3 DEF FallBackToTCP
  <2>4. CASE ExchangeAnswers(q)
    BY <2>4 DEF ExchangeAnswers
  <2>5. CASE ExchangeFails(q)
    BY <2>5 DEF ExchangeFails
  <2>6. CASE ExchangePanics(q)
    BY <2>6 DEF ExchangePanics
  <2>7. CASE Write(q)
    BY <2>7 DEF Write, AfterWrite
  <2>8. CASE WritePanics(q)
    BY <2>8 DEF WritePanics
  <2>9. QED
    BY <2>1, <2>2, <2>3, <2>4, <2>5, <2>6, <2>7, <2>8
<1>3. count' = count
  BY DEF Receive, Forward, FallBackToTCP, ExchangeAnswers, ExchangeFails, ExchangePanics, Write,
     WritePanics
<1>4. Receive(q) \/ Serve(q)
  BY DEF Serve
<1>5. QED
  BY <1>0, <1>1, <1>2, <1>3, <1>4, CountsNone

(* The other steps, each under one counter.                                *)
LEMMA InvalidCounted ==
  ASSUME LocalInv, NEW q \in Requests, RejectInvalid(q)
  PROVE  \E c \in Counters, n \in 1..2 : Counts(q, c, n)
<1>0. TypeOK /\ Follows(q) /\ Serve(q)
  BY DEF LocalInv, Serve
<1> DEFINE c == "invalid"
<1> USE <1>0 DEF RejectInvalid, TypeOK, Goto, ReplyWith, Follows, KindFollows, OverFollows,
    VerdictFollows, ReplyFollows, WritesFollow, DroppedFollows, Networks, Kinds, Rcodes,
    Returned, Replying, Replied, NoMessage, Panicked
<1>1. c \in Counters /\ Add(c, 1)
  BY DEF Counters
<1>2. ~Once(q, c)
  BY DEF Once, First
<1>3. ASSUME NEW d \in Counters PROVE Once(q, d)' <=> Once(q, d) \/ d = c
  BY DEF Once, First
<1>4. ASSUME NEW d \in Counters PROVE Twice(q, d)' <=> Twice(q, d)
  BY DEF Twice
<1>5. Counts(q, c, 1)
  BY <1>0, <1>1, <1>2, <1>3, <1>4, CountsFirst
<1>6. QED
  BY <1>1, <1>5

LEMMA TotalCounted ==
  ASSUME LocalInv, NEW q \in Requests, CountTotal(q)
  PROVE  \E c \in Counters, n \in 1..2 : Counts(q, c, n)
<1>0. TypeOK /\ Follows(q) /\ Serve(q)
  BY DEF LocalInv, Serve
<1> DEFINE c == "total"
<1> USE <1>0 DEF CountTotal, TypeOK, Goto, ReplyWith, Follows, KindFollows, OverFollows,
    VerdictFollows, ReplyFollows, WritesFollow, DroppedFollows, Networks, Kinds, Rcodes,
    Returned, Replying, Replied, NoMessage, Panicked
<1>1. c \in Counters /\ Add(c, 1)
  BY DEF Counters
<1>2. ~Once(q, c)
  BY DEF Once, First
<1>3. ASSUME NEW d \in Counters PROVE Once(q, d)' <=> Once(q, d) \/ d = c
  BY DEF Once, First
<1>4. ASSUME NEW d \in Counters PROVE Twice(q, d)' <=> Twice(q, d)
  BY DEF Twice
<1>5. Counts(q, c, 1)
  BY <1>0, <1>1, <1>2, <1>3, <1>4, CountsFirst
<1>6. QED
  BY <1>1, <1>5

LEMMA NetworkCounted ==
  ASSUME LocalInv, NEW q \in Requests, CountNetwork(q)
  PROVE  \E c \in Counters, n \in 1..2 : Counts(q, c, n)
<1>0. TypeOK /\ Follows(q) /\ Serve(q)
  BY DEF LocalInv, Serve
<1> DEFINE c == kind[q]
<1> USE <1>0 DEF CountNetwork, NetworkCounter, TypeOK, Goto, ReplyWith, Follows,
    KindFollows, OverFollows, VerdictFollows, ReplyFollows, WritesFollow, DroppedFollows,
    Networks, Kinds, Rcodes, Returned, Replying, Replied, NoMessage, Panicked
<1>1. c \in Counters /\ Add(c, 1)
  BY DEF Counters
<1>2. ~Once(q, c)
  BY DEF Once, First
<1>3. ASSUME NEW d \in Counters PROVE Once(q, d)' <=> Once(q, d) \/ d = c
  BY DEF Once, First
<1>4. ASSUME NEW d \in Counters PROVE Twice(q, d)' <=> Twice(q, d)
  BY DEF Twice
<1>5. Counts(q, c, 1)
  BY <1>0, <1>1, <1>2, <1>3, <1>4, CountsFirst
<1>6. QED
  BY <1>1, <1>5

LEMMA SampleCounted ==
  ASSUME LocalInv, NEW q \in Requests, RecordSample(q)
  PROVE  \E c \in Counters, n \in 1..2 : Counts(q, c, n)
<1>0. TypeOK /\ Follows(q) /\ Serve(q)
  BY DEF LocalInv, Serve
<1> DEFINE c == "samples"
<1> USE <1>0 DEF RecordSample, TypeOK, Goto, ReplyWith, Follows, KindFollows, OverFollows,
    VerdictFollows, ReplyFollows, WritesFollow, DroppedFollows, Networks, Kinds, Rcodes,
    Returned, Replying, Replied, NoMessage, Panicked
<1>1. c \in Counters /\ Add(c, 1)
  BY DEF Counters
<1>2. ~Once(q, c)
  BY DEF Once, First
<1>3. ASSUME NEW d \in Counters PROVE Once(q, d)' <=> Once(q, d) \/ d = c
  BY DEF Once, First
<1>4. ASSUME NEW d \in Counters PROVE Twice(q, d)' <=> Twice(q, d)
  BY DEF Twice
<1>5. Counts(q, c, 1)
  BY <1>0, <1>1, <1>2, <1>3, <1>4, CountsFirst
<1>6. QED
  BY <1>1, <1>5

LEMMA FailureCounted ==
  ASSUME LocalInv, NEW q \in Requests, RecordFailure(q)
  PROVE  \E c \in Counters, n \in 1..2 : Counts(q, c, n)
<1>0. TypeOK /\ Follows(q) /\ Serve(q)
  BY DEF LocalInv, Serve
<1> DEFINE c == IF verdict[q] = "timeout" THEN "timeouts" ELSE "errors"
<1> USE <1>0 DEF RecordFailure, FailureReply, Plain, TypeOK, Goto, ReplyWith, Follows,
    KindFollows, OverFollows, VerdictFollows, ReplyFollows, WritesFollow, DroppedFollows,
    Networks, Kinds, Rcodes, Returned, Replying, Replied, NoMessage, Panicked
<1>1. c \in Counters /\ Add(c, 1)
  BY DEF Counters
<1>2. ~Once(q, c)
  BY DEF Once, First
<1>3. ASSUME NEW d \in Counters PROVE Once(q, d)' <=> Once(q, d) \/ d = c
  BY DEF Once, First
<1>4. ASSUME NEW d \in Counters PROVE Twice(q, d)' <=> Twice(q, d)
  BY DEF Twice
<1>5. Counts(q, c, 1)
  BY <1>0, <1>1, <1>2, <1>3, <1>4, CountsFirst
<1>6. QED
  BY <1>1, <1>5

LEMMA PanicCounted ==
  ASSUME LocalInv, NEW q \in Requests, Recover(q)
  PROVE  \E c \in Counters, n \in 1..2 : Counts(q, c, n)
<1>0. TypeOK /\ Follows(q) /\ Serve(q)
  BY DEF LocalInv, Serve
<1> DEFINE c == "panics"
<1> USE <1>0 DEF Recover, AfterPanic, FailureReply, Plain, TypeOK, Goto, ReplyWith, Follows,
    KindFollows, OverFollows, VerdictFollows, ReplyFollows, WritesFollow, DroppedFollows,
    Networks, Kinds, Rcodes, Returned, Replying, Replied, NoMessage, Panicked
<1>1. c \in Counters /\ Add(c, 1)
  BY DEF Counters
<1>2. ~Once(q, c)
  BY DEF Once, First
<1>3. ASSUME NEW d \in Counters PROVE Once(q, d)' <=> Once(q, d) \/ d = c
  BY DEF Once, First
<1>4. ASSUME NEW d \in Counters PROVE Twice(q, d)' <=> Twice(q, d)
  BY DEF Twice
<1>5. Counts(q, c, 1)
  BY <1>0, <1>1, <1>2, <1>3, <1>4, CountsFirst
<1>6. QED
  BY <1>1, <1>5

LEMMA WriteErrorCounted ==
  ASSUME LocalInv, NEW q \in Requests, RecordWriteError(q)
  PROVE  \E c \in Counters, n \in 1..2 : Counts(q, c, n)
<1>0. TypeOK /\ Follows(q) /\ Serve(q)
  BY DEF LocalInv, Serve
<1> DEFINE c == "writeErrors"
<1> USE <1>0 DEF RecordWriteError, TypeOK, Goto, ReplyWith, Follows, KindFollows, OverFollows,
    VerdictFollows, ReplyFollows, WritesFollow, DroppedFollows, Networks, Kinds, Rcodes,
    Returned, Replying, Replied, NoMessage, Panicked
<1>1. c \in Counters /\ Add(c, 1)
  BY DEF Counters
<1>2. ~Once(q, c)
  BY DEF Once, First
<1>3. ASSUME NEW d \in Counters PROVE Once(q, d)' <=> Once(q, d) \/ d = c
  BY DEF Once, First
<1>4. ASSUME NEW d \in Counters PROVE Twice(q, d)' <=> Twice(q, d)
  BY DEF Twice
<1>5. Counts(q, c, 1)
  BY <1>0, <1>1, <1>2, <1>3, <1>4, CountsFirst
<1>6. QED
  BY <1>1, <1>5

(* The SERVFAIL sent after a reply whose writing panicked is the second    *)
(* reply counted of that request.                                          *)
LEMMA ResponseCounted ==
  ASSUME LocalInv, NEW q \in Requests, CountResponse(q)
  PROVE  \E c \in Counters, n \in 1..2 : Counts(q, c, n)
<1>0. TypeOK /\ Follows(q) /\ Serve(q)
  BY DEF LocalInv, Serve
<1> DEFINE c == reply[q].rcode
<1> USE <1>0 DEF CountResponse, TypeOK, Goto, Follows, KindFollows, OverFollows,
    VerdictFollows, ReplyFollows, WritesFollow, DroppedFollows, Networks, Kinds, Rcodes,
    Returned, Replying, Replied, NoMessage, Panicked
<1>1. c \in Counters /\ Add(c, 1) /\ c \in Rcodes
  BY DEF Counters
<1>2. CASE dropped[q] = NoMessage
  <2>1. ~Once(q, c)
    BY <1>2 DEF Once, First
  <2>2. ASSUME NEW d \in Counters PROVE Once(q, d)' <=> Once(q, d) \/ d = c
    BY <1>2 DEF Once, First
  <2>3. ASSUME NEW d \in Counters PROVE Twice(q, d)' <=> Twice(q, d)
    BY <1>2 DEF Twice
  <2>4. Counts(q, c, 1)
    BY <1>0, <1>1, <2>1, <2>2, <2>3, CountsFirst
  <2>5. QED
    BY <1>1, <2>4
<1>3. CASE dropped[q] # NoMessage
  <2>1. ~Twice(q, c)
    BY <1>3 DEF Twice
  <2>2. ASSUME NEW d \in Counters PROVE Twice(q, d)' <=> Twice(q, d) \/ d = c
    BY <1>3 DEF Twice
  <2>3. ASSUME NEW d \in Counters PROVE Once(q, d)' <=> Once(q, d)
    BY <1>3 DEF Once, First
  <2>4. Counts(q, c, 2)
    BY <1>0, <1>1, <2>1, <2>2, <2>3, CountsSecond
  <2>5. QED
    BY <1>1, <2>4
<1>4. QED
  BY <1>2, <1>3

(* A latency stands for one exchange, or two.                              *)
LEMMA LatencyCounted ==
  ASSUME LocalInv, Tallied, NEW q \in Requests, RecordLatency(q)
  PROVE  Tallied'
<1>0. TypeOK /\ Follows(q) /\ Serve(q)
  BY DEF LocalInv, Serve
<1> DEFINE H1 == Having("latency", 1)
           H2 == Having("latency", 2)
<1>1. verdict[q] \in Returned /\ ~Once(q, "latency") /\ ~Twice(q, "latency")
  BY <1>0 DEF RecordLatency, Follows, VerdictFollows, Once, Twice, Networks, Rcodes
<1>2. ASSUME NEW d \in Counters
      PROVE  /\ Once(q, d)' <=> Once(q, d) \/ d = "latency"
             /\ Twice(q, d)' <=> Twice(q, d) \/ (d = "latency" /\ over[q] # kind[q])
  <2> USE <1>0, <1>1 DEF RecordLatency, TypeOK, Goto, Follows, OverFollows, VerdictFollows,
      DroppedFollows, Networks, Rcodes, Returned, Replying, Replied
  <2>1. Once(q, d)' <=> Once(q, d) \/ d = "latency"
    BY DEF Once, First, Panicked
  <2>2. Twice(q, d)' <=> Twice(q, d) \/ (d = "latency" /\ over[q] # kind[q])
    BY DEF Twice
  <2>3. QED
    BY <2>1, <2>2
<1>3. ASSUME NEW d \in Counters, d # "latency", NEW n \in 1..2 PROVE Having(d, n)' = Having(d, n)
  BY <1>0, <1>2, <1>3, OthersHave DEF Having, Has
<1>4. "latency" \in Counters
  BY DEF Counters
<1>5. H1' = H1 \cup {q} /\ q \notin H1 /\ H1 \subseteq Requests
  BY <1>0, <1>1, <1>2, <1>4, OthersHave DEF Having, Has
<1>6. /\ over[q] # kind[q] => H2' = H2 \cup {q} /\ q \notin H2
      /\ over[q] = kind[q] => H2' = H2
      /\ H2 \subseteq Requests
  <2>1. /\ ~Has(q, "latency", 2)
        /\ Has(q, "latency", 2)' <=> over[q] # kind[q]
    BY <1>1, <1>2, <1>4 DEF Has
  <2>2. \A r \in Requests : r # q => (Has(r, "latency", 2)' <=> Has(r, "latency", 2))
    BY <1>0, OthersHave
  <2>3. QED
    BY <2>1, <2>2 DEF Having
<1>7. Cardinality(H1) \in Nat /\ Cardinality(H2) \in Nat
  BY CountIsNat
<1> HIDE DEF H1, H2
<1>8. Cardinality(H1') = Cardinality(H1) + 1
  BY <1>5, OneMore
<1>9. Cardinality(H2') = Cardinality(H2) + Exchanges(q) - 1
  <2>1. CASE over[q] = kind[q]
    BY <1>6, <1>7, <2>1 DEF Exchanges
  <2>2. CASE over[q] # kind[q]
    <3>1. Cardinality(H2') = Cardinality(H2) + 1
      BY <1>6, <2>2, OneMore
    <3>2. QED
      BY <1>7, <2>2, <3>1 DEF Exchanges
  <2>3. QED
    BY <2>1, <2>2
<1>10. Exchanges(q) \in 1..2
  BY DEF Exchanges
<1>11. count'["latency"] = count["latency"] + Exchanges(q)
  BY <1>0, <1>4 DEF RecordLatency, Add, TypeOK
<1>12. count["latency"] = Cardinality(H1) + Cardinality(H2)
  BY <1>4 DEF Tallied, H1, H2
<1>13. count'["latency"] = Cardinality(H1') + Cardinality(H2')
  BY <1>7, <1>8, <1>9, <1>10, <1>11, <1>12
<1>14. ASSUME NEW d \in Counters, d # "latency"
       PROVE  count'[d] = Cardinality(Having(d, 1)') + Cardinality(Having(d, 2)')
  <2>1. count'[d] = count[d]
    BY <1>0, <1>14 DEF RecordLatency, Add, TypeOK
  <2>2. QED
    BY <1>3, <1>14, <2>1 DEF Tallied
<1>15. QED
  BY <1>13, <1>14 DEF Tallied, H1, H2

LEMMA InitTallied == Init => Tallied
<1> SUFFICES ASSUME Init PROVE Tallied
  OBVIOUS
<1>1. ASSUME NEW c, NEW n PROVE Having(c, n) = {}
  BY DEF Init, Having, Has, Once, Twice, First, Panicked, Networks, Rcodes, Returned, Replying,
     Replied, NoMessage
<1>2. Cardinality({}) = 0
  BY FS_EmptySet
<1>3. QED
  BY <1>1, <1>2 DEF Tallied, Init

LEMMA CountingSteps ==
  ASSUME LocalInv, NEW q \in Requests, Counting(q)
  PROVE  \E c \in Counters, n \in 1..2 : Counts(q, c, n)
BY InvalidCounted, TotalCounted, NetworkCounted, SampleCounted, FailureCounted,
   PanicCounted, ResponseCounted, WriteErrorCounted DEF Counting

LEMMA TalliedStep == LocalInv /\ Tallied /\ [Next]_vars => Tallied'
<1> SUFFICES ASSUME LocalInv, Tallied, [Next]_vars PROVE Tallied'
  OBVIOUS
<1>0. TypeOK
  BY DEF LocalInv
<1>1. CASE Load \/ UNCHANGED vars
  <2>1. UNCHANGED <<pc, kind, over, verdict, reply, sent, dropped, count>>
    BY <1>1 DEF Load, vars
  <2>2. CountsNothing
    BY <2>1 DEF CountsNothing, Has, Once, Twice, First, Panicked
  <2>3. QED
    BY <2>2, CountsNothingKeeps
<1>2. ASSUME NEW q \in Requests, Receive(q) \/ Serve(q) PROVE Tallied'
  <2>1. CASE Silent(q)
    BY <2>1, SilentSteps, CountsNothingKeeps
  <2>2. CASE Counting(q)
    BY <1>0, <2>2, CountingSteps, CountsKeeps
  <2>3. CASE RecordLatency(q)
    BY <2>3, LatencyCounted
  <2>4. QED
    BY <1>2, <2>1, <2>2, <2>3 DEF Serve, Silent, Counting
<1>3. QED
  BY <1>1, <1>2 DEF Next

-----------------------------------------------------------------------------
(* The invariant holds in every reachable state.                           *)
THEOREM Inductive == Spec => [](LocalInv /\ Tallied)
<1>1. QED
  BY InitLocal, InitTallied, LocalStep, TalliedStep, PTL DEF Spec

(* Every variable stays in its type (DnsHandler!TypeOK).                   *)
THEOREM TypeCorrect == Spec => []TypeOK
<1>1. LocalInv => TypeOK
  BY DEF LocalInv
<1>2. QED
  BY Inductive, <1>1, PTL

(* Every request that carries a message is answered once, SERVFAIL when    *)
(* the upstream did not answer (DnsHandler!AnsweredOnce).                  *)
THEOREM OneAnswer == Spec => []AnsweredOnce
<1>1. LocalInv => AnsweredOnce
  BY DEF LocalInv, AnsweredOnce, Follows, KindFollows, VerdictFollows, ReplyFollows,
     WritesFollow, Replying
<1>2. QED
  BY Inductive, <1>1, PTL

LEMMA DisjointUnion ==
  ASSUME NEW S \in SUBSET Requests, NEW T \in SUBSET Requests, S \cap T = {}
  PROVE  Cardinality(S \cup T) = Cardinality(S) + Cardinality(T)
<1>1. IsFiniteSet(S) /\ IsFiniteSet(T)
  BY FS_Subset
<1>2. Cardinality(S) \in Nat /\ Cardinality(T) \in Nat
  BY <1>1, FS_CardinalityType
<1>3. Cardinality(S \cup T) = Cardinality(S) + Cardinality(T) - Cardinality(S \cap T)
  BY <1>1, FS_Union
<1>4. Cardinality(S \cap T) = 0
  BY FS_EmptySet
<1>5. QED
  BY <1>2, <1>3, <1>4

(* The replies under a code are those sent in the end and those whose      *)
(* writing panicked, however one groups them.                              *)
LEMMA RepliesRegrouped ==
  ASSUME LocalInv, AtRest, NEW r \in Rcodes
  PROVE  Cardinality(Having(r, 1)) + Cardinality(Having(r, 2))
           = Cardinality({q \in Requests : reply[q].rcode = r})
             + Cardinality({q \in Requests : dropped[q].rcode = r})
<1>1. \A q \in Requests : Follows(q) /\ pc[q] \in {"idle", "done"}
  BY DEF LocalInv, AtRest, InFlight
<1> DEFINE A == {q \in Requests : reply[q].rcode = r}
           B == {q \in Requests : dropped[q].rcode = r}
           P == {q \in Requests : dropped[q] # NoMessage}
<1>2. /\ Having(r, 1) = B \cup (A \ P) /\ B \cap (A \ P) = {}
      /\ Having(r, 2) = A \cap P
  <2> USE <1>1 DEF Having, Has, Follows, DroppedFollows, ReplyFollows, KindFollows, Networks,
      Rcodes, NoMessage, Replied
  <2>1. Having(r, 1) = B \cup (A \ P)
    BY DEF Once, First
  <2>2. B \cap (A \ P) = {}
    OBVIOUS
  <2>3. Having(r, 2) = A \cap P
    BY DEF Twice
  <2>4. QED
    BY <2>1, <2>2, <2>3
<1>3. A = (A \cap P) \cup (A \ P) /\ (A \cap P) \cap (A \ P) = {}
  OBVIOUS
<1>4. /\ B \in SUBSET Requests /\ A \cap P \in SUBSET Requests
      /\ A \ P \in SUBSET Requests
  OBVIOUS
<1> HIDE DEF A, B, P
<1>5. Cardinality(A) = Cardinality(A \cap P) + Cardinality(A \ P)
  BY <1>3, <1>4, DisjointUnion
<1>6. Cardinality(Having(r, 1)) = Cardinality(B) + Cardinality(A \ P)
  BY <1>2, <1>4, DisjointUnion
<1>7. \A S \in SUBSET Requests : Cardinality(S) \in Nat
  BY FS_Subset, FS_CardinalityType
<1>8. /\ Cardinality(B) \in Nat /\ Cardinality(A \cap P) \in Nat
      /\ Cardinality(A \ P) \in Nat
  BY <1>4, <1>7
<1>9. Cardinality(Having(r, 1)) + Cardinality(Having(r, 2)) = Cardinality(A) + Cardinality(B)
  <2>1. Cardinality(Having(r, 2)) = Cardinality(A \cap P)
    BY <1>2
  <2>2. QED
    BY <1>5, <1>6, <1>8, <2>1
<1>10. QED
  BY <1>9 DEF A, B

(* Nothing else is counted twice.                                          *)
LEMMA NotTwice ==
  ASSUME NEW c, c \notin Rcodes \cup {"latency"}
  PROVE  Having(c, 2) = {} /\ Cardinality(Having(c, 2)) = 0
<1>1. Having(c, 2) = {}
  BY DEF Having, Has, Twice
<1>2. QED
  BY <1>1, FS_EmptySet

LEMMA CountedAlone ==
  ASSUME Tallied, NEW c \in Counters, c \notin Rcodes \cup {"latency"}
  PROVE  count[c] = Cardinality(Having(c, 1))
<1>1. Cardinality(Having(c, 1)) \in Nat
  BY CountIsNat
<1>2. QED
  BY <1>1, NotTwice DEF Tallied

LEMMA RestTallies == LocalInv /\ Tallied => CountersAddUp
<1> SUFFICES ASSUME LocalInv, Tallied, AtRest PROVE CountersAddUp
  BY DEF CountersAddUp
<1>1. \A q \in Requests : Follows(q) /\ pc[q] \in {"idle", "done"}
  BY DEF LocalInv, AtRest, InFlight
<1> DEFINE Of(n) == {q \in Requests : kind[q] = n}
<1>2. \A c \in Counters \ (Rcodes \cup {"latency"}) : count[c] = Cardinality(Having(c, 1))
  BY CountedAlone
<1>3. \A n \in Networks : Having(n, 1) = Of(n)
  BY <1>1 DEF Having, Has, Once, Follows, KindFollows, Networks, Rcodes
<1>4. Having("invalid", 1) = {q \in Requests : kind[q] \in {"nil", "empty"}}
  BY <1>1 DEF Having, Has, Once, Follows, KindFollows, Networks, Rcodes
<1>5. Having("timeouts", 1) = {q \in Requests : verdict[q] = "timeout"}
  BY <1>1 DEF Having, Has, Once, Follows, VerdictFollows, Networks, Rcodes, Replying
<1>6. Having("errors", 1) = {q \in Requests : verdict[q] \in {"error", "nil", "no_forwarder"}}
  BY <1>1 DEF Having, Has, Once, Follows, VerdictFollows, Networks, Rcodes, Replying
<1>7. Having("panics", 1) = {q \in Requests : Panicked(q)}
  BY <1>1 DEF Having, Has, Once, Follows, VerdictFollows, DroppedFollows, Panicked, Networks,
     Rcodes, Replying
<1>8. Having("writeErrors", 1) = {q \in Requests : sent[q] = "failed"}
  BY <1>1 DEF Having, Has, Once, Follows, WritesFollow, Networks, Rcodes
<1>9. Having("samples", 1) = {q \in Requests : verdict[q] \in {"timeout", "error", "nil", "answer"}}
  BY <1>1 DEF Having, Has, Once, Networks, Rcodes, Returned
<1>10. Having("latency", 1) = Having("samples", 1)
  BY <1>1 DEF Having, Has, Once, Networks, Rcodes
<1>11. Having("latency", 2) = {q \in Requests :
                                verdict[q] # "panic" /\ over[q] \notin {"none", kind[q]}}
  BY <1>1 DEF Having, Has, Twice, Follows, OverFollows, VerdictFollows, Networks, Rcodes,
     Returned, Kinds
<1>12. count["total"] = count["udp"] + count["tcp"]
  <2>1. Having("total", 1) = Of("udp") \cup Of("tcp") /\ Of("udp") \cap Of("tcp") = {}
    BY <1>1 DEF Having, Has, Once, Follows, KindFollows, Networks, Rcodes
  <2>2. Of("udp") \in SUBSET Requests /\ Of("tcp") \in SUBSET Requests
    OBVIOUS
  <2>3. Cardinality(Having("total", 1)) = Cardinality(Of("udp")) + Cardinality(Of("tcp"))
    BY <2>1, <2>2, DisjointUnion
  <2>4. QED
    BY <1>2, <1>3, <2>3 DEF Counters, Networks, Rcodes
<1>13. \A n \in Networks : count[n] = Cardinality(Of(n))
  BY <1>2, <1>3 DEF Counters, Networks, Rcodes
<1>14. \A r \in Rcodes : count[r] = Cardinality({q \in Requests : reply[q].rcode = r})
                                    + Cardinality({q \in Requests : dropped[q].rcode = r})
  <2>1. Rcodes \subseteq Counters
    BY DEF Rcodes, Counters
  <2>2. QED
    BY <2>1, RepliesRegrouped DEF Tallied
<1>15. /\ count["invalid"] = Cardinality(Having("invalid", 1))
       /\ count["timeouts"] = Cardinality(Having("timeouts", 1))
       /\ count["errors"] = Cardinality(Having("errors", 1))
       /\ count["panics"] = Cardinality(Having("panics", 1))
       /\ count["writeErrors"] = Cardinality(Having("writeErrors", 1))
       /\ count["samples"] = Cardinality(Having("samples", 1))
  BY <1>2 DEF Counters, Rcodes
<1>16. count["latency"] = count["samples"] + Cardinality(Having("latency", 2))
  BY <1>10, <1>15 DEF Tallied, Counters
<1>17. QED
  BY <1>4, <1>5, <1>6, <1>7, <1>8, <1>9, <1>11, <1>12, <1>13, <1>14, <1>15, <1>16
  DEF CountersAddUp

(* With no request in flight the counters are exactly what was served      *)
(* (DnsHandler!CountersAddUp).                                             *)
THEOREM CountersExact == Spec => []CountersAddUp
<1>1. QED
  BY Inductive, RestTallies, PTL

-----------------------------------------------------------------------------
(* THE SNAPSHOT.  What has been loaded of a counter is the size of the     *)
(* sets of requests it had counted then.  It has counted them ever since,  *)
(* and the others it counts by now are among those in flight meanwhile.    *)
Loaded(c) ==
  \E S1 \in SUBSET Having(c, 1), S2 \in SUBSET Having(c, 2) :
    /\ snapshot[c] = Cardinality(S1) + Cardinality(S2)
    /\ Having(c, 1) \ S1 \subseteq overlap /\ Having(c, 2) \ S2 \subseteq overlap

Skew ==
  /\ Snapshotting => /\ \A q \in Requests : InFlight(q) => q \in overlap
                     /\ \A i \in 2..loads : Loaded(LoadOrder[i])
  /\ SnapshotSkewBounded

LEMMA OrderFacts ==
  /\ Len(LoadOrder) = 14
  /\ \A i \in 1..14 : LoadOrder[i] \in Counters
  /\ \A i \in 2..14 : LoadOrder[i] # "latency"
  /\ \A i, j \in 1..14 : i # j => LoadOrder[i] # LoadOrder[j]
  /\ LoadOrder[2] = "samples" /\ LoadOrder[3] = "total" /\ LoadOrder[4] = "udp"
  /\ LoadOrder[5] = "tcp" /\ LoadOrder[6] = "noerror" /\ LoadOrder[7] = "nxdomain"
  /\ LoadOrder[8] = "servfail" /\ LoadOrder[9] = "other" /\ LoadOrder[10] = "timeouts"
  /\ LoadOrder[11] = "errors" /\ LoadOrder[12] = "invalid" /\ LoadOrder[14] = "panics"
BY DEF LoadOrder, Counters

(* A request that has been counted stays counted.                          *)
LEMMA HasStays ==
  ASSUME LocalInv, NEW q \in Requests, Receive(q) \/ Serve(q),
         NEW r \in Requests, NEW c \in Counters, NEW n \in 1..2, Has(r, c, n)
  PROVE  Has(r, c, n)'
<1>1. CASE Silent(q)
  BY <1>1, SilentSteps DEF CountsNothing
<1>2. CASE Counting(q)
  <2>1. PICK d \in Counters, m \in 1..2 : Counts(q, d, m)
    BY <1>2, CountingSteps
  <2>2. QED
    BY <2>1 DEF Counts
<1>3. CASE RecordLatency(q)
  <2>1. TypeOK /\ Follows(q)
    BY DEF LocalInv
  <2>2. CASE r = q
    <3> USE <1>3, <2>1, <2>2 DEF RecordLatency, TypeOK, Goto, Has, Follows, OverFollows,
        VerdictFollows, DroppedFollows, Networks, Rcodes, Returned, Replying, Replied
    <3>1. CASE n = 1
      BY <3>1 DEF Once, First, Panicked
    <3>2. CASE n = 2
      BY <3>2 DEF Twice
    <3>3. QED
      BY <3>1, <3>2
  <2>3. CASE r # q
    BY <2>1, <2>3, OthersHave
  <2>4. QED
    BY <2>2, <2>3
<1>4. QED
  BY <1>1, <1>2, <1>3 DEF Serve, Silent, Counting

(* A request only moves while it is in flight, or as it arrives.           *)
LEMMA MovesInFlight ==
  ASSUME LocalInv, NEW q \in Requests, Receive(q) \/ Serve(q), Snapshotting,
         InFlight(q) => q \in overlap
  PROVE  q \in overlap' /\ overlap \subseteq overlap'
<1>1. CASE Receive(q)
  BY <1>1 DEF Receive
<1>2. CASE Serve(q)
  <2>1. pc[q] \notin {"idle", "done"}
    BY <1>2 DEF Serve, RejectInvalid, CountTotal, CountNetwork, Forward, FallBackToTCP,
       ExchangeAnswers, ExchangeFails, ExchangePanics, RecordLatency, RecordSample,
       RecordFailure, Recover, CountResponse, Write, WritePanics, RecordWriteError
  <2>2. overlap' = overlap
    BY <1>2 DEF Serve, RejectInvalid, CountTotal, CountNetwork, Forward, FallBackToTCP,
       ExchangeAnswers, ExchangeFails, ExchangePanics, RecordLatency, RecordSample,
       RecordFailure, Recover, CountResponse, Write, WritePanics, RecordWriteError
  <2>3. QED
    BY <2>1, <2>2 DEF InFlight
<1>3. QED
  BY <1>1, <1>2

LEMMA ReaderWaits ==
  ASSUME NEW q \in Requests, Receive(q) \/ Serve(q)
  PROVE  UNCHANGED reader /\ (~Snapshotting => overlap' = overlap)
BY DEF Receive, Serve, RejectInvalid, CountTotal, CountNetwork, Forward, FallBackToTCP,
   ExchangeAnswers, ExchangeFails, ExchangePanics, RecordLatency, RecordSample,
   RecordFailure, Recover, CountResponse, Write, WritePanics, RecordWriteError

LEMMA LoadedStays ==
  ASSUME LocalInv, NEW q \in Requests, Receive(q) \/ Serve(q), Snapshotting,
         InFlight(q) => q \in overlap, NEW c \in Counters, Loaded(c)
  PROVE  Loaded(c)'
<1>0. TypeOK
  BY DEF LocalInv
<1>1. PICK S1 \in SUBSET Having(c, 1), S2 \in SUBSET Having(c, 2) :
        /\ snapshot[c] = Cardinality(S1) + Cardinality(S2)
        /\ Having(c, 1) \ S1 \subseteq overlap /\ Having(c, 2) \ S2 \subseteq overlap
  BY DEF Loaded
<1>2. q \in overlap' /\ overlap \subseteq overlap' /\ snapshot' = snapshot
  BY MovesInFlight, ReaderWaits DEF reader
<1>3. S1 \subseteq Having(c, 1)' /\ S2 \subseteq Having(c, 2)'
  BY <1>1, HasStays DEF Having
<1>4. \A r \in Requests, n \in 1..2 : r # q => (Has(r, c, n)' <=> Has(r, c, n))
  BY <1>0, OthersHave
<1>5. Having(c, 1)' \ S1 \subseteq overlap' /\ Having(c, 2)' \ S2 \subseteq overlap'
  BY <1>1, <1>2, <1>4 DEF Having
<1>6. QED
  BY <1>1, <1>2, <1>3, <1>5 DEF Loaded

LEMMA Covered ==
  ASSUME NEW S \in SUBSET Requests, NEW T \in SUBSET Requests, NEW O \in SUBSET Requests,
         S \subseteq T \cup O
  PROVE  /\ Cardinality(S) <= Cardinality(T) + Cardinality(O)
         /\ Cardinality(S) \in Nat /\ Cardinality(T) \in Nat /\ Cardinality(O) \in Nat
<1>1. IsFiniteSet(S) /\ IsFiniteSet(T) /\ IsFiniteSet(O)
  BY FS_Subset
<1>2. IsFiniteSet(T \cup O) /\ IsFiniteSet(T \cap O)
  BY <1>1, FS_Subset, FS_Union
<1>3. /\ Cardinality(S) \in Nat /\ Cardinality(T) \in Nat /\ Cardinality(O) \in Nat
      /\ Cardinality(T \cap O) \in Nat
  BY <1>1, <1>2, FS_CardinalityType
<1>4. Cardinality(T \cup O) = Cardinality(T) + Cardinality(O) - Cardinality(T \cap O)
  BY <1>1, FS_Union
<1>5. Cardinality(S) <= Cardinality(T \cup O)
  BY <1>2, FS_Subset
<1>6. QED
  BY <1>3, <1>4, <1>5

LEMMA DisjointCover ==
  ASSUME NEW S1 \in SUBSET Requests, NEW S2 \in SUBSET Requests, NEW T \in SUBSET Requests,
         NEW O \in SUBSET Requests, S1 \cap S2 = {}, S1 \cup S2 \subseteq T \cup O
  PROVE  Cardinality(S1) + Cardinality(S2) <= Cardinality(T) + Cardinality(O)
<1>1. Cardinality(S1 \cup S2) = Cardinality(S1) + Cardinality(S2)
  BY DisjointUnion
<1>2. Cardinality(S1 \cup S2) <= Cardinality(T) + Cardinality(O)
  BY Covered
<1>3. QED
  BY <1>1, <1>2

(* What the counters say of a request outside the overlap: it had been     *)
(* served before the first load, or has not arrived.                       *)
LEMMA OutsideOverlap ==
  ASSUME LocalInv, NEW r \in Requests, ~InFlight(r)
  PROVE  /\ Once(r, "total") <=> Once(r, "udp") \/ Once(r, "tcp")
         /\ \A c \in Rcodes : Once(r, c) => Once(r, "total") \/ Once(r, "invalid")
         /\ \A c \in {"timeouts", "errors", "samples"} : Once(r, c) => Once(r, "total")
<1>1. Follows(r) /\ pc[r] \in {"idle", "done"}
  BY DEF LocalInv, InFlight
<1>2. Once(r, "total") <=> Once(r, "udp") \/ Once(r, "tcp")
  BY <1>1 DEF Once, Follows, KindFollows, Networks, Rcodes
<1>3. ASSUME NEW c \in Rcodes, Once(r, c) PROVE Once(r, "total") \/ Once(r, "invalid")
  <2>1. pc[r] = "done" /\ kind[r] \in Kinds
    BY <1>1, <1>3 DEF Once, Follows, KindFollows, DroppedFollows, Networks, Rcodes,
       Replied, Replying
  <2>2. QED
    BY <2>1 DEF Once, Kinds
<1>4. ASSUME NEW c \in {"timeouts", "errors", "samples"}, Once(r, c) PROVE Once(r, "total")
  <2>1. verdict[r] # "none"
    BY <1>4 DEF Once, Networks, Rcodes, Returned
  <2>2. pc[r] = "done" /\ kind[r] \in Networks
    BY <1>1, <2>1 DEF Follows, VerdictFollows, Replying
  <2>3. QED
    BY <2>2 DEF Once
<1>5. QED
  BY <1>2, <1>3, <1>4

(* A request is counted under one network, one failure, and each time      *)
(* under one code; the second time something has panicked.                 *)
LEMMA CountedOnce ==
  ASSUME NEW r \in Requests
  PROVE  /\ ~(Once(r, "udp") /\ Once(r, "tcp"))
         /\ ~(Once(r, "timeouts") /\ Once(r, "errors"))
         /\ \A c, d \in Rcodes : c # d => /\ ~(Once(r, c) /\ Once(r, d))
                                        /\ ~(Twice(r, c) /\ Twice(r, d))
         /\ \A c \in Rcodes : Twice(r, c) => Once(r, "panics")
<1>1. ~(Once(r, "udp") /\ Once(r, "tcp")) /\ ~(Once(r, "timeouts") /\ Once(r, "errors"))
  BY DEF Once, Networks, Rcodes
<1>2. ASSUME NEW c \in Rcodes, NEW d \in Rcodes, c # d
      PROVE  ~(Once(r, c) /\ Once(r, d)) /\ ~(Twice(r, c) /\ Twice(r, d))
  BY <1>2 DEF Once, Twice, Networks, Rcodes
<1>3. ASSUME NEW c \in Rcodes, Twice(r, c) PROVE Once(r, "panics")
  BY <1>3 DEF Once, Twice, Panicked, Rcodes, Replied, Replying
<1>4. QED
  BY <1>1, <1>2, <1>3

(* Two sets of requests counted under each code, no request under two.     *)
LEMMA FourSets ==
  ASSUME NEW A \in SUBSET Requests, NEW B \in SUBSET Requests, NEW C \in SUBSET Requests,
         NEW D \in SUBSET Requests, NEW T \in SUBSET Requests, NEW O \in SUBSET Requests,
         A \cap B = {}, C \cap D = {}, (A \cup B) \cap (C \cup D) = {},
         (A \cup B) \cup (C \cup D) \subseteq T \cup O
  PROVE  Cardinality(A) + Cardinality(B) + Cardinality(C) + Cardinality(D)
           <= Cardinality(T) + Cardinality(O)
<1>1. A \cup B \in SUBSET Requests /\ C \cup D \in SUBSET Requests
  OBVIOUS
<1>2. /\ Cardinality(A \cup B) = Cardinality(A) + Cardinality(B)
      /\ Cardinality(C \cup D) = Cardinality(C) + Cardinality(D)
  BY DisjointUnion
<1>3. Cardinality(A \cup B) + Cardinality(C \cup D) <= Cardinality(T) + Cardinality(O)
  BY <1>1, DisjointCover
<1>4. \A S \in SUBSET Requests : Cardinality(S) \in Nat
  BY FS_Subset, FS_CardinalityType
<1>5. QED
  BY <1>2, <1>3, <1>4

(* What the sets behind a loaded counter are: F of requests counted once,  *)
(* G of requests counted a second time.                                    *)
Behind(F, G, c) ==
  /\ snapshot[c] = Cardinality(F) + Cardinality(G)
  /\ \A r \in F : Once(r, c)
  /\ \A r \in Requests \ overlap : Once(r, c) => r \in F
  /\ \A r \in G : Twice(r, c)

Seen(F, c) ==
  /\ snapshot[c] = Cardinality(F)
  /\ \A r \in F : Once(r, c)
  /\ \A r \in Requests \ overlap : Once(r, c) => r \in F

LEMMA BehindLoaded ==
  ASSUME NEW c, Loaded(c)
  PROVE  \E F, G \in SUBSET Requests : Behind(F, G, c)
<1>1. PICK F \in SUBSET Having(c, 1), G \in SUBSET Having(c, 2) :
        /\ snapshot[c] = Cardinality(F) + Cardinality(G)
        /\ Having(c, 1) \ F \subseteq overlap
  BY DEF Loaded
<1>2. Behind(F, G, c) /\ F \in SUBSET Requests /\ G \in SUBSET Requests
  BY <1>1 DEF Behind, Having, Has
<1>3. QED
  BY <1>2

LEMMA SeenLoaded ==
  ASSUME NEW c, Loaded(c), c \notin Rcodes \cup {"latency"}
  PROVE  \E F \in SUBSET Requests : Seen(F, c)
<1>1. PICK F \in SUBSET Requests, G \in SUBSET Requests : Behind(F, G, c)
  BY BehindLoaded
<1>2. G = {} /\ Cardinality({}) = 0
  BY <1>1, FS_EmptySet DEF Behind, Twice
<1>3. Cardinality(F) \in Nat
  BY FS_Subset, FS_CardinalityType
<1>4. Seen(F, c)
  BY <1>1, <1>2, <1>3 DEF Behind, Seen
<1>5. QED
  BY <1>4

(* The panics are loaded last, so that what is counted a second time is    *)
(* counted among them.                                                     *)
LEMMA SkewAtEnd ==
  ASSUME LocalInv, Tallied, \A q \in Requests : InFlight(q) => q \in overlap,
         \A i \in 2..13 : Loaded(LoadOrder[i])
  PROVE  LET skew == Cardinality(overlap) IN
           /\ snapshot["total"] <= snapshot["udp"] + snapshot["tcp"] + skew
           /\ snapshot["udp"] + snapshot["tcp"] <= snapshot["total"] + skew
           /\ Responses(snapshot)
                <= snapshot["total"] + snapshot["invalid"] + count["panics"] + skew
           /\ snapshot["timeouts"] + snapshot["errors"] <= snapshot["total"] + skew
           /\ snapshot["samples"] <= snapshot["total"] + skew
<1>1. /\ Loaded("samples") /\ Loaded("total") /\ Loaded("udp") /\ Loaded("tcp")
      /\ Loaded("noerror") /\ Loaded("nxdomain") /\ Loaded("servfail") /\ Loaded("other")
      /\ Loaded("timeouts") /\ Loaded("errors") /\ Loaded("invalid")
  <2>1. \A i \in 2..12 : Loaded(LoadOrder[i])
    OBVIOUS
  <2>2. QED
    BY <2>1, OrderFacts
<1>2. \A c \in {"samples", "total", "udp", "tcp", "timeouts", "errors", "invalid"} :
        c \notin Rcodes \cup {"latency"}
  BY DEF Rcodes
<1>3. PICK T \in SUBSET Requests : Seen(T, "total")
  BY <1>1, <1>2, SeenLoaded
<1>4. PICK U \in SUBSET Requests : Seen(U, "udp")
  BY <1>1, <1>2, SeenLoaded
<1>5. PICK C \in SUBSET Requests : Seen(C, "tcp")
  BY <1>1, <1>2, SeenLoaded
<1>6. PICK I \in SUBSET Requests : Seen(I, "invalid")
  BY <1>1, <1>2, SeenLoaded
<1>7. PICK M \in SUBSET Requests : Seen(M, "samples")
  BY <1>1, <1>2, SeenLoaded
<1>8. PICK X \in SUBSET Requests : Seen(X, "timeouts")
  BY <1>1, <1>2, SeenLoaded
<1>9. PICK E \in SUBSET Requests : Seen(E, "errors")
  BY <1>1, <1>2, SeenLoaded
<1>10. PICK R1 \in SUBSET Requests, S1 \in SUBSET Requests : Behind(R1, S1, "noerror")
  BY <1>1, BehindLoaded
<1>11. PICK R2 \in SUBSET Requests, S2 \in SUBSET Requests : Behind(R2, S2, "nxdomain")
  BY <1>1, BehindLoaded
<1>12. PICK R3 \in SUBSET Requests, S3 \in SUBSET Requests : Behind(R3, S3, "servfail")
  BY <1>1, BehindLoaded
<1>13. PICK R4 \in SUBSET Requests, S4 \in SUBSET Requests : Behind(R4, S4, "other")
  BY <1>1, BehindLoaded
<1>14. \A r \in Requests \ overlap :
         /\ Once(r, "total") <=> Once(r, "udp") \/ Once(r, "tcp")
         /\ \A c \in Rcodes : Once(r, c) => Once(r, "total") \/ Once(r, "invalid")
         /\ \A c \in {"timeouts", "errors", "samples"} : Once(r, c) => Once(r, "total")
  BY OutsideOverlap
<1>15. overlap \in SUBSET Requests
  BY DEF LocalInv, TypeOK
<1>16. \A S \in SUBSET Requests : Cardinality(S) \in Nat
  BY FS_Subset, FS_CardinalityType
<1>17. U \cap C = {} /\ Cardinality(U \cup C) = Cardinality(U) + Cardinality(C)
  <2>1. U \cap C = {}
    BY <1>4, <1>5, CountedOnce DEF Seen
  <2>2. QED
    BY <2>1, DisjointUnion
<1>18. snapshot["total"] <= snapshot["udp"] + snapshot["tcp"] + Cardinality(overlap)
  <2>1. T \subseteq (U \cup C) \cup overlap
    BY <1>3, <1>4, <1>5, <1>14 DEF Seen
  <2>2. U \cup C \in SUBSET Requests
    OBVIOUS
  <2>3. Cardinality(T) <= Cardinality(U \cup C) + Cardinality(overlap)
    BY <1>15, <2>1, <2>2, Covered
  <2>4. QED
    BY <1>3, <1>4, <1>5, <1>17, <2>3 DEF Seen
<1>19. snapshot["udp"] + snapshot["tcp"] <= snapshot["total"] + Cardinality(overlap)
  <2>1. U \cup C \subseteq T \cup overlap
    BY <1>3, <1>4, <1>5, <1>14 DEF Seen
  <2>2. Cardinality(U) + Cardinality(C) <= Cardinality(T) + Cardinality(overlap)
    BY <1>15, <1>17, <2>1, DisjointCover
  <2>3. QED
    BY <1>3, <1>4, <1>5, <2>2 DEF Seen
<1>20. snapshot["timeouts"] + snapshot["errors"] <= snapshot["total"] + Cardinality(overlap)
  <2>1. X \cap E = {}
    BY <1>8, <1>9, CountedOnce DEF Seen
  <2>2. X \cup E \subseteq T \cup overlap
    BY <1>3, <1>8, <1>9, <1>14 DEF Seen
  <2>3. Cardinality(X) + Cardinality(E) <= Cardinality(T) + Cardinality(overlap)
    BY <1>15, <2>1, <2>2, DisjointCover
  <2>4. QED
    BY <1>3, <1>8, <1>9, <2>3 DEF Seen
<1>21. snapshot["samples"] <= snapshot["total"] + Cardinality(overlap)
  <2>1. M \subseteq T \cup overlap
    BY <1>3, <1>7, <1>14 DEF Seen
  <2>2. Cardinality(M) <= Cardinality(T) + Cardinality(overlap)
    BY <1>15, <2>1, Covered
  <2>3. QED
    BY <1>3, <1>7, <2>2 DEF Seen
<1>22. Responses(snapshot)
         <= snapshot["total"] + snapshot["invalid"] + count["panics"] + Cardinality(overlap)
  <2>1. {"noerror", "nxdomain", "servfail", "other"} = Rcodes
    BY DEF Rcodes
  <2> DEFINE P == Having("panics", 1)
  <2>2. P \in SUBSET Requests /\ count["panics"] = Cardinality(P)
    BY CountedAlone DEF Having, Counters, Rcodes
  <2>3. R1 \cap R2 = {} /\ R3 \cap R4 = {} /\ (R1 \cup R2) \cap (R3 \cup R4) = {}
    BY <1>10, <1>11, <1>12, <1>13, <2>1, CountedOnce DEF Behind
  <2>4. S1 \cap S2 = {} /\ S3 \cap S4 = {} /\ (S1 \cup S2) \cap (S3 \cup S4) = {}
    BY <1>10, <1>11, <1>12, <1>13, <2>1, CountedOnce DEF Behind
  <2>5. (R1 \cup R2) \cup (R3 \cup R4) \subseteq (T \cup I) \cup overlap
    BY <1>3, <1>6, <1>10, <1>11, <1>12, <1>13, <1>14, <2>1 DEF Seen, Behind
  <2>6. (S1 \cup S2) \cup (S3 \cup S4) \subseteq P \cup {}
    BY <1>10, <1>11, <1>12, <1>13, <2>1, CountedOnce DEF Behind, Having, Has
  <2> HIDE DEF P
  <2>7. T \cup I \in SUBSET Requests /\ {} \in SUBSET Requests
    OBVIOUS
  <2>8. Cardinality(R1) + Cardinality(R2) + Cardinality(R3) + Cardinality(R4)
          <= Cardinality(T \cup I) + Cardinality(overlap)
    BY <1>15, <2>3, <2>5, <2>7, FourSets
  <2>9. Cardinality(S1) + Cardinality(S2) + Cardinality(S3) + Cardinality(S4)
          <= Cardinality(P) + Cardinality({})
    BY <2>2, <2>4, <2>6, <2>7, FourSets
  <2>10. Cardinality(T \cup I) <= Cardinality(T) + Cardinality(I)
    BY <2>7, Covered
  <2>11. Cardinality({}) = 0
    BY FS_EmptySet
  <2>12. Responses(snapshot)
          = (Cardinality(R1) + Cardinality(S1)) + (Cardinality(R2) + Cardinality(S2))
            + (Cardinality(R3) + Cardinality(S3)) + (Cardinality(R4) + Cardinality(S4))
    BY <1>10, <1>11, <1>12, <1>13 DEF Responses, Behind
  <2>13. snapshot["total"] = Cardinality(T) /\ snapshot["invalid"] = Cardinality(I)
    BY <1>3, <1>6 DEF Seen
  <2>14. /\ Cardinality(R1) \in Nat /\ Cardinality(R2) \in Nat /\ Cardinality(R3) \in Nat
         /\ Cardinality(R4) \in Nat /\ Cardinality(S1) \in Nat /\ Cardinality(S2) \in Nat
         /\ Cardinality(S3) \in Nat /\ Cardinality(S4) \in Nat /\ Cardinality(T) \in Nat
         /\ Cardinality(I) \in Nat /\ Cardinality(overlap) \in Nat /\ Cardinality(P) \in Nat
         /\ Cardinality(T \cup I) \in Nat
    BY <1>15, <1>16, <2>2, <2>7
  <2>15. QED
    BY <2>2, <2>8, <2>9, <2>10, <2>11, <2>12, <2>13, <2>14
<1>23. QED
  BY <1>18, <1>19, <1>20, <1>21, <1>22

LEMMA SkewStep == LocalInv /\ Tallied /\ Skew /\ [Next]_vars => Skew'
<1> SUFFICES ASSUME LocalInv, Tallied, Skew, [Next]_vars PROVE Skew'
  OBVIOUS
<1>0. TypeOK /\ Len(LoadOrder) = 14
  BY OrderFacts DEF LocalInv
<1>1. ASSUME NEW q \in Requests, Receive(q) \/ Serve(q) PROVE Skew'
  <2>1. loads' = loads /\ snapshot' = snapshot /\ (Snapshotting' <=> Snapshotting)
    BY <1>1, ReaderWaits DEF reader, Snapshotting
  <2>2. ASSUME Snapshotting, NEW r \in Requests, InFlight(r)' PROVE r \in overlap'
    <3>1. q \in overlap' /\ overlap \subseteq overlap'
      BY <1>1, <2>2, MovesInFlight DEF Skew
    <3>2. r # q => (InFlight(r)' <=> InFlight(r))
      BY <1>0, <1>1, OthersKept DEF InFlight
    <3>3. QED
      BY <2>2, <3>1, <3>2 DEF Skew
  <2>3. ASSUME Snapshotting, NEW i \in 2..loads PROVE Loaded(LoadOrder[i])'
    <3>1. i \in 2..14 /\ LoadOrder[i] \in Counters /\ Loaded(LoadOrder[i])
      BY <1>0, <2>3, OrderFacts DEF Skew, Snapshotting
    <3> DEFINE c == LoadOrder[i]
    <3> HIDE DEF c
    <3>2. c \in Counters /\ Loaded(c)
      BY <3>1 DEF c
    <3>3. Loaded(c)'
      BY <1>1, <2>3, <3>2, LoadedStays DEF Skew
    <3>4. QED
      BY <3>3 DEF c
  <2>4. SnapshotSkewBounded'
    <3>1. loads = 14 => overlap' = overlap
      BY <1>0, <1>1, ReaderWaits DEF Snapshotting
    <3>2. QED
      BY <1>0, <2>1, <3>1 DEF Skew, SnapshotSkewBounded, Responses
  <2>5. QED
    BY <2>1, <2>2, <2>3, <2>4 DEF Skew
<1>2. CASE Load
  <2> DEFINE c == LoadOrder[loads + 1]
  <2>1. /\ loads' = loads + 1 /\ loads \in 0..13
        /\ snapshot' = [snapshot EXCEPT ![c] = count[c]]
        /\ UNCHANGED <<pc, kind, over, verdict, reply, sent, dropped, count>>
        /\ overlap' = IF loads = 0 THEN {q \in Requests : InFlight(q)} ELSE overlap
    BY <1>0, <1>2 DEF Load, TypeOK
  <2>2. c \in Counters /\ (loads # 0 => c # "latency")
    BY <2>1, OrderFacts
  <2>3. \A d \in Counters : snapshot'[d] = IF d = c THEN count[c] ELSE snapshot[d]
    BY <1>0, <2>1 DEF TypeOK
  <2>4. \A d, n : Having(d, n)' = Having(d, n)
    BY <2>1 DEF Having, Has, Once, Twice, First, Panicked
  <2>5. \A q \in Requests : InFlight(q)' <=> InFlight(q)
    BY <2>1 DEF InFlight
  <2> HIDE DEF c
  <2>6. ASSUME Snapshotting' PROVE \A q \in Requests : InFlight(q)' => q \in overlap'
    <3>1. loads # 0 => Snapshotting
      BY <1>0, <2>1 DEF Snapshotting
    <3>2. QED
      BY <2>1, <2>5, <3>1 DEF Skew
  <2>7. ASSUME Snapshotting', NEW i \in 2..loads' PROVE Loaded(LoadOrder[i])'
    <3>1. i \in 2..(loads + 1) /\ loads # 0 /\ overlap' = overlap /\ Snapshotting
      BY <1>0, <2>1, <2>7 DEF Snapshotting
    <3>2. CASE i = loads + 1
      <4> DEFINE d == LoadOrder[i]
      <4>1. d = c
        BY <3>2 DEF c
      <4> HIDE DEF d
      <4>2. snapshot'[d] = Cardinality(Having(d, 1)) + Cardinality(Having(d, 2))
        BY <2>2, <2>3, <3>1, <4>1 DEF Tallied
      <4>3. Loaded(d)'
        BY <2>4, <4>2 DEF Loaded
      <4>4. QED
        BY <4>3 DEF d
    <3>3. CASE i \in 2..loads
      <4> DEFINE d == LoadOrder[i]
      <4>1. d \in Counters /\ d # c /\ Loaded(d)
        BY <2>1, <3>1, <3>3, OrderFacts DEF Skew, c
      <4> HIDE DEF d
      <4>2. snapshot'[d] = snapshot[d]
        BY <2>3, <4>1
      <4>3. Loaded(d)'
        BY <2>4, <3>1, <4>1, <4>2 DEF Loaded
      <4>4. QED
        BY <4>3 DEF d
    <3>4. QED
      BY <2>1, <3>1, <3>2, <3>3
  <2>8. SnapshotSkewBounded'
    <3>1. SUFFICES ASSUME loads' = 14 PROVE SnapshotSkewBounded'
      BY <1>0 DEF SnapshotSkewBounded
    <3>2. loads = 13 /\ overlap' = overlap /\ c = "panics" /\ Snapshotting
      BY <1>0, <2>1, <3>1, OrderFacts DEF c, Snapshotting
    <3>3. \A d \in Counters \ {"panics"} : snapshot'[d] = snapshot[d]
      BY <2>3, <3>2
    <3>4. /\ \A q \in Requests : InFlight(q) => q \in overlap
          /\ \A i \in 2..13 : Loaded(LoadOrder[i])
      BY <3>2 DEF Skew
    <3>5. /\ snapshot'["total"] = snapshot["total"] /\ snapshot'["udp"] = snapshot["udp"]
          /\ snapshot'["tcp"] = snapshot["tcp"] /\ snapshot'["invalid"] = snapshot["invalid"]
          /\ snapshot'["timeouts"] = snapshot["timeouts"]
          /\ snapshot'["errors"] = snapshot["errors"]
          /\ snapshot'["samples"] = snapshot["samples"]
          /\ Responses(snapshot') = Responses(snapshot)
          /\ snapshot'["panics"] = count["panics"]
      BY <2>3, <3>2, <3>3 DEF Counters, Responses
    <3>6. QED
      BY <3>2, <3>4, <3>5, SkewAtEnd DEF SnapshotSkewBounded
  <2>9. QED
    BY <2>6, <2>7, <2>8 DEF Skew
<1>3. CASE UNCHANGED vars
  BY <1>3 DEF vars, reader, Skew, Snapshotting, InFlight, Loaded, Having, Has, Once,
     Twice, First, Panicked, SnapshotSkewBounded, Responses
<1>4. QED
  BY <1>1, <1>2, <1>3 DEF Next

(* A snapshot taken while requests are being served is off by no more than *)
(* the number of them in flight meanwhile, and exact when there are none   *)
(* (Snapshot of metrics.go loads one counter after the other).             *)
THEOREM SnapshotIsClose == Spec => []SnapshotSkewBounded
<1>1. Init => Skew
  <2> SUFFICES ASSUME Init PROVE Skew
    OBVIOUS
  <2>1. loads = 0 /\ Len(LoadOrder) = 14
    BY OrderFacts DEF Init
  <2>2. QED
    BY <2>1 DEF Skew, Snapshotting, SnapshotSkewBounded
<1>2. Skew => SnapshotSkewBounded
  BY DEF Skew
<1>3. QED
  BY <1>1, <1>2, SkewStep, Inductive, PTL DEF Spec
=============================================================================
