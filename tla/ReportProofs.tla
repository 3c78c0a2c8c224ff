---------------------------- MODULE ReportProofs ----------------------------
(***************************************************************************)
(* Theorems about the report of a benchmark, for any number of samples,    *)
(* scenarios and runs: about the resource samples it is made of (module    *)
(* ResourceCollector), about its verdict and summary (ReportStatus), and   *)
(* about the file it is stored in (ReportStore).                           *)
(***************************************************************************)
EXTENDS ResourceCollector, ReportStatus, ReportStore, SequenceTheorems,
        WellFoundedInduction, TLAPS

-----------------------------------------------------------------------------
(* INDUCTION.  A property of a counter fails first somewhere.              *)
LEMMA Least ==
  ASSUME NEW T, T \subseteq Nat, T # {}
  PROVE  \E n \in T : \A m \in T : n <= m
<1> DEFINE R == {ss \in Nat \X Nat : ss[1] < ss[2]}
<1>1. IsWellFoundedOn(R, Nat)
  BY NatLessThanWellFounded DEF OpToRel
<1>2. PICK n \in T : \A m \in T : ~(<<m, n>> \in R)
  <2> HIDE DEF R
  <2>1. QED
    BY <1>1, WFMin
<1>3. ASSUME NEW m \in T PROVE n <= m
  <2>1. m \in Nat /\ n \in Nat
    OBVIOUS
  <2>2. ~(m < n)
    BY <1>2, <2>1
  <2>3. QED
    BY <2>1, <2>2
<1>4. QED
  BY <1>3

(* A list of numbers has its partial sums.                                 *)
LEMMA PartialSums ==
  ASSUME NEW N \in Nat, NEW share \in [1..N -> Nat]
  PROVE  \E f \in [0..N -> Nat] : f[0] = 0 /\ \A n \in 1..N : f[n] = f[n - 1] + share[n]
<1> DEFINE SumsTo(f, k) == f[0] = 0 /\ \A n \in 1..k : f[n] = f[n - 1] + share[n]
           T == {k \in 0..N : ~\E f \in [0..k -> Nat] : SumsTo(f, k)}
<1>1. SUFFICES T = {}
  <2>1. N \in 0..N
    OBVIOUS
  <2>2. QED
    BY <2>1
<1>2. SUFFICES ASSUME T # {} PROVE FALSE
  OBVIOUS
<1>3. PICK k \in T : \A m \in T : k <= m
  <2>1. T \subseteq Nat
    OBVIOUS
  <2>2. QED
    BY <1>2, <2>1, Least
<1>4. k # 0
  <2> DEFINE zero == [i \in 0..0 |-> 0]
  <2>1. zero \in [0..0 -> Nat] /\ SumsTo(zero, 0)
    OBVIOUS
  <2>2. QED
    BY <1>3, <2>1
<1>5. k - 1 \in 0..N /\ k - 1 \notin T
  <2>1. k - 1 \in 0..N
    BY <1>3, <1>4
  <2>2. ~(k <= k - 1)
    BY <1>3
  <2>3. QED
    BY <2>1, <2>2, <1>3
<1>6. PICK f \in [0..(k - 1) -> Nat] : SumsTo(f, k - 1)
  BY <1>5
<1> DEFINE g == [i \in 0..k |-> IF i = k THEN f[k - 1] + share[k] ELSE f[i]]
<1>7. g \in [0..k -> Nat]
  BY <1>3, <1>4, <1>6
<1>8. SumsTo(g, k)
  <2>1. g[0] = 0
    BY <1>3, <1>4, <1>6
  <2>2. ASSUME NEW n \in 1..k PROVE g[n] = g[n - 1] + share[n]
    <3>1. CASE n = k
      BY <3>1, <1>3, <1>4, <1>6
    <3>2. CASE n # k
      <4>1. n \in 1..(k - 1) /\ n \in 0..k /\ n - 1 \in 0..k /\ n - 1 # k
        BY <3>2, <1>3
      <4>2. g[n] = f[n] /\ g[n - 1] = f[n - 1]
        BY <3>2, <4>1
      <4>3. QED
        BY <4>1, <4>2, <1>6
    <3>3. QED
      BY <3>1, <3>2
  <2>3. QED
    BY <2>1, <2>2
<1>9. QED
  BY <1>3, <1>7, <1>8

-----------------------------------------------------------------------------
(* THE SAMPLES.  Each sample has its share of the CPU from the one before  *)
(* it, and the reading of a process never goes back.                       *)

Follows(previous, sample) ==
  /\ sample.cpu = CPUShare(previous, sample)
  /\ previous.pid # 0 /\ sample.pid # 0 => previous.ticks <= sample.ticks

Previous(i) == IF i = 1 THEN before ELSE samples[i - 1]

(* The sampler runs between the sample before the run and the one after.   *)
Turns ==
  /\ sampler = "none" <=> pc \in {"before", "beforeProcess", "beforeCommand"}
  /\ pc \in {"after", "afterProcess", "afterCommand", "done"} => sampler = "exited"

(* The process that is measured never had more ticks than it has now.      *)
Aging ==
  pid = TargetPID =>
    last.ticks <= ticks /\ half["main"].ticks <= ticks /\ half["sampler"].ticks <= ticks

(* A sample that is being taken.                                           *)
Halves ==
  /\ pc \in {"beforeProcess", "afterProcess"} => half["main"].pid = 0
  /\ sampler = "process" => half["sampler"].pid = 0
  /\ pc = "beforeCommand" => Follows(Unread, half["main"])
  /\ pc = "afterCommand" => Follows(last, half["main"])
  /\ sampler = "command" => Follows(last, half["sampler"])

(* The samples taken.                                                      *)
Chain ==
  /\ sampler = "none" => samples = <<>>
  /\ sampler # "none" =>
       /\ Follows(Unread, before)
       /\ last = Previous(Len(samples) + 1)
       /\ \A i \in 1..Len(samples) : Follows(Previous(i), samples[i])
  /\ pc = "done" => Follows(last, after)

(* A sample takes a tick.                                                  *)
Ticked ==
  Len(samples) + (IF sampler \in {"process", "command"} THEN 1 ELSE 0) + (IF tick THEN 1 ELSE 0)
    <= fired

CollectorInv == CollectorTypeOK /\ Turns /\ Aging /\ Halves /\ Chain /\ Ticked

Goroutines == {"main", "sampler"}

(* The first state has no samples.                                         *)
LEMMA InitCollectorInv == CollectorInit => CollectorInv
<1> SUFFICES ASSUME CollectorInit PROVE CollectorInv
  OBVIOUS
<1>1. Unread \in Sample
  BY BoundsAssumption DEF Unread, Sample, BoundsAssumption
<1>2. CollectorTypeOK
  <2>1. 0 \in 0..MaxStarts /\ 1 \in 0..MaxStarts /\ 1 \in 1..MaxStarts
        /\ 0 \in 0..MaxTicks /\ 0 \in 0..0 /\ 0 \in 0..MaxSamples
    BY BoundsAssumption DEF BoundsAssumption
  <2>2. samples \in Seq(Sample) /\ Len(samples) <= MaxSamples
    BY BoundsAssumption DEF CollectorInit, BoundsAssumption
  <2>3. half \in [{"main", "sampler"} -> Sample]
    BY <1>1 DEF CollectorInit
  <2>4. QED
    BY <1>1, <2>1, <2>2, <2>3 DEF CollectorInit, CollectorTypeOK, TargetPID
<1>3. Turns /\ Halves /\ Chain
  BY DEF CollectorInit, Turns, Halves, Chain
<1>4. Aging
  BY DEF CollectorInit, Aging, Unread
<1>5. Ticked
  BY DEF CollectorInit, Ticked
<1>6. QED
  BY <1>2, <1>3, <1>4, <1>5 DEF CollectorInv

(* Samples and ticks are numbers.                                          *)
LEMMA Numbers ==
  ASSUME CollectorTypeOK
  PROVE  /\ samples \in Seq(Sample) /\ Len(samples) \in Nat /\ fired \in Nat
         /\ pid \in Nat /\ starts \in Nat /\ ticks \in Nat /\ system \in Nat
         /\ MaxStarts \in Nat /\ MaxTicks \in Nat /\ MaxSamples \in Nat
         /\ ticks <= MaxTicks
BY BoundsAssumption DEF BoundsAssumption, CollectorTypeOK

(* A sample begins with the reading of the system.                         *)
LEMMA SystemReading ==
  ASSUME CollectorTypeOK, NEW g \in Goroutines, ReadSystem(g)
  PROVE  /\ half' \in [Goroutines -> Sample]
         /\ \A o \in Goroutines : o # g => half'[o] = half[o]
         /\ half'[g].pid = 0 /\ half'[g].ticks = 0
<1>1. PICK reading \in {system, Null} : half' = [half EXCEPT ![g] = [Unread EXCEPT !.system = reading]]
  BY DEF ReadSystem
<1> DEFINE new == [Unread EXCEPT !.system = reading]
<1>2. new \in Sample /\ new.pid = 0 /\ new.ticks = 0
  BY BoundsAssumption, SMTT(30) DEF Unread, Sample, BoundsAssumption, CollectorTypeOK
<1>3. half' = [half EXCEPT ![g] = new] /\ half \in [Goroutines -> Sample]
  BY <1>1 DEF CollectorTypeOK, Goroutines
<1> HIDE DEF new
<1>4. QED
  BY <1>2, <1>3

(* A share of two samples is a share, or there is none.                    *)
LEMMA ShareTyped ==
  ASSUME NEW previous \in Sample, NEW sample \in Sample
  PROVE  CPUShare(previous, sample) \in {Null} \cup CPUShares
<1>1. CASE /\ HasReading(previous) /\ HasReading(sample)
           /\ TimePassed(previous, sample) /\ sample.ticks >= previous.ticks
  <2>1. /\ previous.system \in 0..MaxTicks /\ sample.system \in 0..MaxTicks
        /\ previous.ticks \in 0..MaxTicks /\ sample.ticks \in 0..MaxTicks
    BY <1>1 DEF HasReading, Sample
  <2>2. /\ sample.system - previous.system \in 1..MaxTicks
        /\ sample.ticks - previous.ticks \in 0..MaxTicks
    BY <1>1, <2>1, BoundsAssumption DEF TimePassed, BoundsAssumption
  <2>3. QED
    BY <1>1, <2>2 DEF CPUShare, CPUShares
<1>2. QED
  BY <1>1 DEF CPUShare

(* What collectSample reads of the process follows the sample before.      *)
LEMMA Reading ==
  ASSUME CollectorTypeOK, NEW g \in Goroutines, NEW previous \in Sample,
         pid = TargetPID => previous.ticks <= ticks /\ half[g].ticks <= ticks,
         half[g].pid = 0, ReadProcess(g, previous)
  PROVE  /\ half' \in [Goroutines -> Sample]
         /\ \A o \in Goroutines : o # g => half'[o] = half[o]
         /\ Follows(previous, half'[g])
         /\ pid = TargetPID => half'[g].ticks <= ticks
<1>1. PICK found \in (IF Readable THEN BOOLEAN ELSE {FALSE}) :
        LET reading == IF found THEN [half[g] EXCEPT !.pid = pid, !.ticks = ticks] ELSE half[g]
        IN half' = [half EXCEPT ![g] = [reading EXCEPT !.cpu = CPUShare(previous, reading)]]
  BY DEF ReadProcess
<1> DEFINE reading == IF found THEN [half[g] EXCEPT !.pid = pid, !.ticks = ticks] ELSE half[g]
<1>2. /\ reading \in Sample
      /\ reading.ticks \in 0..MaxTicks /\ previous.ticks \in 0..MaxTicks
      /\ reading.pid # 0 => pid = TargetPID /\ reading.ticks = ticks
      /\ pid = TargetPID => reading.ticks <= ticks
  <2>1. half[g] \in Sample /\ half[g].ticks \in 0..MaxTicks /\ previous.ticks \in 0..MaxTicks
    BY DEF CollectorTypeOK, Goroutines, Sample
  <2>2. ticks \in 0..MaxTicks
    BY Numbers
  <2>3. CASE found
    <3> DEFINE r == [half[g] EXCEPT !.pid = pid, !.ticks = ticks]
    <3>1. pid = TargetPID /\ reading = r
      BY <1>1, <2>3 DEF Readable
    <3>2. r \in Sample /\ r.pid = pid /\ r.ticks = ticks
      BY <2>1, <2>2, <3>1 DEF Sample
    <3> HIDE DEF r, reading
    <3>3. QED
      BY <2>1, <2>2, <3>1, <3>2
  <2>4. CASE ~found
    BY <2>1, <2>4
  <2>5. QED
    BY <2>3, <2>4
<1>3. reading.pid # 0 => previous.ticks <= reading.ticks
  BY <1>2
<1>4. CPUShare(previous, reading) \in {Null} \cup CPUShares
  <2> HIDE DEF reading
  <2>1. QED
    BY <1>2, ShareTyped
<1> DEFINE new == [reading EXCEPT !.cpu = CPUShare(previous, reading)]
<1>5. /\ new \in Sample /\ new.system = reading.system
      /\ new.pid = reading.pid /\ new.ticks = reading.ticks /\ new.cpu = CPUShare(previous, reading)
  <2> HIDE DEF reading
  <2>1. QED
    BY <1>2, <1>4 DEF Sample
<1>6. half' = [half EXCEPT ![g] = new] /\ half \in [Goroutines -> Sample]
  BY <1>1 DEF CollectorTypeOK, Goroutines
<1> HIDE DEF new, reading
<1>7. half' \in [Goroutines -> Sample] /\ half'[g] = new /\ \A o \in Goroutines : o # g => half'[o] = half[o]
  BY <1>5, <1>6
<1>8. Follows(previous, new)
  BY <1>3, <1>5 DEF Follows, CPUShare, HasReading, TimePassed
<1>9. QED
  BY <1>2, <1>5, <1>7, <1>8

(* The world changes under the samples; a new process is another one.      *)
LEMMA WorldSteps ==
  ASSUME CollectorInv, Work \/ Idle \/ Die \/ StartAgain \/ Cancel \/ TickerFires \/ RunReturns
  PROVE  CollectorInv'
<1>1. UNCHANGED <<sampler, half, last, before, samples, after, endPid>>
  BY DEF Work, Idle, Die, StartAgain, Cancel, TickerFires, RunReturns, ticker, result, service
<1>2. CollectorTypeOK'
  <2> DEFINE World == /\ pid' \in 0..MaxStarts /\ starts' \in 1..MaxStarts /\ ticks' \in 0..system'
                      /\ system' \in 0..MaxTicks
                      /\ ctx' \in {"live", "cancelled"} /\ tick' \in BOOLEAN /\ fired' \in 0..MaxSamples
  <2>1. World
    <3> USE BoundsAssumption DEF BoundsAssumption, CollectorInv, CollectorTypeOK, service, ticker
    <3>1. CASE Work
      BY <3>1 DEF Work
    <3>2. CASE Die \/ RunReturns
      BY <3>2 DEF Die, RunReturns
    <3>3. CASE StartAgain
      BY <3>3 DEF StartAgain
    <3>4. CASE Idle
      BY <3>4 DEF Idle
    <3>5. CASE Cancel
      BY <3>5 DEF Cancel
    <3>6. CASE TickerFires
      BY <3>6 DEF TickerFires
    <3>7. QED
      BY <3>1, <3>2, <3>3, <3>4, <3>5, <3>6
  <2>2. pc' = pc \/ (pc = "run" /\ pc' = "wait")
    BY DEF Work, Idle, Die, StartAgain, Cancel, TickerFires, RunReturns, ticker, result, service
  <2>3. QED
    BY <1>1, <2>1, <2>2 DEF CollectorInv, CollectorTypeOK
<1>3. Aging'
  <2>1. pid' = TargetPID => pid = TargetPID /\ ticks <= ticks'
    BY BoundsAssumption
    DEF BoundsAssumption, CollectorInv, CollectorTypeOK, TargetPID,
        Work, Idle, Die, StartAgain, Cancel, TickerFires, RunReturns, ticker, result, service
  <2>2. /\ last.ticks \in Nat /\ half["main"].ticks \in Nat /\ half["sampler"].ticks \in Nat
        /\ ticks \in Nat /\ ticks' \in Nat
    BY <1>2, BoundsAssumption DEF CollectorInv, CollectorTypeOK, Sample, BoundsAssumption
  <2>3. QED
    BY <1>1, <2>1, <2>2 DEF CollectorInv, Aging
<1>4. pc' = pc \/ (pc = "run" /\ pc' = "wait")
  BY DEF Work, Idle, Die, StartAgain, Cancel, TickerFires, RunReturns, ticker, result, service
<1>5. Turns' /\ Halves' /\ Chain'
  BY <1>1, <1>4 DEF CollectorInv, Turns, Halves, Chain, Previous
<1>6. Ticked'
  <2>1. CASE TickerFires
    <3>1. tick = FALSE /\ tick' = TRUE /\ fired' = fired + 1
      BY <2>1 DEF TickerFires, CollectorInv, CollectorTypeOK
    <3>2. QED
      BY <1>1, <3>1, Numbers DEF CollectorInv, Ticked
  <2>2. CASE ~TickerFires
    <3>1. UNCHANGED <<tick, fired>>
      BY <2>2 DEF Work, Idle, Die, StartAgain, Cancel, RunReturns, ticker
    <3>2. QED
      BY <1>1, <3>1 DEF CollectorInv, Ticked
  <2>3. QED
    BY <2>1, <2>2
<1>7. QED
  BY <1>2, <1>3, <1>5, <1>6 DEF CollectorInv

(* The reading of the system, before the run and after it.                 *)
LEMMA BeginSteps ==
  ASSUME CollectorInv, BeginBefore \/ BeginAfter
  PROVE  CollectorInv'
<1> USE DEF Goroutines
<1>1. /\ ReadSystem("main")
      /\ \/ pc = "before" /\ pc' = "beforeProcess"
         \/ pc = "after" /\ pc' = "afterProcess"
      /\ UNCHANGED <<pid, starts, ticks, system, ctx, sampler, tick, fired,
                     last, before, samples, after, endPid>>
  BY DEF BeginBefore, BeginAfter, service, ticker, result
<1>2. /\ half' \in [Goroutines -> Sample] /\ half'["sampler"] = half["sampler"]
      /\ half'["main"].pid = 0 /\ half'["main"].ticks = 0
  BY <1>1, SystemReading DEF CollectorInv
<1>3. CollectorTypeOK'
  BY <1>1, <1>2 DEF CollectorInv, CollectorTypeOK
<1>4. Aging'
  BY <1>1, <1>2, Numbers DEF CollectorInv, Aging
<1>5. Turns' /\ Halves' /\ Ticked'
  BY <1>1, <1>2 DEF CollectorInv, Turns, Halves, Ticked
<1>6. Chain'
  BY <1>1 DEF CollectorInv, Chain, Previous
<1>7. QED
  BY <1>3, <1>4, <1>5, <1>6 DEF CollectorInv

(* The sample before the run.                                              *)
LEMMA BeforeSteps ==
  ASSUME CollectorInv, BeforeProcess \/ EndBefore
  PROVE  CollectorInv'
<1> USE DEF Goroutines
<1>1. CASE BeforeProcess
  <2>1. Unread \in Sample /\ Unread.ticks = 0
    BY BoundsAssumption DEF Unread, Sample, BoundsAssumption
  <2>2. ticks \in Nat
    BY Numbers DEF CollectorInv
  <2>3. ReadProcess("main", Unread) /\ half["main"].pid = 0
    BY <1>1 DEF BeforeProcess, CollectorInv, Halves
  <2>4. pid = TargetPID => half["main"].ticks <= ticks
    BY DEF CollectorInv, Aging
  <2>5. /\ half' \in [Goroutines -> Sample] /\ half'["sampler"] = half["sampler"]
        /\ Follows(Unread, half'["main"])
        /\ pid = TargetPID => half'["main"].ticks <= ticks
    BY <2>1, <2>2, <2>3, <2>4, Reading DEF CollectorInv
  <2>6. /\ pc = "beforeProcess" /\ pc' = "beforeCommand"
        /\ UNCHANGED <<pid, starts, ticks, system, ctx, sampler, tick, fired,
                       last, before, samples, after, endPid>>
    BY <1>1 DEF BeforeProcess, service, ticker, result
  <2>7. CollectorTypeOK'
    BY <2>5, <2>6 DEF CollectorInv, CollectorTypeOK
  <2>8. Turns' /\ Aging' /\ Halves' /\ Chain' /\ Ticked'
    BY <2>5, <2>6 DEF CollectorInv, Turns, Aging, Halves, Chain, Ticked
  <2>9. QED
    BY <2>7, <2>8 DEF CollectorInv
<1>2. CASE EndBefore
  <2> DEFINE s == half["main"]
  <2>1. s \in Sample /\ Follows(Unread, s)
    BY <1>2 DEF EndBefore, CollectorInv, CollectorTypeOK, Halves
  <2>2. /\ pc = "beforeCommand" /\ pc' = "run" /\ sampler' = "select"
        /\ before' = half["main"] /\ last' = half["main"]
        /\ UNCHANGED <<pid, starts, ticks, system, ctx, tick, fired, half, samples, after, endPid>>
    BY <1>2 DEF EndBefore, service, ticker
  <2>3. CollectorTypeOK' /\ Turns' /\ Halves'
    BY <2>1, <2>2 DEF CollectorInv, CollectorTypeOK, Turns, Halves
  <2>4. Aging'
    BY <2>2 DEF CollectorInv, Aging
  <2>5. samples' = <<>> /\ Len(samples') = 0
    BY <2>2 DEF CollectorInv, Chain, Turns
  <2>6. Previous(Len(samples) + 1)' = half["main"]
    BY <2>2, <2>5 DEF Previous
  <2>7. Chain'
    BY <2>1, <2>2, <2>5, <2>6 DEF Chain
  <2>8. Ticked'
    BY <2>2 DEF CollectorInv, Ticked, Turns
  <2>9. QED
    BY <2>3, <2>4, <2>7, <2>8 DEF CollectorInv
<1>3. QED
  BY <1>1, <1>2

(* The sample after the run follows the last one of the sampler.           *)
LEMMA AfterSteps ==
  ASSUME CollectorInv, Wait \/ AfterProcess \/ EndAfter
  PROVE  CollectorInv'
<1> USE DEF Goroutines
<1>1. CASE Wait
  <2>1. /\ pc = "wait" /\ pc' = "after" /\ sampler = "exited"
        /\ UNCHANGED <<pid, starts, ticks, system, ctx, sampler, tick, fired,
                       half, last, before, samples, after, endPid>>
    BY <1>1 DEF Wait, SamplerGone, service, ticker, result
  <2>2. QED
    BY <2>1 DEF CollectorInv, CollectorTypeOK, Turns, Aging, Halves, Chain, Previous, Ticked
<1>2. CASE AfterProcess
  <2>1. last \in Sample /\ ReadProcess("main", last) /\ half["main"].pid = 0
    BY <1>2 DEF AfterProcess, LastSnapshot, CollectorInv, CollectorTypeOK, Halves
  <2>2. pid = TargetPID => last.ticks <= ticks /\ half["main"].ticks <= ticks
    BY DEF CollectorInv, Aging
  <2>3. /\ half' \in [Goroutines -> Sample] /\ half'["sampler"] = half["sampler"]
        /\ Follows(last, half'["main"])
        /\ pid = TargetPID => half'["main"].ticks <= ticks
    BY <2>1, <2>2, Reading DEF CollectorInv
  <2>4. /\ pc = "afterProcess" /\ pc' = "afterCommand" /\ endPid' = pid
        /\ UNCHANGED <<pid, starts, ticks, system, ctx, sampler, tick, fired,
                       last, before, samples, after>>
    BY <1>2 DEF AfterProcess, service, ticker
  <2>5. CollectorTypeOK'
    BY <2>3, <2>4 DEF CollectorInv, CollectorTypeOK
  <2>6. Turns' /\ Aging' /\ Halves' /\ Chain' /\ Ticked'
    BY <2>3, <2>4 DEF CollectorInv, Turns, Aging, Halves, Chain, Previous, Ticked
  <2>7. QED
    BY <2>5, <2>6 DEF CollectorInv
<1>3. CASE EndAfter
  <2>1. half["main"] \in Sample /\ Follows(last, half["main"])
    BY <1>3 DEF EndAfter, CollectorInv, CollectorTypeOK, Halves
  <2>2. /\ pc = "afterCommand" /\ pc' = "done" /\ after' = half["main"]
        /\ UNCHANGED <<pid, starts, ticks, system, ctx, sampler, tick, fired,
                       half, last, before, samples, endPid>>
    BY <1>3 DEF EndAfter, service, ticker
  <2>3. QED
    BY <2>1, <2>2 DEF CollectorInv, CollectorTypeOK, Turns, Aging, Halves, Chain, Previous, Ticked
<1>4. QED
  BY <1>1, <1>2, <1>3

(* The sampler appends to the chain.                                       *)
LEMMA SamplerSteps ==
  ASSUME CollectorInv, Sampler
  PROVE  CollectorInv'
<1> USE DEF Goroutines
<1>1. CASE SamplerStops
  <2>1. /\ sampler = "select" /\ sampler' = "exited"
        /\ UNCHANGED <<pid, starts, ticks, system, ctx, pc, tick, fired,
                       half, last, before, samples, after, endPid>>
    BY <1>1 DEF SamplerStops, service, ticker, result
  <2>2. QED
    BY <2>1 DEF CollectorInv, CollectorTypeOK, Turns, Aging, Halves, Chain, Previous, Ticked
<1>2. CASE SamplerTicks
  <2>1. /\ ReadSystem("sampler") /\ sampler = "select" /\ sampler' = "process"
        /\ tick = TRUE /\ tick' = FALSE
        /\ UNCHANGED <<pid, starts, ticks, system, ctx, pc, fired,
                       last, before, samples, after, endPid>>
    BY <1>2 DEF SamplerTicks, service, result, CollectorInv, CollectorTypeOK
  <2>2. /\ half' \in [Goroutines -> Sample] /\ half'["main"] = half["main"]
        /\ half'["sampler"].pid = 0 /\ half'["sampler"].ticks = 0
    BY <2>1, SystemReading DEF CollectorInv
  <2>3. CollectorTypeOK'
    BY <2>1, <2>2 DEF CollectorInv, CollectorTypeOK
  <2>4. Turns' /\ Aging' /\ Halves' /\ Chain'
    BY <2>1, <2>2, Numbers DEF CollectorInv, Turns, Aging, Halves, Chain, Previous
  <2>5. Ticked'
    BY <2>1, Numbers DEF CollectorInv, Ticked
  <2>6. QED
    BY <2>3, <2>4, <2>5 DEF CollectorInv
<1>3. CASE SamplerProcess
  <2>1. last \in Sample /\ ReadProcess("sampler", last) /\ half["sampler"].pid = 0
    BY <1>3 DEF SamplerProcess, CollectorInv, CollectorTypeOK, Halves
  <2>2. pid = TargetPID => last.ticks <= ticks /\ half["sampler"].ticks <= ticks
    BY DEF CollectorInv, Aging
  <2>3. /\ half' \in [Goroutines -> Sample] /\ half'["main"] = half["main"]
        /\ Follows(last, half'["sampler"])
        /\ pid = TargetPID => half'["sampler"].ticks <= ticks
    BY <2>1, <2>2, Reading DEF CollectorInv
  <2>4. /\ sampler = "process" /\ sampler' = "command"
        /\ UNCHANGED <<pid, starts, ticks, system, ctx, pc, tick, fired,
                       last, before, samples, after, endPid>>
    BY <1>3 DEF SamplerProcess, service, ticker, result
  <2>5. CollectorTypeOK'
    BY <2>3, <2>4 DEF CollectorInv, CollectorTypeOK
  <2>6. Turns' /\ Aging' /\ Halves' /\ Chain' /\ Ticked'
    BY <2>3, <2>4 DEF CollectorInv, Turns, Aging, Halves, Chain, Previous, Ticked
  <2>7. QED
    BY <2>5, <2>6 DEF CollectorInv
<1>4. CASE SamplerCommand
  <2> DEFINE s == half["sampler"]
             n == Len(samples)
  <2>1. s \in Sample /\ Follows(last, s)
    BY <1>4 DEF SamplerCommand, CollectorInv, CollectorTypeOK, Halves
  <2>2. /\ sampler = "command" /\ sampler' = "select"
        /\ samples' = Append(samples, half["sampler"]) /\ last' = half["sampler"]
        /\ UNCHANGED <<pid, starts, ticks, system, ctx, pc, tick, fired, half, before, after, endPid>>
    BY <1>4 DEF SamplerCommand, service, ticker
  <2>3. /\ samples \in Seq(Sample) /\ n \in Nat /\ Len(samples') = n + 1
        /\ samples'[n + 1] = half["sampler"] /\ \A i \in 1..n : samples'[i] = samples[i]
        /\ samples' \in Seq(Sample)
    BY <2>1, <2>2, Numbers DEF CollectorInv
  <2>4. Ticked' /\ n + 1 <= MaxSamples
    <3>1. n + 1 + (IF tick THEN 1 ELSE 0) <= fired
      BY <2>2 DEF CollectorInv, Ticked
    <3>2. Ticked'
      BY <2>2, <2>3, <3>1 DEF Ticked
    <3>3. fired <= MaxSamples
      BY Numbers DEF CollectorInv, CollectorTypeOK
    <3>4. QED
      BY <2>3, <3>1, <3>2, <3>3, Numbers DEF CollectorInv
  <2>5. CollectorTypeOK'
    BY <2>1, <2>2, <2>3, <2>4 DEF CollectorInv, CollectorTypeOK
  <2>6. Turns' /\ Aging' /\ Halves'
    BY <2>2 DEF CollectorInv, Turns, Aging, Halves
  <2>7. Previous(Len(samples) + 1)' = half["sampler"]
    BY <2>2, <2>3 DEF Previous
  <2>8. ASSUME NEW i \in 1..(n + 1) PROVE Follows(Previous(i)', samples'[i])
    <3>1. Previous(i)' = Previous(i)
      BY <2>2, <2>3 DEF Previous
    <3>2. CASE i = n + 1
      BY <2>1, <2>2, <2>3, <3>1, <3>2 DEF CollectorInv, Chain
    <3>3. CASE i # n + 1
      BY <2>2, <2>3, <3>1, <3>3 DEF CollectorInv, Chain
    <3>4. QED
      BY <3>2, <3>3
  <2>9. Chain'
    <3>1. pc # "done"
      BY <2>2 DEF CollectorInv, Turns
    <3>2. QED
      BY <2>2, <2>3, <2>7, <2>8, <3>1 DEF CollectorInv, Chain
  <2>10. QED
    BY <2>4, <2>5, <2>6, <2>9 DEF CollectorInv
<1>5. QED
  BY <1>1, <1>2, <1>3, <1>4 DEF Sampler

(* CollectorInv is inductive.                                              *)
LEMMA StepCollectorInv == CollectorInv /\ [CollectorNext]_collectorVars => CollectorInv'
<1>1. ASSUME CollectorInv, UNCHANGED collectorVars PROVE CollectorInv'
  BY <1>1, ZenonT(60)
  DEF collectorVars, service, ticker, result,
      CollectorInv, CollectorTypeOK, Turns, Aging, Halves, Chain, Previous, Ticked
<1>2. QED
  BY <1>1, WorldSteps, BeginSteps, BeforeSteps, AfterSteps, SamplerSteps
  DEF CollectorNext, Collect, Finished

(* The inductive invariant of the collector holds throughout.              *)
THEOREM CollectorInductive == CollectorSpec => []CollectorInv
BY InitCollectorInv, StepCollectorInv, PTL DEF CollectorSpec

(* The type invariant, with: the sampler goes after Collect has taken the  *)
(* first sample, and takes no more samples than there are ticks.           *)
THEOREM CollectorTypeCorrect == CollectorSpec => []CollectorTypeOK
<1>1. CollectorInv => CollectorTypeOK
  BY DEF CollectorInv
<1>2. QED
  BY <1>1, CollectorInductive, PTL

(* The samples of a finished collection are those of CollectorInv.         *)
LEMMA SamplesInOrder ==
  ASSUME CollectorInv, pc = "done"
  PROVE  /\ AllSamples \in Seq(Sample) /\ Len(AllSamples) = Len(samples) + 2
         /\ AllSamples[1] = before /\ AllSamples[Len(samples) + 2] = after
         /\ \A i \in 1..Len(samples) : AllSamples[i + 1] = samples[i]
         /\ Follows(Unread, AllSamples[1])
         /\ \A i \in 2..Len(AllSamples) : Follows(AllSamples[i - 1], AllSamples[i])
<1> DEFINE n == Len(samples)
<1>1. samples \in Seq(Sample) /\ n \in Nat /\ before \in Sample /\ after \in Sample
  BY Numbers DEF CollectorInv, CollectorTypeOK
<1>2. /\ AllSamples \in Seq(Sample) /\ Len(AllSamples) = n + 2
      /\ AllSamples[1] = before /\ AllSamples[n + 2] = after
      /\ \A i \in 1..n : AllSamples[i + 1] = samples[i]
  BY <1>1 DEF AllSamples
<1>3. sampler # "none" /\ Follows(Unread, before) /\ Follows(last, after)
      /\ last = Previous(n + 1) /\ \A i \in 1..n : Follows(Previous(i), samples[i])
  BY DEF CollectorInv, Turns, Chain
<1>4. ASSUME NEW i \in 1..(n + 1) PROVE Previous(i) = AllSamples[i]
  <2>1. CASE i = 1
    BY <2>1, <1>2 DEF Previous
  <2>2. CASE i # 1
    <3>1. i - 1 \in 1..n
      BY <2>2, <1>1
    <3>2. AllSamples[(i - 1) + 1] = samples[i - 1] /\ (i - 1) + 1 = i
      BY <3>1, <1>2
    <3>3. QED
      BY <2>2, <3>2 DEF Previous
  <2>3. QED
    BY <2>1, <2>2
<1>5. ASSUME NEW i \in 2..(n + 2) PROVE Follows(AllSamples[i - 1], AllSamples[i])
  <2>1. i - 1 \in 1..(n + 1)
    BY <1>1
  <2>2. CASE i = n + 2
    BY <2>1, <2>2, <1>1, <1>2, <1>3, <1>4
  <2>3. CASE i # n + 2
    <3>1. i - 1 \in 1..n /\ (i - 1) + 1 = i
      BY <2>3, <1>1
    <3>2. AllSamples[i] = samples[i - 1]
      BY <3>1, <1>2
    <3>3. QED
      BY <2>1, <3>1, <3>2, <1>3, <1>4
  <2>4. QED
    BY <2>2, <2>3
<1>6. QED
  BY <1>2, <1>3, <1>5

(* Shares are numbers.                                                     *)
LEMMA ShareNumbers ==
  ASSUME NEW s \in Sample
  PROVE  Part(s) \in Nat /\ Whole(s) \in Nat
BY BoundsAssumption DEF Part, Whole, Sample, CPUShares, BoundsAssumption

(* The partial sums of the shares are what their definition says.          *)
LEMMA PartsAdd ==
  ASSUME AllSamples \in Seq(Sample)
  PROVE  /\ Parts[0] = 0
         /\ \A n \in 0..Len(AllSamples) : Parts[n] \in Nat
         /\ \A n \in 1..Len(AllSamples) : Parts[n] = Parts[n - 1] + Part(AllSamples[n])
<1> DEFINE N == Len(AllSamples)
           Step(f) == [n \in 0..N |-> IF n = 0 THEN 0 ELSE f[n - 1] + Part(AllSamples[n])]
           share == [n \in 1..N |-> Part(AllSamples[n])]
<1>1. N \in Nat /\ \A n \in 1..N : AllSamples[n] \in Sample
  OBVIOUS
<1>2. share \in [1..N -> Nat]
  BY <1>1, ShareNumbers
<1>3. PICK f \in [0..N -> Nat] : f[0] = 0 /\ \A n \in 1..N : f[n] = f[n - 1] + share[n]
  <2> HIDE DEF share, N
  <2>1. QED
    BY <1>1, <1>2, PartialSums
<1>4. f = Step(f)
  <2>1. \A n \in 0..N : f[n] = IF n = 0 THEN 0 ELSE f[n - 1] + Part(AllSamples[n])
    BY <1>1, <1>3
  <2>2. QED
    BY <1>3, <2>1
<1>5. Parts = CHOOSE g : g = Step(g)
  BY DEF Parts
<1>6. Parts = Step(Parts)
  <2> HIDE DEF Step
  <2>1. QED
    BY <1>4, <1>5
<1>7. \A n \in 1..N : Parts[n] = Parts[n - 1] + share[n]
  BY <1>1, <1>6
<1>8. Parts[0] = 0 /\ DOMAIN Parts = 0..N
  BY <1>1, <1>6
<1> HIDE DEF Step
<1>9. \A n \in 0..N : Parts[n] \in Nat
  <2> DEFINE T == {n \in 0..N : Parts[n] \notin Nat}
  <2> HIDE DEF share, N
  <2>1. SUFFICES ASSUME T # {} PROVE FALSE
    OBVIOUS
  <2>2. T \subseteq Nat
    BY <1>1
  <2>3. PICK n \in T : \A m \in T : n <= m
    <3> HIDE DEF T
    <3>1. QED
      BY <2>1, <2>2, Least
  <2>4. n \in 1..N
    BY <1>8, <2>3
  <2>5. n - 1 \in 0..N /\ ~(n <= n - 1)
    BY <1>1, <2>4
  <2>6. Parts[n - 1] \in Nat
    BY <2>3, <2>5
  <2>7. Parts[n] \in Nat
    BY <1>2, <1>7, <2>4, <2>6
  <2>8. QED
    BY <2>3, <2>7
<1>10. QED
  BY <1>1, <1>7, <1>8, <1>9

(* So are those of the ticks of the system.                                *)
LEMMA WholesAdd ==
  ASSUME AllSamples \in Seq(Sample)
  PROVE  /\ Wholes[0] = 0
         /\ \A n \in 0..Len(AllSamples) : Wholes[n] \in Nat
         /\ \A n \in 1..Len(AllSamples) : Wholes[n] = Wholes[n - 1] + Whole(AllSamples[n])
<1> DEFINE N == Len(AllSamples)
           Step(f) == [n \in 0..N |-> IF n = 0 THEN 0 ELSE f[n - 1] + Whole(AllSamples[n])]
           share == [n \in 1..N |-> Whole(AllSamples[n])]
<1>1. N \in Nat /\ \A n \in 1..N : AllSamples[n] \in Sample
  OBVIOUS
<1>2. share \in [1..N -> Nat]
  BY <1>1, ShareNumbers
<1>3. PICK f \in [0..N -> Nat] : f[0] = 0 /\ \A n \in 1..N : f[n] = f[n - 1] + share[n]
  <2> HIDE DEF share, N
  <2>1. QED
    BY <1>1, <1>2, PartialSums
<1>4. f = Step(f)
  <2>1. \A n \in 0..N : f[n] = IF n = 0 THEN 0 ELSE f[n - 1] + Whole(AllSamples[n])
    BY <1>1, <1>3
  <2>2. QED
    BY <1>3, <2>1
<1>5. Wholes = CHOOSE g : g = Step(g)
  BY DEF Wholes
<1>6. Wholes = Step(Wholes)
  <2> HIDE DEF Step
  <2>1. QED
    BY <1>4, <1>5
<1>7. \A n \in 1..N : Wholes[n] = Wholes[n - 1] + share[n]
  BY <1>1, <1>6
<1>8. Wholes[0] = 0 /\ DOMAIN Wholes = 0..N
  BY <1>1, <1>6
<1> HIDE DEF Step
<1>9. \A n \in 0..N : Wholes[n] \in Nat
  <2> DEFINE T == {n \in 0..N : Wholes[n] \notin Nat}
  <2> HIDE DEF share, N
  <2>1. SUFFICES ASSUME T # {} PROVE FALSE
    OBVIOUS
  <2>2. T \subseteq Nat
    BY <1>1
  <2>3. PICK n \in T : \A m \in T : n <= m
    <3> HIDE DEF T
    <3>1. QED
      BY <2>1, <2>2, Least
  <2>4. n \in 1..N
    BY <1>8, <2>3
  <2>5. n - 1 \in 0..N /\ ~(n <= n - 1)
    BY <1>1, <2>4
  <2>6. Wholes[n - 1] \in Nat
    BY <2>3, <2>5
  <2>7. Wholes[n] \in Nat
    BY <1>2, <1>7, <2>4, <2>6
  <2>8. QED
    BY <2>3, <2>7
<1>10. QED
  BY <1>1, <1>7, <1>8, <1>9

(* What a share is.                                                        *)
LEMMA ShareIsDifference ==
  ASSUME NEW s \in Sample, NEW previous \in Sample, Follows(previous, s), s.cpu # Null
  PROVE  /\ HasReading(previous) /\ HasReading(s)
         /\ Part(s) = s.ticks - previous.ticks
         /\ Whole(s) = s.system - previous.system
<1>1. s.cpu = CPUShare(previous, s)
  BY DEF Follows
<1>2. /\ HasReading(previous) /\ HasReading(s)
      /\ s.cpu = [part |-> s.ticks - previous.ticks, whole |-> s.system - previous.system]
  BY <1>1 DEF CPUShare
<1>3. QED
  BY <1>2 DEF Part, Whole

(* The shares of a stretch add up.                                         *)
LEMMA SharesTelescope ==
  ASSUME CollectorInv, pc = "done",
         NEW i \in DOMAIN AllSamples, NEW j \in DOMAIN AllSamples, Stretch(i, j)
  PROVE  /\ Parts[j] - Parts[i] = AllSamples[j].ticks - AllSamples[i].ticks
         /\ Wholes[j] - Wholes[i] =
              IF i = j THEN 0 ELSE AllSamples[j].system - AllSamples[i].system
<1> DEFINE N == Len(AllSamples)
           Ticks(k) == AllSamples[k].ticks
           System(k) == AllSamples[k].system
           Tiled(k) == /\ Parts[k] - Parts[i] = Ticks(k) - Ticks(i)
                       /\ Wholes[k] - Wholes[i] = IF i = k THEN 0 ELSE System(k) - System(i)
           T == {k \in i..j : ~Tiled(k)}
<1>1. /\ AllSamples \in Seq(Sample) /\ N \in Nat
      /\ \A k \in 2..N : Follows(AllSamples[k - 1], AllSamples[k])
  <2>1. AllSamples \in Seq(Sample)
    BY SamplesInOrder
  <2>2. \A k \in 2..N : Follows(AllSamples[k - 1], AllSamples[k])
    BY SamplesInOrder
  <2>3. QED
    BY <2>1, <2>2
<1>2. /\ i \in 1..N /\ j \in 1..N /\ i <= j
      /\ \A k \in (i + 1)..j : AllSamples[k].cpu # Null
  BY <1>1 DEF Stretch
<1>3. \A k \in 1..N : AllSamples[k] \in Sample /\ Ticks(k) \in Nat
  <2>1. \A k \in 1..N : AllSamples[k] \in Sample
    BY <1>1
  <2>2. QED
    BY <2>1, BoundsAssumption DEF Sample, BoundsAssumption
<1>4. /\ \A k \in 0..N : Parts[k] \in Nat /\ Wholes[k] \in Nat
      /\ \A k \in 1..N : /\ Parts[k] = Parts[k - 1] + Part(AllSamples[k])
                         /\ Wholes[k] = Wholes[k - 1] + Whole(AllSamples[k])
  BY <1>1, PartsAdd, WholesAdd
<1>5. Tiled(i)
  <2>1. Parts[i] \in Nat /\ Wholes[i] \in Nat /\ Ticks(i) \in Nat
    BY <1>1, <1>2, <1>3, <1>4
  <2>2. QED
    BY <2>1
<1>6. ASSUME NEW k \in (i + 1)..j, Tiled(k - 1) PROVE Tiled(k)
  <2>1. k \in 1..N /\ k \in 2..N /\ k - 1 \in 1..N /\ k # i /\ k - 1 \in 0..N /\ k \in 0..N
    BY <1>1, <1>2
  <2>2. /\ HasReading(AllSamples[k - 1]) /\ HasReading(AllSamples[k])
        /\ Part(AllSamples[k]) = Ticks(k) - Ticks(k - 1)
        /\ Whole(AllSamples[k]) = System(k) - System(k - 1)
    BY <1>1, <1>2, <1>3, <2>1, ShareIsDifference
  <2>3. System(k) \in Nat /\ System(k - 1) \in Nat
    <3>1. AllSamples[k] \in Sample /\ AllSamples[k - 1] \in Sample
      BY <1>3, <2>1
    <3>2. QED
      BY <2>2, <3>1, BoundsAssumption DEF HasReading, Sample, BoundsAssumption
  <2>4. k - 1 # i => System(i) \in Nat
    <3>1. SUFFICES ASSUME k - 1 # i PROVE System(i) \in Nat
      OBVIOUS
    <3>2. i + 1 \in (i + 1)..j /\ i + 1 \in 2..N /\ (i + 1) - 1 = i /\ i + 1 \in 1..N
      BY <1>1, <1>2, <3>1
    <3>3. /\ AllSamples[i + 1].cpu # Null /\ Follows(AllSamples[i], AllSamples[i + 1])
          /\ AllSamples[i + 1] \in Sample /\ AllSamples[i] \in Sample
      BY <1>1, <1>2, <1>3, <3>2
    <3>4. HasReading(AllSamples[i])
      BY <3>3, ShareIsDifference
    <3>5. QED
      BY <3>3, <3>4, BoundsAssumption DEF HasReading, Sample, BoundsAssumption
  <2>5. /\ Parts[k] = Parts[k - 1] + Part(AllSamples[k])
        /\ Wholes[k] = Wholes[k - 1] + Whole(AllSamples[k])
        /\ Parts[k] \in Nat /\ Parts[k - 1] \in Nat /\ Parts[i] \in Nat
        /\ Wholes[k] \in Nat /\ Wholes[k - 1] \in Nat /\ Wholes[i] \in Nat
    BY <1>1, <1>2, <1>4, <2>1
  <2>6. Ticks(k) \in Nat /\ Ticks(k - 1) \in Nat /\ Ticks(i) \in Nat
    BY <1>2, <1>3, <2>1
  <2>7. /\ Parts[k - 1] - Parts[i] = Ticks(k - 1) - Ticks(i)
        /\ Wholes[k - 1] - Wholes[i] = IF i = k - 1 THEN 0 ELSE System(k - 1) - System(i)
    BY <1>6
  <2>8. Parts[k] - Parts[i] = Ticks(k) - Ticks(i)
    <3> HIDE DEF Ticks, System
    <3>1. QED
      BY <2>2, <2>5, <2>6, <2>7
  <2> HIDE DEF Ticks, System
  <2>9. CASE k - 1 = i
    <3>1. Wholes[k] - Wholes[i] = System(k) - System(i)
      BY <2>2, <2>3, <2>5, <2>9
    <3>2. QED
      BY <2>1, <2>8, <3>1
  <2>10. CASE k - 1 # i
    <3>1. Wholes[k - 1] - Wholes[i] = System(k - 1) - System(i)
      BY <2>10, <2>7
    <3>2. Wholes[k] - Wholes[i] = System(k) - System(i)
      BY <2>2, <2>3, <2>4, <2>5, <2>10, <3>1
    <3>3. QED
      BY <2>1, <2>8, <3>2
  <2>11. QED
    BY <2>9, <2>10
<1> HIDE DEF Tiled, N
<1>7. T = {}
  <2> SUFFICES ASSUME T # {} PROVE FALSE
    OBVIOUS
  <2>1. T \subseteq Nat
    BY <1>1, <1>2
  <2>2. PICK k \in T : \A m \in T : k <= m
    <3> HIDE DEF T
    <3>1. QED
      BY <2>1, Least
  <2>3. k \in i..j /\ ~Tiled(k) /\ k # i
    BY <1>5, <2>2
  <2>4. k \in (i + 1)..j /\ k - 1 \in i..j /\ ~(k <= k - 1)
    BY <1>1, <1>2, <2>3
  <2>5. Tiled(k - 1)
    BY <2>2, <2>4
  <2>6. QED
    BY <1>6, <2>3, <2>4, <2>5
<1>8. Tiled(j)
  BY <1>1, <1>2, <1>7
<1>9. QED
  BY <1>8 DEF Tiled

(* A gap has its reason.                                                   *)
LEMMA GapsExplained ==
  ASSUME CollectorInv, pc = "done", NEW k \in 2..Len(AllSamples), AllSamples[k].cpu = Null
  PROVE  \/ ~HasReading(AllSamples[k - 1]) \/ ~HasReading(AllSamples[k])
         \/ AllSamples[k].system <= AllSamples[k - 1].system
<1> DEFINE p == AllSamples[k - 1]
           s == AllSamples[k]
<1>1. SUFFICES ASSUME HasReading(p), HasReading(s) PROVE s.system <= p.system
  OBVIOUS
<1>2. p \in Sample /\ s \in Sample /\ Follows(p, s)
  <2>1. AllSamples \in Seq(Sample) /\ k - 1 \in 1..Len(AllSamples) /\ k \in 1..Len(AllSamples)
    BY SamplesInOrder
  <2>2. QED
    BY <2>1, SamplesInOrder
<1>3. s.cpu = Null
  OBVIOUS
<1> HIDE DEF p, s
<1>4. /\ p.system \in Nat /\ s.system \in Nat /\ p.ticks \in Nat /\ s.ticks \in Nat
      /\ p.ticks <= s.ticks
  BY <1>1, <1>2, BoundsAssumption DEF HasReading, Sample, Follows, BoundsAssumption
<1>5. CPUShare(p, s) = Null
  BY <1>2, <1>3 DEF Follows
<1>6. CASE s.system > p.system
  <2> DEFINE share == [part |-> s.ticks - p.ticks, whole |-> s.system - p.system]
  <2>1. CPUShare(p, s) = share
    BY <1>1, <1>4, <1>6 DEF CPUShare, TimePassed
  <2>2. share \in [part : Nat, whole : Nat]
    BY <1>4, <1>6
  <2>3. QED
    BY <1>5, <2>1, <2>2, BoundsAssumption DEF BoundsAssumption
<1>7. QED
  BY <1>4, <1>6

(* The samples of a finished collection tile the run: over any stretch of  *)
(* them that all have a share, the shares are the ticks between its ends,  *)
(* none counted twice or left out, however many samples the sampler took   *)
(* and whatever readings failed elsewhere; and where a share is missing, a *)
(* reading is, or no time passed (Collect and collectSample of             *)
(* resource_collector_linux.go).                                           *)
THEOREM SamplesTile == CollectorSpec => []SharesTileTheRun
<1>1. CollectorInv => SharesTileTheRun
  BY SharesTelescope, GapsExplained DEF SharesTileTheRun
<1>2. QED
  BY <1>1, CollectorInductive, PTL

-----------------------------------------------------------------------------
(* THE VERDICT.  A status is raised together with its reason, and the sums *)
(* grow by one scenario at a time.                                         *)

Graded == {"passed", "degraded", "failed"}
Reasons == [code : {"none-attempted", "failure", "timeout"}, path : Paths, status : Statuses]
Scenarios == [Paths -> PathResult]

(* A path is at its bound of the name given.                               *)
At(count, least) == 2 * HundredPercent * count >= (2 * least - 1) * QueryCount
AtBound(path, bound) ==
  At(path.failed, thresholds.failure[bound]) \/ At(path.timeouts, thresholds.timeout[bound])

(* A status that is that of its most severe reason.                        *)
Supported(verdict) ==
  /\ verdict \in Verdicts /\ verdict.status \in Graded
  /\ verdict.status = "passed" <=> verdict.reasons = <<>>
  /\ \A k \in DOMAIN verdict.reasons :
       Severity[verdict.reasons[k].status] <= Severity[verdict.status]
  /\ verdict.status # "passed" =>
       \E k \in DOMAIN verdict.reasons : verdict.reasons[k].status = verdict.status

(* How far each phase has got.                                             *)
Counting ==
  /\ phase \in {"validate", "suite", "classify"} => summary = NewSummary
  /\ phase = "validate" => next = 1 /\ results = <<>> /\ verdicts = <<>>
  /\ phase = "suite" => Len(results) = next - 1 /\ verdicts = <<>>
  /\ phase = "classify" => Len(results) = ScenarioCount /\ Len(verdicts) = next - 1
  /\ phase \in {"summarize", "done"} => Len(results) = ScenarioCount /\ Len(verdicts) = ScenarioCount

Classified == \A i \in 1..Len(verdicts) : verdicts[i] = Verdict(results[i])

SummaryRecord ==
  [requests : Counts, direct : Counts, forwarded : Counts,
   scenarios : [Statuses -> Seq(1..ScenarioCount)], reasons : Seq(Reasons),
   worst : [scenario : 0..ScenarioCount, path : Paths], status : Statuses \cup {"unknown"}]

StatusTypes ==
  /\ StatusTypeOK
  /\ results \in Seq(Scenarios) /\ verdicts \in Seq(Verdicts) /\ summary \in SummaryRecord

Counted == {"attempted", "failed", "timeouts"}

(* The sums over the first k scenarios.                                    *)
Totals(k) ==
  /\ summary.requests = Plus(summary.direct, summary.forwarded)
  /\ \A name \in Paths, count \in Counted : summary[name][count] = Sums(results, name, count)[k]

Listed(k) ==
  /\ \A i \in 1..k : \E j \in DOMAIN summary.scenarios[verdicts[i].status] :
       summary.scenarios[verdicts[i].status][j] = i
  /\ \A s \in Statuses :
       summary.scenarios[s] # <<>> => \E i \in 1..k : verdicts[i].status = s
  /\ summary.reasons = <<>> <=> \A i \in 1..k : verdicts[i].reasons = <<>>

(* Of some paths, none is worse than the one named.                        *)
WorstAmong(worst, paths) ==
  /\ worst.scenario = 0 <=> paths = {}
  /\ worst.scenario # 0 => <<worst.scenario, worst.path>> \in paths
  /\ \A m \in paths : ~IsWorse(results[m[1]][m[2]], results[worst.scenario][worst.path])

WorstOf(k) == WorstAmong(summary.worst, (1..k) \X Paths)

Summed ==
  /\ phase = "summarize" => Totals(next - 1) /\ Listed(next - 1) /\ WorstOf(next - 1)
  /\ phase = "done" => Totals(ScenarioCount) /\ Listed(ScenarioCount) /\ WorstOf(ScenarioCount)
  /\ summary.status = IF phase = "done" THEN SummaryStatus(summary.scenarios) ELSE "unknown"

StatusInv ==
  /\ StatusTypes /\ Counting
  /\ phase \in {"classify", "summarize", "done"} => Classified
  /\ phase # "failed" => Summed

(* The numbers a path is made of.                                          *)
LEMMA Quantities ==
  /\ ScenarioCount \in Nat /\ ScenarioCount >= 1 /\ QueryCount \in Nat /\ QueryCount >= 1
  /\ HundredPercent \in Nat /\ HundredPercent >= 1
  /\ \A path \in PathResult :
       /\ path.attempted = QueryCount /\ path.failed \in Failures /\ path.timeouts \in Failures
       /\ path.failed \in Nat /\ path.timeouts \in Nat /\ path.p95 \in Nat
       /\ path.timeouts <= path.failed
<1>1. /\ ScenarioCount \in Nat /\ ScenarioCount >= 1 /\ QueryCount \in Nat /\ QueryCount >= 1
      /\ HundredPercent \in Nat /\ HundredPercent >= 1
      /\ Failures \subseteq Nat /\ Latencies \subseteq Nat
  BY StatusAssumption DEF StatusAssumption
<1>2. ASSUME NEW path \in PathResult
      PROVE  /\ path.attempted = QueryCount /\ path.failed \in Failures /\ path.timeouts \in Failures
             /\ path.p95 \in Latencies /\ path.timeouts <= path.failed
  BY DEF PathResult
<1>3. QED
  BY <1>1, <1>2

(* The quotient and the remainder.                                         *)
LEMMA Dividing ==
  ASSUME NEW a \in Nat, NEW n \in Nat, n > 0
  PROVE  a \div n \in Nat /\ a % n \in 0..(n - 1) /\ a = n * (a \div n) + (a % n)
OBVIOUS

(* A common factor does not change an order.                               *)
LEMMA Scaling ==
  ASSUME NEW q \in Nat, q > 0, NEW a \in Int, NEW b \in Int
  PROVE  q * a >= q * b <=> a >= b
<1>1. CASE a >= b
  <2>1. PICK d \in Nat : a = b + d
    BY <1>1
  <2>2. q * a = q * b + q * d /\ q * d >= 0
    BY <2>1
  <2>3. QED
    BY <1>1, <2>2
<1>2. CASE a < b
  <2>1. PICK d \in Nat : b = a + d /\ d >= 1
    BY <1>2
  <2>2. q * b = q * a + q * d /\ q * d >= 1
    BY <2>1
  <2>3. q * a \in Int /\ q * b \in Int
    OBVIOUS
  <2>4. QED
    BY <1>2, <2>2, <2>3
<1>3. QED
  BY <1>1, <1>2

(* A quotient is at a bound when the dividend is.                          *)
LEMMA QuotientAt ==
  ASSUME NEW a \in Nat, NEW n \in Nat, n > 0, NEW b \in Int
  PROVE  a \div n >= b <=> a >= n * b
<1> DEFINE d == a \div n
           r == a % n
<1>1. d \in Nat /\ r \in 0..(n - 1) /\ a = n * d + r
  BY Dividing
<1> HIDE DEF d, r
<1>2. n * d \in Int /\ n * b \in Int /\ n * (d + 1) = n * d + n
  BY <1>1
<1>3. CASE d >= b
  BY <1>1, <1>2, <1>3, Scaling
<1>4. CASE ~(d >= b)
  <2>1. b >= d + 1
    BY <1>1, <1>4
  <2>2. n * b >= n * (d + 1)
    BY <1>1, <2>1, Scaling
  <2>3. QED
    BY <1>1, <1>2, <1>4, <2>2
<1>5. QED
  BY <1>3, <1>4 DEF d

(* A rounded rate is at a bound when the exact share is, to within the     *)
(* half of a unit.                                                         *)
LEMMA RateAt ==
  ASSUME NEW path \in PathResult, NEW f \in Nat
  PROVE  /\ Rate(f, path) \in Nat
         /\ \A b \in Int : Rate(f, path) >= b <=> At(f, b)
<1> DEFINE q == QueryCount
           a == 2 * HundredPercent * f + q
<1>1. q \in Nat /\ q >= 1 /\ path.attempted = q /\ HundredPercent \in Nat
  BY Quantities
<1>2. Rate(f, path) = a \div (2 * q)
  BY <1>1 DEF Rate
<1>3. a \in Nat /\ 2 * q \in Nat /\ 2 * q > 0
  BY <1>1
<1>4. Rate(f, path) \in Nat
  <2> HIDE DEF a
  <2>1. QED
    BY <1>1, <1>2, <1>3, Dividing
<1>5. ASSUME NEW b \in Int PROVE Rate(f, path) >= b <=> At(f, b)
  <2>1. a \div (2 * q) >= b <=> a >= (2 * q) * b
    <3> HIDE DEF a
    <3>1. QED
      BY <1>1, <1>3, QuotientAt
  <2> DEFINE c == 2 * HundredPercent * f
             m == b * q
  <2>2. c \in Int /\ m \in Int /\ a = c + q
    BY <1>1
  <2>3. (2 * q) * b = 2 * m /\ (2 * b - 1) * q = 2 * m - q
    BY <1>1
  <2>4. At(f, b) <=> c >= (2 * b - 1) * q
    BY DEF At
  <2> HIDE DEF a, c, m, q
  <2>5. QED
    BY <1>1, <1>2, <2>1, <2>2, <2>3, <2>4
<1>6. QED
  BY <1>4, <1>5

(* A rate is classified by the bounds it reaches.                          *)
LEMMA ClassOfRate ==
  ASSUME NEW path \in PathResult, NEW f \in Nat, NEW bounds \in Bounds,
         bounds.degraded <= bounds.failed
  PROVE  LET class == ClassifyRate(Rate(f, path), bounds)
         IN  /\ class \in Graded
             /\ class = "failed" <=> At(f, bounds.failed)
             /\ class # "passed" <=> At(f, bounds.degraded)
<1> DEFINE p == Rate(f, path)
<1>1. bounds.failed \in Int /\ bounds.degraded \in Int
  BY DEF Bounds
<1>2. /\ p \in Nat
      /\ p >= bounds.failed <=> At(f, bounds.failed)
      /\ p >= bounds.degraded <=> At(f, bounds.degraded)
  BY <1>1, RateAt
<1> HIDE DEF p
<1>3. p >= bounds.failed => p >= bounds.degraded
  BY <1>1, <1>2
<1>4. ClassifyRate(p, bounds) = IF p >= bounds.failed THEN "failed" ELSE IF p >= bounds.degraded THEN "degraded" ELSE "passed"
  BY DEF ClassifyRate
<1>5. QED
  <2> DEFINE c == ClassifyRate(p, bounds)
  <2>1. c \in Graded
    BY <1>4 DEF Graded
  <2>2. c = "failed" <=> At(f, bounds.failed)
    BY <1>2, <1>4
  <2>3. c # "passed" <=> At(f, bounds.degraded)
    BY <1>2, <1>3, <1>4
  <2>4. QED
    BY <2>1, <2>2, <2>3 DEF p

(* Raising a status with its reason keeps them together.                   *)
LEMMA RaiseSupports ==
  ASSUME NEW v, Supported(v), NEW code \in {"none-attempted", "failure", "timeout"},
         NEW name \in Paths, NEW status \in Graded
  PROVE  /\ Supported(Raise(v, code, name, status))
         /\ Raise(v, code, name, status).status = "failed" <=> v.status = "failed" \/ status = "failed"
         /\ Raise(v, code, name, status).status # "passed" <=> v.status # "passed" \/ status # "passed"
<1> DEFINE new == Raise(v, code, name, status)
           found == Finding(code, name, status)
<1>1. /\ v \in Verdicts /\ v.status \in Graded /\ v.reasons \in Seq(Reasons)
      /\ v = [status |-> v.status, reasons |-> v.reasons]
  BY DEF Supported, Verdicts, Reasons
<1>2. CASE status = "passed"
  BY <1>1, <1>2 DEF Raise
<1>3. CASE status # "passed"
  <2> DEFINE n == Len(v.reasons)
             rs == Append(v.reasons, found)
             high == HigherStatus(v.status, status)
  <2>1. new = [status |-> high, reasons |-> rs]
    BY <1>3 DEF Raise
  <2>2. found \in Reasons /\ found.status = status
    BY DEF Finding, Reasons, Graded, Statuses
  <2>3. /\ rs \in Seq(Reasons) /\ n \in Nat /\ Len(rs) = n + 1 /\ rs[n + 1] = found /\ DOMAIN rs = 1..(n + 1)
        /\ \A k \in 1..n : rs[k] = v.reasons[k] /\ v.reasons[k] \in Reasons
        /\ DOMAIN v.reasons = 1..n
    <3> HIDE DEF found
    <3>1. QED
      BY <1>1, <2>2
  <2>4. /\ high \in Graded /\ high # "passed" /\ (high = status \/ high = v.status)
        /\ Severity[v.status] <= Severity[high] /\ Severity[status] <= Severity[high]
        /\ high = "failed" <=> v.status = "failed" \/ status = "failed"
    BY <1>1, <1>3 DEF HigherStatus, Severity, Graded, Statuses
  <2>5. \A r \in Reasons : Severity[r.status] \in 0..4
    BY DEF Reasons, Statuses, Severity
  <2> HIDE DEF found, high, rs, n
  <2>6. Severity[high] \in 0..4 /\ Severity[v.status] \in 0..4
    BY <1>1, <2>4 DEF Graded, Statuses, Severity
  <2>7. ASSUME NEW k \in DOMAIN rs PROVE Severity[rs[k].status] <= Severity[high]
    <3>1. CASE k = n + 1
      BY <2>2, <2>3, <2>4, <3>1
    <3>2. CASE k # n + 1
      <4>1. k \in 1..n /\ rs[k] = v.reasons[k] /\ v.reasons[k] \in Reasons
        BY <2>3, <3>2
      <4>2. Severity[v.reasons[k].status] <= Severity[v.status]
        BY <2>3, <4>1 DEF Supported
      <4>3. QED
        BY <2>4, <2>5, <2>6, <4>1, <4>2
    <3>3. QED
      BY <3>1, <3>2
  <2>8. \E k \in DOMAIN rs : rs[k].status = high
    <3>1. CASE high = status
      <4>1. n + 1 \in DOMAIN rs /\ rs[n + 1].status = high
        BY <2>2, <2>3, <3>1
      <4>2. QED
        BY <4>1
    <3>2. CASE high # status
      <4>1. high = v.status /\ v.status # "passed"
        BY <2>4, <3>2
      <4>2. PICK k \in DOMAIN v.reasons : v.reasons[k].status = v.status
        BY <4>1 DEF Supported
      <4>3. k \in DOMAIN rs /\ rs[k].status = high
        BY <2>3, <4>1, <4>2
      <4>4. QED
        BY <4>3
    <3>3. QED
      BY <3>1, <3>2
  <2>9. new.status = high /\ new.reasons = rs /\ rs # <<>>
    BY <2>1, <2>3
  <2>10. new \in Verdicts
    <3>1. high \in Statuses
      BY <2>4 DEF Graded, Statuses
    <3>2. QED
      BY <2>1, <2>3, <3>1 DEF Verdicts, Reasons
  <2> HIDE DEF new
  <2>11. Supported(new)
    BY <2>4, <2>7, <2>8, <2>9, <2>10 DEF Supported
  <2>12. QED
    BY <1>3, <2>4, <2>9, <2>11 DEF new
<1>4. QED
  BY <1>2, <1>3

Ordered ==
  /\ thresholds.failure \in Bounds /\ thresholds.failure.degraded <= thresholds.failure.failed
  /\ thresholds.timeout \in Bounds /\ thresholds.timeout.degraded <= thresholds.timeout.failed

(* A path raises the status to failed when it is at a bound of failure,    *)
(* and off passed when it is at one of degradation.                        *)
LEMMA PathClassified ==
  ASSUME Ordered, NEW v, Supported(v), NEW name \in Paths, NEW path \in PathResult
  PROVE  LET new == ClassifyPath(v, name, path)
         IN  /\ Supported(new)
             /\ new.status = "failed" <=> v.status = "failed" \/ AtBound(path, "failed")
             /\ new.status # "passed" <=> v.status # "passed" \/ AtBound(path, "degraded")
<1> DEFINE failures == ClassifyRate(Rate(path.failed, path), thresholds.failure)
           timeouts == ClassifyRate(Rate(path.timeouts, path), thresholds.timeout)
           one == Raise(v, "failure", name, failures)
           both == Raise(one, "timeout", name, timeouts)
<1>1. path.attempted = QueryCount /\ QueryCount \in Nat /\ QueryCount >= 1
      /\ path.failed \in Nat /\ path.timeouts \in Nat
  BY Quantities
<1>2. ClassifyPath(v, name, path) = both
  BY <1>1 DEF ClassifyPath
<1>3. /\ failures \in Graded
      /\ failures = "failed" <=> At(path.failed, thresholds.failure.failed)
      /\ failures # "passed" <=> At(path.failed, thresholds.failure.degraded)
  BY <1>1, ClassOfRate DEF Ordered
<1>4. /\ timeouts \in Graded
      /\ timeouts = "failed" <=> At(path.timeouts, thresholds.timeout.failed)
      /\ timeouts # "passed" <=> At(path.timeouts, thresholds.timeout.degraded)
  BY <1>1, ClassOfRate DEF Ordered
<1> HIDE DEF failures, timeouts
<1>5. /\ Supported(one)
      /\ one.status = "failed" <=> v.status = "failed" \/ failures = "failed"
      /\ one.status # "passed" <=> v.status # "passed" \/ failures # "passed"
  BY <1>3, RaiseSupports
<1> HIDE DEF one
<1>6. /\ Supported(both)
      /\ both.status = "failed" <=> one.status = "failed" \/ timeouts = "failed"
      /\ both.status # "passed" <=> one.status # "passed" \/ timeouts # "passed"
  BY <1>4, <1>5, RaiseSupports
<1> HIDE DEF both
<1>7. /\ AtBound(path, "failed") <=> failures = "failed" \/ timeouts = "failed"
      /\ AtBound(path, "degraded") <=> failures # "passed" \/ timeouts # "passed"
  BY <1>3, <1>4 DEF AtBound, Ordered, Bounds
<1>8. QED
  BY <1>2, <1>5, <1>6, <1>7

(* The verdict of a scenario is that of its worst path.                    *)
LEMMA VerdictSupported ==
  ASSUME Ordered, NEW scenario \in Scenarios
  PROVE  /\ Supported(Verdict(scenario))
         /\ Verdict(scenario).status = "failed" <=> \E p \in Paths : AtBound(scenario[p], "failed")
         /\ Verdict(scenario).status # "passed" <=> \E p \in Paths : AtBound(scenario[p], "degraded")
<1> DEFINE one == ClassifyPath(NoFindings, "direct", scenario.direct)
           both == ClassifyPath(one, "forwarded", scenario.forwarded)
<1>1. /\ scenario.direct \in PathResult /\ scenario.forwarded \in PathResult
      /\ scenario.direct = scenario["direct"] /\ scenario.forwarded = scenario["forwarded"]
      /\ "direct" \in Paths /\ "forwarded" \in Paths
  BY DEF Scenarios, Paths
<1>2. Supported(NoFindings) /\ NoFindings.status = "passed"
  BY DEF NoFindings, Supported, Verdicts, Statuses, Graded
<1>3. /\ Supported(one)
      /\ one.status = "failed" <=> AtBound(scenario.direct, "failed")
      /\ one.status # "passed" <=> AtBound(scenario.direct, "degraded")
  BY <1>1, <1>2, PathClassified
<1> HIDE DEF one
<1>4. /\ Supported(both)
      /\ both.status = "failed" <=> one.status = "failed" \/ AtBound(scenario.forwarded, "failed")
      /\ both.status # "passed" <=> one.status # "passed" \/ AtBound(scenario.forwarded, "degraded")
  BY <1>1, <1>3, PathClassified
<1>5. Verdict(scenario) = both
  BY DEF Verdict, one
<1> HIDE DEF both
<1>6. \A bound : (\E p \in Paths : AtBound(scenario[p], bound))
                   <=> AtBound(scenario.direct, bound) \/ AtBound(scenario.forwarded, bound)
  BY <1>1 DEF Paths
<1>7. QED
  BY <1>3, <1>4, <1>5, <1>6

-----------------------------------------------------------------------------
(* THE WORST PATH.  Being worse is a strict order of the three ranks.      *)
FailureRate(path) == Rate(path.failed, path)
TimeoutRate(path) == Rate(path.timeouts, path)
Worse(a, b) ==
  \/ FailureRate(a) > FailureRate(b)
  \/ /\ FailureRate(a) = FailureRate(b)
     /\ TimeoutRate(a) > TimeoutRate(b) \/ (TimeoutRate(a) = TimeoutRate(b) /\ a.p95 > b.p95)

(* The ranks are numbers.                                                  *)
LEMMA RanksAreNumbers ==
  ASSUME NEW path \in PathResult
  PROVE  FailureRate(path) \in Nat /\ TimeoutRate(path) \in Nat /\ path.p95 \in Nat
<1>1. path.failed \in Nat /\ path.timeouts \in Nat /\ path.p95 \in Nat
  BY Quantities
<1>2. QED
  BY <1>1, RateAt DEF FailureRate, TimeoutRate

(* isWorseScenario compares the first rank in which two paths differ.      *)
LEMMA WorseIsOrder ==
  ASSUME NEW a \in PathResult, NEW b \in PathResult
  PROVE  IsWorse(a, b) <=> Worse(a, b)
<1> DEFINE x == <<FailureRate(a), TimeoutRate(a), a.p95>>
           y == <<FailureRate(b), TimeoutRate(b), b.p95>>
<1>1. /\ x[1] \in Nat /\ x[2] \in Nat /\ x[3] \in Nat /\ y[1] \in Nat /\ y[2] \in Nat /\ y[3] \in Nat
      /\ x[1] = FailureRate(a) /\ x[2] = TimeoutRate(a) /\ x[3] = a.p95
      /\ y[1] = FailureRate(b) /\ y[2] = TimeoutRate(b) /\ y[3] = b.p95
  BY RanksAreNumbers
<1>2. IsWorse(a, b) <=> \E k \in 1..3 : x[k] > y[k] /\ \A j \in 1..(k - 1) : x[j] = y[j]
  BY DEF IsWorse, FailureRate, TimeoutRate
<1> HIDE DEF x, y
<1>3. IsWorse(a, b) <=> \/ x[1] > y[1]
                        \/ x[1] = y[1] /\ x[2] > y[2]
                        \/ x[1] = y[1] /\ x[2] = y[2] /\ x[3] > y[3]
  BY <1>2
<1>4. QED
  BY <1>1, <1>3 DEF Worse

(* A strict order, as far as the search for the worst path uses it.        *)
LEMMA WorseFacts ==
  ASSUME NEW a \in PathResult, NEW b \in PathResult, NEW c \in PathResult
  PROVE  /\ ~IsWorse(a, a)
         /\ IsWorse(a, b) => ~IsWorse(b, a)
         /\ IsWorse(b, c) /\ ~IsWorse(a, c) => ~IsWorse(a, b)
<1>1. /\ FailureRate(a) \in Nat /\ TimeoutRate(a) \in Nat /\ a.p95 \in Nat
      /\ FailureRate(b) \in Nat /\ TimeoutRate(b) \in Nat /\ b.p95 \in Nat
      /\ FailureRate(c) \in Nat /\ TimeoutRate(c) \in Nat /\ c.p95 \in Nat
  BY RanksAreNumbers
<1>2. ~Worse(a, a) /\ (Worse(a, b) => ~Worse(b, a)) /\ (Worse(b, c) /\ ~Worse(a, c) => ~Worse(a, b))
  BY <1>1 DEF Worse
<1>3. QED
  BY <1>2, WorseIsOrder

-----------------------------------------------------------------------------
(* THE TOTALS.  The sums of a count are what their definition says.        *)
LEMMA SumsAdd ==
  ASSUME NEW scenarios \in Seq(Scenarios), Len(scenarios) = ScenarioCount,
         NEW name \in Paths, NEW count \in Counted
  PROVE  /\ Sums(scenarios, name, count)[0] = 0
         /\ \A k \in 1..ScenarioCount :
              Sums(scenarios, name, count)[k]
                = Sums(scenarios, name, count)[k - 1] + scenarios[k][name][count]
<1> DEFINE N == ScenarioCount
           S == Sums(scenarios, name, count)
           Step(f) == [k \in 0..N |-> IF k = 0 THEN 0 ELSE f[k - 1] + scenarios[k][name][count]]
           share == [k \in 1..N |-> scenarios[k][name][count]]
<1>1. N \in Nat
  BY Quantities
<1>2. share \in [1..N -> Nat]
  <2>1. ASSUME NEW k \in 1..N PROVE scenarios[k][name][count] \in Nat
    <3>1. scenarios[k][name] \in PathResult
      BY DEF Scenarios
    <3>2. QED
      BY <3>1, Quantities DEF Counted
  <2>2. QED
    BY <2>1
<1>3. PICK f \in [0..N -> Nat] : f[0] = 0 /\ \A k \in 1..N : f[k] = f[k - 1] + share[k]
  <2> HIDE DEF share, N
  <2>1. QED
    BY <1>1, <1>2, PartialSums
<1>4. f = Step(f)
  <2>1. \A k \in 0..N : f[k] = IF k = 0 THEN 0 ELSE f[k - 1] + scenarios[k][name][count]
    BY <1>1, <1>3
  <2>2. QED
    BY <1>3, <2>1
<1>5. S = CHOOSE g : g = Step(g)
  BY DEF Sums
<1>6. S = Step(S)
  <2> HIDE DEF Step, S
  <2>1. QED
    BY <1>4, <1>5
<1>7. QED
  <2> HIDE DEF S
  <2> HIDE DEF N, share
  <2>1. \A k \in 0..N : S[k] = IF k = 0 THEN 0 ELSE S[k - 1] + scenarios[k][name][count]
    BY <1>6
  <2>2. S[0] = 0
    BY <1>1, <2>1
  <2>3. ASSUME NEW k \in 1..N PROVE S[k] = S[k - 1] + scenarios[k][name][count]
    <3>1. k \in 0..N /\ k # 0
      BY <1>1
    <3>2. QED
      BY <2>1, <3>1
  <2>4. QED
    BY <2>2, <2>3 DEF S, N

-----------------------------------------------------------------------------
(* THE STEPS of the report runner.                                         *)

(* Nothing is measured, classified or summed up at the start.              *)
LEMMA InitStatusInv == StatusInit => StatusInv
<1> SUFFICES ASSUME StatusInit PROVE StatusInv
  OBVIOUS
<1>1. /\ summary = NewSummary /\ phase = "validate" /\ next = 1
      /\ results = <<>> /\ verdicts = <<>> /\ failure = "none"
      /\ collecting \in BOOLEAN /\ thresholds \in [failure : Bounds, timeout : Bounds]
  BY StatusAssumption DEF StatusInit, StatusAssumption
<1>2. /\ summary.requests \in Counts /\ summary.direct \in Counts /\ summary.forwarded \in Counts
      /\ summary.status = "unknown" /\ summary.reasons = <<>>
      /\ summary.scenarios = [s \in Statuses |-> <<>>]
      /\ summary.worst = [scenario |-> 0, path |-> "direct"]
  BY <1>1 DEF NewSummary, NoCounts, Counts
<1>3. summary.worst \in [scenario : 0..ScenarioCount, path : Paths]
      /\ summary.scenarios \in [Statuses -> Seq(1..ScenarioCount)]
      /\ summary.reasons \in Seq(Reasons)
  BY <1>2, Quantities DEF Paths
<1> DEFINE zero == [scenario |-> 0, path |-> "direct"]
           none == [s \in Statuses |-> <<>>]
<1>4. StatusTypeOK
  BY <1>1, <1>2, Quantities DEF StatusTypeOK
<1>5. results \in Seq(Scenarios) /\ verdicts \in Seq(Verdicts) /\ summary \in SummaryRecord
  <2>1. summary = [requests |-> NoCounts, direct |-> NoCounts, forwarded |-> NoCounts,
                   scenarios |-> none, reasons |-> <<>>, worst |-> zero, status |-> "unknown"]
    BY <1>1 DEF NewSummary
  <2>2. none \in [Statuses -> Seq(1..ScenarioCount)] /\ zero \in [scenario : 0..ScenarioCount, path : Paths]
    BY <1>2, <1>3
  <2>3. NoCounts \in Counts
    BY DEF NoCounts, Counts
  <2> HIDE DEF none, zero
  <2>4. QED
    BY <1>1, <2>1, <2>2, <2>3 DEF SummaryRecord
<1>6. Summed
  BY <1>1, <1>2 DEF Summed
<1>7. QED
  BY <1>1, <1>2, <1>3, <1>4, <1>5, <1>6 DEF StatusInv, StatusTypes, Counting

(* Going on to the next scenario, or to the next phase after the last one. *)
LEMMA Advances ==
  ASSUME StatusTypeOK, NEW then, Advance(then)
  PROVE  /\ next \in 1..ScenarioCount /\ next' \in 1..ScenarioCount /\ ScenarioCount \in Nat
         /\ \/ next < ScenarioCount /\ next' = next + 1 /\ phase' = phase
            \/ next = ScenarioCount /\ next' = 1 /\ phase' = then
<1>1. next \in 1..ScenarioCount /\ ScenarioCount \in Nat /\ ScenarioCount >= 1
  BY Quantities DEF StatusTypeOK
<1>2. CASE next = ScenarioCount
  BY <1>1, <1>2 DEF Advance
<1>3. CASE next # ScenarioCount
  BY <1>1, <1>3 DEF Advance
<1>4. QED
  BY <1>2, <1>3

(* Thresholds are resolved, and in order when the suite begins.            *)
LEMMA ValidateStep ==
  ASSUME StatusInv, Validate
  PROVE  StatusInv'
<1> DEFINE resolved == Resolved(thresholds)
<1>1. /\ phase = "validate"
      /\ UNCHANGED <<next, collecting, results, verdicts, summary>>
      /\ \/ /\ ValidBounds(resolved.failure) /\ ValidBounds(resolved.timeout)
            /\ phase' = "suite" /\ thresholds' = resolved /\ failure' = failure
         \/ phase' = "failed" /\ failure' = "config" /\ thresholds' = thresholds
  BY DEF Validate, FailWith
<1>2. resolved \in [failure : Bounds, timeout : Bounds]
  <2>1. HundredPercent \div 100 \in Int /\ HundredPercent \div 20 \in Int
    BY Quantities
  <2>2. Default \in Bounds
    BY <2>1 DEF Default, Bounds
  <2>3. thresholds \in [failure : Bounds, timeout : Bounds]
    BY DEF StatusInv, StatusTypes, StatusTypeOK
  <2>4. QED
    BY <2>2, <2>3 DEF Resolved
<1> HIDE DEF resolved
<1>3. next = 1 /\ results = <<>> /\ verdicts = <<>> /\ summary = NewSummary
  BY <1>1 DEF StatusInv, Counting
<1>4. StatusTypeOK'
  <2>1. CASE phase' = "suite"
    <3>1. ValidBounds(resolved.failure) /\ ValidBounds(resolved.timeout) /\ thresholds' = resolved
          /\ failure' = failure
      BY <1>1, <2>1
    <3>2. resolved.failure \in Bounds /\ resolved.timeout \in Bounds
      BY <1>2
    <3>3. QED
      BY <1>1, <1>2, <2>1, <3>1, <3>2 DEF StatusInv, StatusTypes, StatusTypeOK, ValidBounds, Bounds
  <2>2. CASE phase' = "failed"
    BY <1>1, <2>2 DEF StatusInv, StatusTypes, StatusTypeOK
  <2>3. QED
    BY <1>1, <2>1, <2>2
<1>5. StatusTypes'
  BY <1>1, <1>4 DEF StatusInv, StatusTypes
<1>6. Counting' /\ phase' \in {"suite", "failed"}
  BY <1>1, <1>3 DEF Counting
<1>7. Summed'
  BY <1>1, <1>6 DEF StatusInv, Summed
<1>8. QED
  BY <1>5, <1>6, <1>7 DEF StatusInv

(* One more scenario is measured.                                          *)
LEMMA MeasureStep ==
  ASSUME StatusInv, Measure
  PROVE  StatusInv'
<1>1. PICK direct \in PathResult, forwarded \in PathResult :
        results' = Append(results, [direct |-> direct, forwarded |-> forwarded])
  BY DEF Measure
<1> DEFINE s == [direct |-> direct, forwarded |-> forwarded]
<1>2. s \in Scenarios
  BY DEF Scenarios, Paths
<1> HIDE DEF s
<1>3. /\ phase = "suite" /\ Advance("classify")
      /\ UNCHANGED <<collecting, thresholds, verdicts, summary, failure>>
      /\ results' = Append(results, s)
  BY <1>1 DEF Measure, s
<1>4. /\ next \in 1..ScenarioCount /\ next' \in 1..ScenarioCount /\ ScenarioCount \in Nat
      /\ \/ next < ScenarioCount /\ next' = next + 1 /\ phase' = "suite"
         \/ next = ScenarioCount /\ next' = 1 /\ phase' = "classify"
  BY <1>3, Advances DEF StatusInv, StatusTypes
<1>5. results \in Seq(Scenarios) /\ Len(results) = next - 1 /\ verdicts = <<>> /\ summary = NewSummary
  BY <1>3 DEF StatusInv, StatusTypes, Counting
<1>6. /\ results' \in Seq(Scenarios) /\ Len(results') = next
      /\ \A i \in DOMAIN results' : results'[i] \in [Paths -> PathResult]
  BY <1>2, <1>3, <1>4, <1>5 DEF Scenarios
<1>7. StatusTypeOK'
  BY <1>3, <1>4, <1>6 DEF StatusInv, StatusTypes, StatusTypeOK
<1>8. StatusTypes'
  BY <1>3, <1>6, <1>7 DEF StatusInv, StatusTypes
<1>9. Counting' /\ Len(verdicts') = 0
  <2>1. Len(verdicts') = 0 /\ summary' = NewSummary /\ verdicts' = <<>>
    BY <1>3, <1>5
  <2>2. CASE phase' = "suite"
    BY <1>4, <1>6, <2>1, <2>2 DEF Counting
  <2>3. CASE phase' = "classify"
    BY <1>4, <1>6, <2>1, <2>3 DEF Counting
  <2>4. QED
    BY <1>4, <2>1, <2>2, <2>3
<1>10. Classified' /\ Summed'
  BY <1>3, <1>4, <1>9 DEF StatusInv, Summed, Classified
<1>11. QED
  BY <1>4, <1>8, <1>9, <1>10 DEF StatusInv

(* A run that failed promises nothing but its types.                       *)
LEMMA FailSteps ==
  ASSUME StatusInv, SuiteFails \/ CollectorFails
  PROVE  StatusInv'
<1>1. /\ phase' = "failed" /\ failure' \in {"suite", "collection"}
      /\ UNCHANGED <<next, collecting, thresholds, results, verdicts, summary>>
  BY DEF SuiteFails, CollectorFails, FailWith, ErrorOf
<1>2. StatusTypes' /\ Counting'
  BY <1>1 DEF StatusInv, StatusTypes, StatusTypeOK, Counting
<1>3. QED
  BY <1>1, <1>2 DEF StatusInv

(* Past the validation the bounds are in order.                            *)
LEMMA InOrder ==
  ASSUME StatusTypeOK, phase \notin {"validate", "failed"}
  PROVE  Ordered
BY DEF StatusTypeOK, Ordered

(* One more scenario has its verdict.                                      *)
LEMMA ClassifyStep ==
  ASSUME StatusInv, ClassifyScenario
  PROVE  StatusInv'
<1> DEFINE v == Verdict(results[next])
<1>1. /\ phase = "classify" /\ Advance("summarize") /\ verdicts' = Append(verdicts, v)
      /\ UNCHANGED <<collecting, thresholds, results, summary, failure>>
  BY DEF ClassifyScenario
<1>2. /\ next \in 1..ScenarioCount /\ next' \in 1..ScenarioCount /\ ScenarioCount \in Nat
      /\ \/ next < ScenarioCount /\ next' = next + 1 /\ phase' = "classify"
         \/ next = ScenarioCount /\ next' = 1 /\ phase' = "summarize"
  BY <1>1, Advances DEF StatusInv, StatusTypes
<1>3. /\ results \in Seq(Scenarios) /\ Len(results) = ScenarioCount
      /\ verdicts \in Seq(Verdicts) /\ Len(verdicts) = next - 1 /\ summary = NewSummary
      /\ Classified
  BY <1>1 DEF StatusInv, StatusTypes, Counting
<1>4. results[next] \in Scenarios
  BY <1>2, <1>3
<1>5. v \in Verdicts
  BY <1>1, <1>4, InOrder, VerdictSupported DEF StatusInv, StatusTypes, Supported
<1>6. \A i \in 1..ScenarioCount : Verdict(results[i])' = Verdict(results[i])
  BY <1>1 DEF Verdict, ClassifyPath
<1>7. v = Verdict(results[next])
  OBVIOUS
<1> HIDE DEF v
<1>8. /\ verdicts' \in Seq(Verdicts) /\ Len(verdicts') = next /\ verdicts'[next] = v
      /\ \A i \in 1..(next - 1) : verdicts'[i] = verdicts[i]
      /\ \A i \in DOMAIN verdicts' : verdicts'[i] \in Verdicts
  BY <1>1, <1>2, <1>3, <1>5
<1>9. ASSUME NEW i \in 1..next PROVE verdicts'[i] = Verdict(results[i])'
  <2>1. i \in 1..ScenarioCount
    BY <1>2
  <2>2. CASE i = next
    BY <1>6, <1>7, <1>8, <2>1, <2>2
  <2>3. CASE i # next
    <3>1. i \in 1..(next - 1) /\ verdicts[i] = Verdict(results[i])
      BY <1>2, <1>3, <2>3 DEF Classified
    <3>2. QED
      BY <1>6, <1>8, <2>1, <3>1
  <2>4. QED
    BY <2>2, <2>3
<1>10. Classified'
  BY <1>8, <1>9 DEF Classified
<1>11. StatusTypeOK'
  BY <1>1, <1>2, <1>8 DEF StatusInv, StatusTypes, StatusTypeOK
<1>12. StatusTypes'
  BY <1>1, <1>8, <1>11 DEF StatusInv, StatusTypes
<1>13. Counting'
  <2>1. Len(results') = ScenarioCount /\ Len(verdicts') = next /\ summary' = NewSummary
    BY <1>1, <1>3, <1>8
  <2>2. CASE phase' = "classify"
    BY <1>2, <2>1, <2>2 DEF Counting
  <2>3. CASE phase' = "summarize"
    BY <1>2, <2>1, <2>3 DEF Counting
  <2>4. QED
    BY <1>2, <2>2, <2>3
<1>14. Summed'
  <2>1. /\ summary' = NewSummary /\ summary'.worst.scenario = 0 /\ summary'.reasons = <<>>
        /\ summary'.status = "unknown" /\ \A s \in Statuses : summary'.scenarios[s] = <<>>
        /\ summary'.requests = NoCounts /\ summary'.direct = NoCounts /\ summary'.forwarded = NoCounts
    BY <1>1, <1>3 DEF NewSummary
  <2>2. Totals(0)'
    <3>1. results' \in Seq(Scenarios) /\ Len(results') = ScenarioCount
      BY <1>1, <1>3
    <3>2. \A name \in Paths, count \in Counted : Sums(results', name, count)[0] = 0
      BY <3>1, SumsAdd
    <3>3. \A name \in Paths, count \in Counted : summary'[name][count] = 0
      BY <2>1 DEF Paths, Counted, NoCounts
    <3>4. summary'.requests = Plus(summary'.direct, summary'.forwarded)
      BY <2>1 DEF NoCounts, Plus
    <3>5. QED
      BY <3>2, <3>3, <3>4 DEF Totals
  <2>3. Listed(0)' /\ WorstOf(0)'
    BY <2>1 DEF Listed, WorstOf, WorstAmong
  <2>4. phase' = "summarize" => next' - 1 = 0
    BY <1>2
  <2>5. phase' # "done" /\ summary'.status = "unknown"
    BY <1>2, <2>1
  <2>6. phase' = "summarize" => Totals(next - 1)' /\ Listed(next - 1)' /\ WorstOf(next - 1)'
    BY <2>2, <2>3, <2>4
  <2>7. QED
    BY <2>5, <2>6 DEF Summed
<1>15. QED
  BY <1>2, <1>10, <1>12, <1>13, <1>14 DEF StatusInv

(* Comparing with one more path.                                           *)
LEMMA WorstStep ==
  ASSUME results \in Seq(Scenarios), Len(results) = ScenarioCount,
         NEW w, NEW paths, paths \subseteq Measured, WorstAmong(w, paths),
         NEW i \in 1..ScenarioCount, NEW name \in Paths
  PROVE  WorstAmong(Worst(w, i, name), paths \cup {<<i, name>>})
<1> DEFINE new == [scenario |-> i, path |-> name]
           Res(m) == results[m[1]][m[2]]
           this == results[i][name]
           worst == results[w.scenario][w.path]
<1>1. i \in Nat /\ i # 0 /\ new.scenario = i /\ new.path = name
  BY Quantities
<1>2. \A m \in Measured : Res(m) \in PathResult
  BY Quantities DEF Measured, Scenarios
<1>3. this \in PathResult
  BY Quantities DEF Scenarios
<1>4. Worst(w, i, name) = IF w.scenario = 0 \/ IsWorse(this, worst) THEN new ELSE w
  BY DEF Worst
<1>5. ASSUME NEW old, old \subseteq Measured, \A m \in old \cup {<<i, name>>} : ~IsWorse(Res(m), this)
      PROVE  WorstAmong(new, old \cup {<<i, name>>})
  <2>1. results[new.scenario][new.path] = this /\ <<new.scenario, new.path>> = <<i, name>>
    BY <1>1
  <2> HIDE DEF new, this
  <2>2. QED
    BY <1>1, <1>5, <2>1 DEF WorstAmong
<1>6. CASE w.scenario = 0
  <2>1. paths = {} /\ Worst(w, i, name) = new
    BY <1>4, <1>6 DEF WorstAmong
  <2>2. ~IsWorse(this, this) /\ Res(<<i, name>>) = this
    BY <1>3, WorseFacts
  <2> HIDE DEF new, Res, this
  <2>3. \A m \in paths \cup {<<i, name>>} : ~IsWorse(Res(m), this)
    BY <2>1, <2>2
  <2>4. QED
    BY <1>5, <2>1, <2>3
<1>7. CASE w.scenario # 0
  <2>1. worst \in PathResult
    <3>1. <<w.scenario, w.path>> \in Measured
      BY <1>7 DEF WorstAmong
    <3>2. QED
      BY <1>2, <3>1
  <2>2. CASE IsWorse(this, worst)
    <3>1. Worst(w, i, name) = new
      BY <1>4, <2>2
    <3>2. ASSUME NEW m \in paths \cup {<<i, name>>} PROVE ~IsWorse(Res(m), this)
      <4>1. CASE m = <<i, name>>
        BY <1>3, <4>1, WorseFacts
      <4>2. CASE m # <<i, name>>
        <5>1. m \in paths /\ ~IsWorse(Res(m), worst) /\ Res(m) \in PathResult
          BY <1>2, <4>2 DEF WorstAmong
        <5> HIDE DEF Res, this, worst
        <5>2. QED
          BY <1>3, <2>1, <2>2, <5>1, WorseFacts
      <4>3. QED
        BY <4>1, <4>2
    <3>3. QED
      BY <1>5, <3>1, <3>2
  <2>3. CASE ~IsWorse(this, worst)
    <3>1. Worst(w, i, name) = w
      BY <1>4, <1>7, <2>3
    <3>2. QED
      BY <1>7, <2>3, <3>1 DEF WorstAmong
  <2>4. QED
    BY <2>2, <2>3
<1>8. QED
  BY <1>6, <1>7

(* The summary with one more scenario, field by field.                     *)
LEMMA SummaryStep ==
  ASSUME StatusInv, Summarize
  PROVE  LET scenario == results[next]
             verdict == verdicts[next]
         IN  /\ summary' \in SummaryRecord
             /\ summary'.direct = Plus(summary.direct, scenario.direct)
             /\ summary'.forwarded = Plus(summary.forwarded, scenario.forwarded)
             /\ summary'.requests = AddScenario(summary.requests, scenario)
             /\ summary'.scenarios = [summary.scenarios EXCEPT ![verdict.status] = Append(@, next)]
             /\ summary'.reasons = summary.reasons \o verdict.reasons
             /\ summary'.worst = Worst(Worst(summary.worst, next, "direct"), next, "forwarded")
             /\ summary'.status = IF next = ScenarioCount THEN SummaryStatus(summary'.scenarios)
                                                          ELSE summary.status
<1> DEFINE scenario == results[next]
           verdict == verdicts[next]
           direct == Plus(summary.direct, scenario.direct)
           forwarded == Plus(summary.forwarded, scenario.forwarded)
           requests == AddScenario(summary.requests, scenario)
           scenarios == [summary.scenarios EXCEPT ![verdict.status] = Append(@, next)]
           reasons == summary.reasons \o verdict.reasons
           worst == Worst(Worst(summary.worst, next, "direct"), next, "forwarded")
           sum == Accumulated(next)
<1>1. /\ phase = "summarize" /\ summary \in SummaryRecord
      /\ results \in Seq(Scenarios) /\ Len(results) = ScenarioCount
      /\ verdicts \in Seq(Verdicts) /\ Len(verdicts) = ScenarioCount
      /\ next \in 1..ScenarioCount
  BY DEF Summarize, StatusInv, StatusTypes, StatusTypeOK, Counting
<1>2. scenario \in Scenarios /\ verdict \in Verdicts
  BY <1>1
<1>3. scenario.direct \in PathResult /\ scenario.forwarded \in PathResult
  BY <1>2 DEF Scenarios, Paths
<1>4. \A total \in Counts, path \in PathResult : Plus(total, path) \in Counts
  BY Quantities DEF Plus, Counts
<1>5. direct \in Counts /\ forwarded \in Counts /\ requests \in Counts
  BY <1>1, <1>3, <1>4 DEF SummaryRecord, AddScenario
<1>6. scenarios \in [Statuses -> Seq(1..ScenarioCount)]
  <2>1. summary.scenarios \in [Statuses -> Seq(1..ScenarioCount)] /\ verdict.status \in Statuses
    BY <1>1, <1>2 DEF SummaryRecord, Verdicts
  <2>2. Append(summary.scenarios[verdict.status], next) \in Seq(1..ScenarioCount)
    BY <1>1, <2>1
  <2>3. QED
    BY <2>1, <2>2
<1>7. reasons \in Seq(Reasons)
  BY <1>1, <1>2 DEF SummaryRecord, Verdicts, Reasons
<1>8. worst \in [scenario : 0..ScenarioCount, path : Paths]
  BY <1>1, Quantities DEF SummaryRecord, Worst, Paths
<1>9. sum = [summary EXCEPT !.requests = requests, !.direct = direct, !.forwarded = forwarded,
                            !.scenarios = scenarios, !.reasons = reasons, !.worst = worst]
  BY DEF Accumulated
<1>10. summary' = IF next = ScenarioCount THEN [sum EXCEPT !.status = SummaryStatus(sum.scenarios)] ELSE sum
  BY DEF Summarize
<1> HIDE DEF direct, forwarded, requests, scenarios, reasons, worst, sum
<1>11. /\ sum \in SummaryRecord
       /\ sum.requests = requests /\ sum.direct = direct /\ sum.forwarded = forwarded
       /\ sum.scenarios = scenarios /\ sum.reasons = reasons /\ sum.worst = worst
       /\ sum.status = summary.status
  BY <1>1, <1>5, <1>6, <1>7, <1>8, <1>9 DEF SummaryRecord
<1>12. SummaryStatus(scenarios) \in Statuses \cup {"unknown"}
  BY DEF SummaryStatus, Statuses
<1>13. CASE next = ScenarioCount
  <2>1. summary' = [sum EXCEPT !.status = SummaryStatus(scenarios)]
    BY <1>10, <1>11, <1>13
  <2>2. /\ summary' \in SummaryRecord /\ summary'.status = SummaryStatus(scenarios)
        /\ summary'.requests = requests /\ summary'.direct = direct /\ summary'.forwarded = forwarded
        /\ summary'.scenarios = scenarios /\ summary'.reasons = reasons /\ summary'.worst = worst
    BY <1>11, <1>12, <2>1 DEF SummaryRecord
  <2>3. QED
    BY <1>13, <2>2 DEF direct, forwarded, requests, scenarios, reasons, worst
<1>14. CASE next # ScenarioCount
  BY <1>10, <1>11, <1>14 DEF direct, forwarded, requests, scenarios, reasons, worst
<1>15. QED
  BY <1>13, <1>14

(* A sequence grown at its end is empty only when it was and nothing came. *)
LEMMA ConcatEmpty ==
  ASSUME NEW S, NEW s \in Seq(S), NEW t \in Seq(S)
  PROVE  s \o t = <<>> <=> s = <<>> /\ t = <<>>
<1>1. Len(s \o t) = Len(s) + Len(t) /\ Len(s) \in Nat /\ Len(t) \in Nat
  OBVIOUS
<1>2. (s = <<>> <=> Len(s) = 0) /\ (t = <<>> <=> Len(t) = 0) /\ (s \o t = <<>> <=> Len(s \o t) = 0)
  OBVIOUS
<1>3. QED
  BY <1>1, <1>2

(* The totals grow by a scenario.                                          *)
LEMMA TotalsStep ==
  ASSUME StatusInv, Summarize, NEW k, k = next, Totals(k - 1)
  PROVE  Totals(k)'
<1> DEFINE scenario == results[next]
           d == scenario.direct
           f == scenario.forwarded
<1>1. /\ next \in 1..ScenarioCount /\ results \in Seq(Scenarios) /\ Len(results) = ScenarioCount
      /\ summary \in SummaryRecord /\ results' = results
  BY DEF Summarize, StatusInv, StatusTypes, StatusTypeOK, Counting
<1>2. d \in PathResult /\ f \in PathResult /\ d = scenario["direct"] /\ f = scenario["forwarded"]
  BY <1>1 DEF Scenarios, Paths
<1>3. /\ summary'.direct = Plus(summary.direct, d)
      /\ summary'.forwarded = Plus(summary.forwarded, f)
      /\ summary'.requests = Plus(Plus(summary.requests, d), f)
  BY SummaryStep DEF AddScenario
<1>4. /\ summary.requests = Plus(summary.direct, summary.forwarded)
      /\ \A name \in Paths, count \in Counted : summary[name][count] = Sums(results, name, count)[k - 1]
  BY DEF Totals
<1>5. summary.direct \in Counts /\ summary.forwarded \in Counts
  BY <1>1 DEF SummaryRecord
<1>6. /\ d.attempted \in Nat /\ d.failed \in Nat /\ d.timeouts \in Nat
      /\ f.attempted \in Nat /\ f.failed \in Nat /\ f.timeouts \in Nat
  BY <1>2, Quantities
<1>7. \A name \in Paths, count \in Counted :
        Sums(results, name, count)[k] = Sums(results, name, count)[k - 1] + scenario[name][count]
  BY <1>1, SumsAdd
<1> HIDE DEF scenario
<1>8. ASSUME NEW name \in Paths, NEW count \in Counted
      PROVE  summary'[name][count] = summary[name][count] + scenario[name][count]
  <2> HIDE DEF d, f
  <2>1. \A total \in Counts : \A path : Plus(total, path)[count] = total[count] + path[count]
    BY DEF Plus, Counted
  <2>2. CASE name = "direct"
    BY <1>2, <1>3, <1>5, <2>1, <2>2
  <2>3. CASE name = "forwarded"
    BY <1>2, <1>3, <1>5, <2>1, <2>3
  <2>4. QED
    BY <2>2, <2>3 DEF Paths
<1>9. summary'.requests = Plus(summary'.direct, summary'.forwarded)
  <2> HIDE DEF d, f
  <2>1. \A a, b \in Counts :
          Plus(Plus(Plus(a, b), d), f) = Plus(Plus(a, d), Plus(b, f))
    BY <1>6 DEF Plus, Counts
  <2>2. summary'.requests = Plus(Plus(Plus(summary.direct, summary.forwarded), d), f)
    BY <1>3, <1>4
  <2>3. QED
    BY <1>3, <1>5, <2>1, <2>2
<1>10. \A name \in Paths, count \in Counted : summary'[name][count] = Sums(results', name, count)[k]
  BY <1>1, <1>4, <1>7, <1>8
<1>11. QED
  BY <1>9, <1>10 DEF Totals

(* The scenario is listed under its status, with its reasons.              *)
LEMMA ListedStep ==
  ASSUME StatusInv, Summarize, NEW k, k = next, Listed(k - 1)
  PROVE  Listed(k)'
<1> DEFINE at == verdicts[k].status
           old == summary.scenarios
           new == summary'.scenarios
<1>1. /\ k \in 1..ScenarioCount /\ ScenarioCount \in Nat
      /\ verdicts \in Seq(Verdicts) /\ Len(verdicts) = ScenarioCount
      /\ summary \in SummaryRecord /\ verdicts' = verdicts
  BY Quantities DEF Summarize, StatusInv, StatusTypes, StatusTypeOK, Counting
<1>2. /\ \A i \in 1..k : verdicts[i] \in Verdicts
      /\ old \in [Statuses -> Seq(1..ScenarioCount)] /\ summary.reasons \in Seq(Reasons)
  BY <1>1 DEF SummaryRecord
<1>3. at \in Statuses /\ verdicts[k].reasons \in Seq(Reasons) /\ \A i \in 1..k : verdicts[i].status \in Statuses
  <2>1. \A v \in Verdicts : v.status \in Statuses /\ v.reasons \in Seq(Reasons)
    BY DEF Verdicts, Reasons
  <2>2. k \in 1..k
    BY <1>1
  <2>3. QED
    BY <1>2, <2>1, <2>2
<1>4. new = [old EXCEPT ![at] = Append(@, k)] /\ summary'.reasons = summary.reasons \o verdicts[k].reasons
  BY SummaryStep
<1> HIDE DEF at, old, new
<1>5. /\ new[at] = Append(old[at], k)
      /\ \A s \in Statuses \ {at} : new[s] = old[s]
      /\ \A s \in Statuses : old[s] \in Seq(1..ScenarioCount)
  BY <1>2, <1>3, <1>4
<1>6. /\ Len(new[at]) = Len(old[at]) + 1 /\ new[at][Len(old[at]) + 1] = k
      /\ DOMAIN new[at] = 1..(Len(old[at]) + 1) /\ Len(old[at]) \in Nat
      /\ \A j \in DOMAIN old[at] : j \in DOMAIN new[at] /\ new[at][j] = old[at][j]
      /\ new[at] # <<>>
  <2>1. \A s \in Seq(1..ScenarioCount), x \in 1..ScenarioCount :
          /\ Len(Append(s, x)) = Len(s) + 1 /\ Append(s, x)[Len(s) + 1] = x
          /\ DOMAIN Append(s, x) = 1..(Len(s) + 1) /\ Len(s) \in Nat
          /\ \A j \in DOMAIN s : j \in DOMAIN Append(s, x) /\ Append(s, x)[j] = s[j]
          /\ Append(s, x) # <<>>
    OBVIOUS
  <2>2. QED
    BY <1>1, <1>3, <1>5, <2>1
<1>7. ASSUME NEW i \in 1..k
      PROVE  \E j \in DOMAIN new[verdicts[i].status] : new[verdicts[i].status][j] = i
  <2>1. CASE i = k
    <3>1. Len(old[at]) + 1 \in DOMAIN new[at]
      BY <1>6
    <3>2. QED
      BY <1>6, <2>1, <3>1 DEF at
  <2>2. CASE i # k
    <3>1. i \in 1..(k - 1)
      BY <1>1, <2>2
    <3>2. PICK j \in DOMAIN old[verdicts[i].status] : old[verdicts[i].status][j] = i
      BY <3>1 DEF Listed, old
    <3>3. j \in DOMAIN new[verdicts[i].status] /\ new[verdicts[i].status][j] = i
      BY <1>3, <1>5, <1>6, <3>2
    <3>4. QED
      BY <3>3
  <2>3. QED
    BY <2>1, <2>2
<1>8. ASSUME NEW s \in Statuses, new[s] # <<>>
      PROVE  \E i \in 1..k : verdicts[i].status = s
  <2>1. CASE s = at
    BY <1>1, <2>1 DEF at
  <2>2. CASE s # at
    <3>1. old[s] # <<>>
      BY <1>5, <1>8, <2>2
    <3>2. PICK i \in 1..(k - 1) : verdicts[i].status = s
      BY <3>1 DEF Listed, old
    <3>3. i \in 1..k
      BY <1>1
    <3>4. QED
      BY <3>2, <3>3
  <2>3. QED
    BY <2>1, <2>2
<1>9. summary'.reasons = <<>> <=> \A i \in 1..k : verdicts[i].reasons = <<>>
  <2>1. summary'.reasons = <<>> <=> summary.reasons = <<>> /\ verdicts[k].reasons = <<>>
    BY <1>2, <1>3, <1>4, ConcatEmpty
  <2>2. summary.reasons = <<>> <=> \A i \in 1..(k - 1) : verdicts[i].reasons = <<>>
    BY DEF Listed
  <2>3. 1..k = 1..(k - 1) \cup {k}
    BY <1>1
  <2>4. QED
    BY <2>1, <2>2, <2>3
<1>10. QED
  BY <1>1, <1>7, <1>8, <1>9 DEF Listed, new

(* The worst path so far is compared with both paths of the scenario.      *)
LEMMA WorstOfStep ==
  ASSUME StatusInv, Summarize, NEW k, k = next, WorstOf(k - 1)
  PROVE  WorstOf(k)'
<1> DEFINE earlier == (1..(k - 1)) \X Paths
           one == Worst(summary.worst, k, "direct")
           two == Worst(one, k, "forwarded")
<1>1. /\ k \in 1..ScenarioCount /\ ScenarioCount \in Nat /\ results' = results
      /\ results \in Seq(Scenarios) /\ Len(results) = ScenarioCount
  BY Quantities DEF Summarize, StatusInv, StatusTypes, StatusTypeOK, Counting
<1>2. /\ earlier \subseteq Measured /\ <<k, "direct">> \in Measured
      /\ "direct" \in Paths /\ "forwarded" \in Paths
  BY <1>1 DEF Measured, Paths
<1>3. (1..k) \X Paths = (earlier \cup {<<k, "direct">>}) \cup {<<k, "forwarded">>}
  BY <1>1 DEF Paths
<1>4. WorstAmong(summary.worst, earlier)
  BY DEF WorstOf
<1>5. summary'.worst = two
  BY SummaryStep
<1> HIDE DEF earlier
<1>6. WorstAmong(one, earlier \cup {<<k, "direct">>})
  BY <1>1, <1>2, <1>4, WorstStep
<1> HIDE DEF one
<1>7. WorstAmong(two, (earlier \cup {<<k, "direct">>}) \cup {<<k, "forwarded">>})
  BY <1>1, <1>2, <1>6, WorstStep
<1> HIDE DEF two
<1>8. WorstAmong(summary'.worst, (1..k) \X Paths)
  BY <1>3, <1>5, <1>7
<1>9. QED
  BY <1>1, <1>8 DEF WorstOf, WorstAmong

(* One more scenario is summed up.                                         *)
LEMMA SummarizeStep ==
  ASSUME StatusInv, Summarize
  PROVE  StatusInv'
<1>1. /\ phase = "summarize" /\ Advance("done")
      /\ UNCHANGED <<collecting, thresholds, verdicts, results, failure>>
  BY DEF Summarize
<1>2. PICK k : k = next
  OBVIOUS
<1>3. /\ k \in 1..ScenarioCount /\ next' \in 1..ScenarioCount /\ ScenarioCount \in Nat
      /\ \/ k < ScenarioCount /\ next' = k + 1 /\ phase' = "summarize"
         \/ k = ScenarioCount /\ next' = 1 /\ phase' = "done"
  BY <1>1, <1>2, Advances DEF StatusInv, StatusTypes
<1>4. Len(results) = ScenarioCount /\ Len(verdicts) = ScenarioCount /\ Classified
  BY <1>1 DEF StatusInv, Counting
<1>5. Totals(k - 1) /\ Listed(k - 1) /\ WorstOf(k - 1) /\ summary.status = "unknown"
  BY <1>1, <1>2 DEF StatusInv, Summed
<1>6. Totals(k)' /\ Listed(k)' /\ WorstOf(k)'
  BY <1>2, <1>5, TotalsStep, ListedStep, WorstOfStep
<1>7. summary' \in SummaryRecord
      /\ summary'.status = IF k = ScenarioCount THEN SummaryStatus(summary'.scenarios) ELSE summary.status
  BY <1>2, SummaryStep
<1>8. StatusTypeOK'
  <2>1. /\ summary'.requests \in Counts /\ summary'.direct \in Counts /\ summary'.forwarded \in Counts
        /\ summary'.status \in Statuses \cup {"unknown"}
    BY <1>7 DEF SummaryRecord
  <2>2. QED
    BY <1>1, <1>3, <2>1 DEF StatusInv, StatusTypes, StatusTypeOK
<1>9. StatusTypes'
  BY <1>1, <1>7, <1>8 DEF StatusInv, StatusTypes
<1>10. Counting'
  BY <1>1, <1>3, <1>4 DEF Counting
<1>11. Classified'
  BY <1>1, <1>4 DEF Classified, Verdict, ClassifyPath
<1>12. Summed'
  <2>1. CASE k = ScenarioCount
    BY <1>3, <1>6, <1>7, <2>1 DEF Summed
  <2>2. CASE k # ScenarioCount
    <3>1. phase' = "summarize" /\ next' = k + 1 /\ k \in Nat
      BY <1>3, <2>2
    <3>. next' - 1 = k
      BY <3>1
    <3>2. Totals(next - 1)' /\ Listed(next - 1)' /\ WorstOf(next - 1)'
      BY <1>6, <3>1
    <3>3. QED
      BY <1>5, <1>7, <2>2, <3>1, <3>2 DEF Summed
  <2>3. QED
    BY <2>1, <2>2
<1>13. QED
  BY <1>9, <1>10, <1>11, <1>12 DEF StatusInv

(* StatusInv is inductive.                                                 *)
LEMMA StepStatusInv == StatusInv /\ [StatusNext]_statusVars => StatusInv'
<1> SUFFICES ASSUME StatusInv, [StatusNext]_statusVars PROVE StatusInv'
  OBVIOUS
<1>1. CASE Validate
  BY <1>1, ValidateStep
<1>2. CASE Measure
  BY <1>2, MeasureStep
<1>3. CASE SuiteFails \/ CollectorFails
  BY <1>3, FailSteps
<1>4. CASE ClassifyScenario
  BY <1>4, ClassifyStep
<1>5. CASE Summarize
  BY <1>5, SummarizeStep
<1>6. CASE UNCHANGED statusVars
  <2>1. UNCHANGED <<phase, next, collecting, thresholds, results, verdicts, summary, failure>>
    BY <1>6 DEF statusVars
  <2>2. StatusTypes' /\ Counting'
    BY <2>1 DEF StatusInv, StatusTypes, StatusTypeOK, Counting
  <2>3. Classified' <=> Classified
    BY <2>1 DEF Classified, Verdict, ClassifyPath
  <2>4. ASSUME NEW k PROVE (Totals(k)' <=> Totals(k)) /\ (Listed(k)' <=> Listed(k)) /\ (WorstOf(k)' <=> WorstOf(k))
    BY <2>1 DEF Totals, Listed, WorstOf, WorstAmong
  <2>5. Summed' <=> Summed
    <3>1. (Totals(next - 1)' <=> Totals(next - 1)) /\ (Listed(next - 1)' <=> Listed(next - 1))
          /\ (WorstOf(next - 1)' <=> WorstOf(next - 1))
      BY <2>1 DEF Totals, Listed, WorstOf, WorstAmong
    <3>2. QED
      BY <2>1, <2>4, <3>1 DEF Summed
  <2>6. QED
    BY <2>1, <2>2, <2>3, <2>5 DEF StatusInv
<1>7. QED
  BY <1>1, <1>2, <1>3, <1>4, <1>5, <1>6 DEF StatusNext

(* The invariant of the report runner, from which the theorems below       *)
(* follow: verdicts are those of the measurements, and the summary covers  *)
(* the scenarios before the next one.                                      *)
THEOREM StatusInductive == StatusSpec => []StatusInv
<1>1. QED
  BY InitStatusInv, StepStatusInv, PTL DEF StatusSpec

(* The report runner keeps its state well typed, and past the validation   *)
(* its thresholds are in order (report_runner.go, ReportRunner.Run).       *)
THEOREM StatusTypeCorrect == StatusSpec => []StatusTypeOK
<1>1. StatusInv => StatusTypeOK
  BY DEF StatusInv, StatusTypes
<1>2. QED
  BY <1>1, StatusInductive, PTL

(* Every scenario of a finished report has a verdict with its reasons.     *)
LEMMA DoneVerdicts ==
  ASSUME StatusInv, phase = "done", NEW i \in 1..ScenarioCount
  PROVE  /\ Supported(verdicts[i])
         /\ verdicts[i].status = "failed" <=> \E p \in Paths : AtBound(results[i][p], "failed")
         /\ verdicts[i].status # "passed" <=> \E p \in Paths : AtBound(results[i][p], "degraded")
<1>1. /\ StatusTypeOK /\ Classified /\ Len(verdicts) = ScenarioCount
      /\ results \in Seq(Scenarios) /\ Len(results) = ScenarioCount
  BY DEF StatusInv, StatusTypes, Counting
<1>2. verdicts[i] = Verdict(results[i]) /\ results[i] \in Scenarios
  BY <1>1 DEF Classified
<1>3. QED
  BY <1>1, <1>2, InOrder, VerdictSupported

(* The lists of the summary hold the statuses that occurred.               *)
LEMMA DoneStatuses ==
  ASSUME StatusInv, phase = "done"
  PROVE  /\ \A s \in Statuses :
              summary.scenarios[s] # <<>> <=> \E i \in 1..ScenarioCount : verdicts[i].status = s
         /\ \A i \in 1..ScenarioCount : verdicts[i].status \in Graded
         /\ 1 \in 1..ScenarioCount
<1>1. Listed(ScenarioCount)
  BY DEF StatusInv, Summed
<1>2. ASSUME NEW i \in 1..ScenarioCount PROVE verdicts[i].status \in Graded
  BY DoneVerdicts DEF Supported
<1>3. ASSUME NEW s \in Statuses, NEW i \in 1..ScenarioCount, verdicts[i].status = s
      PROVE  summary.scenarios[s] # <<>>
  <2>1. \E j \in DOMAIN summary.scenarios[s] : summary.scenarios[s][j] = i
    BY <1>1, <1>3 DEF Listed
  <2>2. QED
    BY <2>1
<1>4. QED
  BY <1>1, <1>2, <1>3, Quantities DEF Listed

(* A bound is reached by a path of a scenario.                             *)
LEMMA ReachesSomewhere ==
  ASSUME NEW bound
  PROVE  Reaches(bound) <=> \E i \in 1..ScenarioCount : \E p \in Paths : AtBound(results[i][p], bound)
<1>1. Reaches(bound) <=> \E m \in Measured : AtBound(results[m[1]][m[2]], bound)
  BY DEF Reaches, AtBound, At
<1>2. ASSUME NEW m \in Measured PROVE m[1] \in 1..ScenarioCount /\ m[2] \in Paths
  BY DEF Measured
<1>3. ASSUME NEW i \in 1..ScenarioCount, NEW p \in Paths, AtBound(results[i][p], bound)
      PROVE  \E m \in Measured : AtBound(results[m[1]][m[2]], bound)
  <2>1. <<i, p>> \in Measured /\ <<i, p>>[1] = i /\ <<i, p>>[2] = p
    BY DEF Measured
  <2>2. AtBound(results[<<i, p>>[1]][<<i, p>>[2]], bound)
    BY <1>3
  <2>3. QED
    BY <2>1, <2>2
<1>4. QED
  BY <1>1, <1>2, <1>3

(* The status of the report is that of its most severe scenario.           *)
LEMMA StatusWins == StatusInv => MostSevereWins
<1> SUFFICES ASSUME StatusInv, phase = "done"
             PROVE  summary.status = IF Reaches("failed") THEN "failed"
                                     ELSE IF Reaches("degraded") THEN "degraded" ELSE "passed"
  BY DEF MostSevereWins
<1> DEFINE has(s) == \E i \in 1..ScenarioCount : verdicts[i].status = s
<1>1. summary.status = SummaryStatus(summary.scenarios)
  BY DEF StatusInv, Summed
<1>2. summary.status = IF has("invalid") THEN "invalid" ELSE IF has("failed") THEN "failed"
                       ELSE IF has("degraded") THEN "degraded"
                       ELSE IF has("passed") THEN "passed" ELSE "unknown"
  BY <1>1, DoneStatuses DEF SummaryStatus, Statuses
<1>3. ~has("invalid") /\ (has("failed") \/ has("degraded") \/ has("passed"))
  BY DoneStatuses DEF Graded
<1>4. has("failed") <=> Reaches("failed")
  <2>1. has("failed") <=> \E i \in 1..ScenarioCount : \E p \in Paths : AtBound(results[i][p], "failed")
    BY DoneVerdicts
  <2>2. QED
    BY <2>1, ReachesSomewhere
<1>5. has("failed") \/ has("degraded") <=> Reaches("degraded")
  <2>1. (\E i \in 1..ScenarioCount : verdicts[i].status # "passed")
           <=> \E i \in 1..ScenarioCount : \E p \in Paths : AtBound(results[i][p], "degraded")
    BY DoneVerdicts
  <2>2. has("failed") \/ has("degraded") <=> \E i \in 1..ScenarioCount : verdicts[i].status # "passed"
    BY DoneStatuses DEF Graded
  <2>3. QED
    BY <2>1, <2>2, ReachesSomewhere
<1> HIDE DEF has
<1>6. QED
  BY <1>2, <1>3, <1>4, <1>5

(* Reasons and verdicts agree.                                             *)
LEMMA ReasonsTold == StatusInv => ReasonsExplain
<1> SUFFICES ASSUME StatusInv, phase = "done" PROVE ReasonsExplain
  BY DEF ReasonsExplain
<1>1. Listed(ScenarioCount)
  BY DEF StatusInv, Summed
<1>2. ASSUME NEW i \in 1..ScenarioCount
      PROVE  LET severities == {Severity[verdicts[i].reasons[k].status] : k \in DOMAIN verdicts[i].reasons}
             IN  /\ Severity[verdicts[i].status] \in severities \cup {1}
                 /\ \A s \in severities : s <= Severity[verdicts[i].status]
  <2>1. Supported(verdicts[i])
    BY DoneVerdicts
  <2>2. Severity["passed"] = 1
    BY DEF Severity, Statuses
  <2>3. QED
    BY <2>1, <2>2 DEF Supported
<1>3. \A i \in 1..ScenarioCount : \E k \in DOMAIN summary.scenarios[verdicts[i].status] :
         summary.scenarios[verdicts[i].status][k] = i
  BY <1>1 DEF Listed
<1>4. summary.reasons = <<>> <=> summary.status = "passed"
  <2>1. summary.reasons = <<>> <=> \A i \in 1..ScenarioCount : verdicts[i].reasons = <<>>
    BY <1>1 DEF Listed
  <2>2. ASSUME NEW i \in 1..ScenarioCount
        PROVE  verdicts[i].reasons = <<>> <=> verdicts[i].status = "passed"
    BY DoneVerdicts DEF Supported
  <2>3. summary.status = "passed" <=> ~Reaches("failed") /\ ~Reaches("degraded")
    BY StatusWins DEF MostSevereWins
  <2>4. Reaches("degraded") <=> \E i \in 1..ScenarioCount : verdicts[i].status # "passed"
    <3>1. (\E i \in 1..ScenarioCount : verdicts[i].status # "passed")
             <=> \E i \in 1..ScenarioCount : \E p \in Paths : AtBound(results[i][p], "degraded")
      BY DoneVerdicts
    <3>2. QED
      BY <3>1, ReachesSomewhere
  <2>5. Reaches("failed") => \E i \in 1..ScenarioCount : verdicts[i].status = "failed"
    <3>1. (\E i \in 1..ScenarioCount : verdicts[i].status = "failed")
             <=> \E i \in 1..ScenarioCount : \E p \in Paths : AtBound(results[i][p], "failed")
      BY DoneVerdicts
    <3>2. QED
      BY <3>1, ReachesSomewhere
  <2>6. QED
    BY <2>1, <2>2, <2>3, <2>4, <2>5
<1>5. QED
  BY <1>2, <1>3, <1>4 DEF ReasonsExplain

(* The path named worst is not more reliable than any other.               *)
LEMMA WorstNamed == StatusInv => WorstIsLeastReliable
<1> SUFFICES ASSUME StatusInv, phase = "done" PROVE WorstIsLeastReliable
  BY DEF WorstIsLeastReliable
<1> DEFINE Res(m) == results[m[1]][m[2]]
           worst == results[summary.worst.scenario][summary.worst.path]
<1>1. WorstAmong(summary.worst, Measured) /\ Measured # {}
  <2>1. <<1, "direct">> \in Measured
    BY DoneStatuses DEF Measured, Paths
  <2>2. QED
    BY <2>1 DEF StatusInv, Summed, WorstOf, Measured
<1>2. \A m \in Measured : Res(m) \in PathResult
  <2>1. results \in Seq(Scenarios) /\ Len(results) = ScenarioCount
    BY DEF StatusInv, StatusTypes, Counting
  <2>2. QED
    BY <2>1, Quantities DEF Measured, Scenarios
<1>3. worst \in PathResult
  <2>1. <<summary.worst.scenario, summary.worst.path>> \in Measured
    BY <1>1 DEF WorstAmong
  <2>2. QED
    BY <1>2, <2>1
<1> HIDE DEF worst
<1>4. /\ FailureRate(worst) \in Nat /\ TimeoutRate(worst) \in Nat /\ worst.p95 \in Nat
  BY <1>3, RanksAreNumbers
<1>5. ASSUME NEW m \in Measured
      PROVE  LET path == Res(m)
             IN  /\ FailureRate(path) <= FailureRate(worst)
                 /\ FailureRate(path) = FailureRate(worst) => TimeoutRate(path) <= TimeoutRate(worst)
                 /\ FailureRate(path) = FailureRate(worst) /\ TimeoutRate(path) = TimeoutRate(worst)
                       => path.p95 <= worst.p95
  <2> DEFINE path == Res(m)
  <2>1. path \in PathResult
    BY <1>2
  <2>2. ~IsWorse(path, worst)
    BY <1>1 DEF WorstAmong, worst
  <2> HIDE DEF path
  <2>3. ~Worse(path, worst)
    BY <1>3, <2>1, <2>2, WorseIsOrder
  <2>4. /\ FailureRate(path) \in Nat /\ TimeoutRate(path) \in Nat /\ path.p95 \in Nat
    BY <2>1, RanksAreNumbers
  <2>5. /\ FailureRate(path) <= FailureRate(worst)
        /\ FailureRate(path) = FailureRate(worst) => TimeoutRate(path) <= TimeoutRate(worst)
        /\ FailureRate(path) = FailureRate(worst) /\ TimeoutRate(path) = TimeoutRate(worst)
              => path.p95 <= worst.p95
    BY <1>4, <2>3, <2>4 DEF Worse
  <2>6. QED
    BY <2>5 DEF path
<1>6. QED
  BY <1>5 DEF WorstIsLeastReliable, FailureRate, TimeoutRate, worst

(* The totals are complete.                                                *)
LEMMA TotalsTold == StatusInv => TotalsAddUp
BY DEF StatusInv, Summed, Totals, TotalsAddUp, Counted

(* What a report sums up is what was measured: it is failed exactly when   *)
(* some path reached a bound of failure and passed exactly when none       *)
(* reached one of degradation, every verdict has its reason, the path it   *)
(* names worst is the least reliable, and every query of every path is in  *)
(* its totals once (report_runner.go).                                     *)
THEOREM SummaryFaithful == StatusSpec => []SummaryIsFaithful
<1>1. StatusInv => SummaryIsFaithful
  BY StatusWins, ReasonsTold, WorstNamed, TotalsTold DEF SummaryIsFaithful
<1>2. QED
  BY <1>1, StatusInductive, PTL

-----------------------------------------------------------------------------
(* THE STORED FILE.  What gets a name is on the disk, and what is stored   *)
(* is of a run that got past its rename.                                   *)

(* A temporary file is on the disk before it gets its name, and there is   *)
(* none before it is created.                                              *)
TempInv ==
  \A r \in Runs :
    /\ step[r] \in {"close", "rename"} => temp[r] = "synced"
    /\ step[r] \in {"idle", "suite", "create"} => temp[r] = "none" /\ r \notin named

(* The runs that got past their rename.                                    *)
Renamed == {"answer", "success", "killed"}

(* What is stored is synced, and of a run of that name past its rename.    *)
Stored(s, report) ==
  report # None =>
    report.data = "synced" /\ step[report.run] \in Renamed /\ id[report.run] = s

StoredSynced == \A s \in Seconds : Stored(s, file[s]) /\ Stored(s, disk[s])

(* The inductive invariant.                                                *)
StoreInv ==
  /\ TypeOK /\ TempInv /\ StoredSynced
  /\ AnsweredIsStored /\ NothingLeftBehind

USE StoreAssumption DEF StoreAssumption

(* Nothing is stored at the start.                                         *)
LEMMA InitStoreInv == Init => StoreInv
<1> SUFFICES ASSUME Init PROVE StoreInv
  OBVIOUS
<1>1. 0 \in Seconds
  BY DEF Seconds
<1>2. TypeOK
  BY <1>1 DEF Init, TypeOK, Temps
<1>3. QED
  BY <1>2 DEF Init, StoreInv, TempInv, StoredSynced, Stored, AnsweredIsStored,
              NothingLeftBehind

(* A step that touches neither stored reports nor runs past their rename.  *)
LEMMA StoredKept ==
  ASSUME StoreInv, UNCHANGED <<file, disk, powerLost>>,
         \A q \in Runs : step[q] \in Renamed => step'[q] \in Renamed /\ id'[q] = id[q],
         \A q \in Runs : step'[q] \in {"answer", "success"} => step[q] \in {"answer", "success"}
  PROVE  StoredSynced' /\ AnsweredIsStored'
<1>1. \A s \in Seconds : \A report \in Report \cup {None} :
        Stored(s, report) => Stored(s, report)'
  BY DEF Stored, Report
<1>2. StoredSynced'
  BY <1>1 DEF StoreInv, TypeOK, StoredSynced, Stored
<1>3. ASSUME ~powerLost', NEW r \in Runs, step'[r] \in {"answer", "success"}
      PROVE  /\ file'[id'[r]] # None
             /\ id'[file'[id'[r]].run] = id'[r] /\ step'[file'[id'[r]].run] \in Renamed
  <2> DEFINE q == file[id[r]].run
  <2>1. file[id[r]] # None /\ step[q] \in Renamed /\ id[q] = id[r] /\ id'[r] = id[r]
    BY <1>3 DEF StoreInv, AnsweredIsStored, Renamed
  <2>2. q \in Runs
    BY <2>1 DEF StoreInv, TypeOK, Report
  <2>3. QED
    BY <2>1, <2>2
<1>4. QED
  BY <1>2, <1>3 DEF AnsweredIsStored, Renamed

(* A step of one run that touches neither stored reports nor IDs, and      *)
(* leaves its temporary file as the next step needs it.                    *)
LEMMA LocalStep ==
  ASSUME StoreInv, NEW r \in Runs,
         NEW goal \in {"create", "encode", "sync", "close", "rename", "failed", "killed"},
         NEW state \in Temps, step[r] \in Running,
         step' = [step EXCEPT ![r] = goal], temp' = [temp EXCEPT ![r] = state],
         UNCHANGED <<second, id, file, disk, named, powerLost>>, step[r] # "answer" \/ goal = "killed",
         goal \in {"encode", "sync", "close", "rename"} => state # "none",
         goal \in {"close", "rename"} => state = "synced",
         goal \in {"create", "failed"} => state = "none", goal = "create" => step[r] = "suite"
  PROVE  StoreInv'
<1>1. TypeOK'
  BY DEF StoreInv, TypeOK, Running, Ended
<1>2. TempInv' /\ NothingLeftBehind'
  BY DEF StoreInv, TypeOK, TempInv, NothingLeftBehind
<1>3. /\ \A q \in Runs : step[q] \in Renamed => step'[q] \in Renamed
      /\ \A q \in Runs : step'[q] \in {"answer", "success"} => step[q] \in {"answer", "success"}
  BY DEF StoreInv, TypeOK, Running, Renamed
<1>4. StoredSynced' /\ AnsweredIsStored'
  BY <1>3, StoredKept
<1>5. QED
  BY <1>1, <1>2, <1>4 DEF StoreInv

(* The steps of WriteJSONFile but the rename, and the suite.               *)
LEMMA WriteStep ==
  ASSUME StoreInv, NEW r \in Runs,
         RunSuite(r) \/ Create(r) \/ Encode(r) \/ Sync(r) \/ Close(r) \/ Kill(r)
  PROVE  StoreInv'
<1> DEFINE t == temp[r]
<1>1. t \in Temps /\ temp = [temp EXCEPT ![r] = t]
  BY DEF StoreInv, TypeOK
<1>2. /\ step[r] \in {"suite", "create"} => t = "none"
      /\ step[r] = "close" => t = "synced"
  BY DEF StoreInv, TempInv
<1>3. CASE RunSuite(r)
  BY <1>1, <1>2, <1>3, LocalStep DEF RunSuite, Goto, Running
<1>4. CASE Create(r)
  <2>1. CASE Temp(r, "torn") /\ Goto(r, "encode")
    BY <1>4, <2>1, LocalStep DEF Create, Goto, Temp, Temps, Running
  <2>2. CASE CreateFails(r)
    BY <1>1, <1>2, <1>4, <2>2, LocalStep DEF Create, CreateFails, Goto, Running
  <2>3. QED
    BY <1>4, <2>1, <2>2 DEF Create
<1>5. ASSUME step[r] \in Running, Fail(r), step[r] # "answer",
             UNCHANGED <<second, id, file, disk, named, powerLost>>
      PROVE  StoreInv'
  BY <1>5, LocalStep DEF Fail, RemoveTemp, Temp, Goto, Temps
<1>6. CASE Encode(r)
  <2>1. CASE Temp(r, "written") /\ Goto(r, "sync")
    BY <1>6, <2>1, LocalStep DEF Encode, Goto, Temp, Temps, Running
  <2>2. QED
    BY <1>5, <1>6, <2>1 DEF Encode, AfterEncode, Running
<1>7. CASE Sync(r)
  <2>1. CASE Temp(r, "synced") /\ Goto(r, "close")
    BY <1>7, <2>1, LocalStep DEF Sync, Goto, Temp, Temps, Running
  <2>2. QED
    BY <1>5, <1>7, <2>1 DEF Sync, Running
<1>8. CASE Close(r)
  <2>1. CASE UNCHANGED temp /\ Goto(r, "rename")
    BY <1>1, <1>2, <1>8, <2>1, LocalStep DEF Close, Goto, Running
  <2>2. QED
    BY <1>5, <1>8, <2>1 DEF Close, Running
<1>9. CASE Kill(r)
  BY <1>1, <1>9, LocalStep DEF Kill, Goto
<1>10. QED
  BY <1>3, <1>4, <1>6, <1>7, <1>8, <1>9

(* Begin and the clock.                                                    *)
LEMMA BeginStep ==
  ASSUME StoreInv, Tick \/ \E r \in Runs : Begin(r)
  PROVE  StoreInv'
<1>1. CASE Tick
  <2>1. StoredSynced' /\ AnsweredIsStored'
    BY <1>1, StoredKept DEF Tick
  <2>2. QED
    BY <1>1, <2>1 DEF Tick, StoreInv, TypeOK, Seconds, TempInv, NothingLeftBehind
<1>2. CASE \E r \in Runs : Begin(r)
  <2>1. PICK r \in Runs : Begin(r)
    BY <1>2
  <2>2. TypeOK'
    BY <2>1 DEF Begin, Goto, StoreInv, TypeOK, Running
  <2>3. TempInv' /\ NothingLeftBehind'
    BY <2>1 DEF Begin, Goto, StoreInv, TypeOK, TempInv, NothingLeftBehind
  <2>4. StoredSynced' /\ AnsweredIsStored'
    <3>1. \A q \in Runs :
            step'[q] \in {"answer", "success"} => step[q] \in {"answer", "success"}
      BY <2>1 DEF Begin, Goto, StoreInv, TypeOK
    <3>2. \A q \in Runs : step[q] \in Renamed => step'[q] \in Renamed /\ id'[q] = id[q]
      BY <2>1 DEF Begin, Goto, StoreInv, TypeOK, Renamed
    <3>3. QED
      BY <2>1, <3>1, <3>2, StoredKept DEF Begin
  <2>5. QED
    BY <2>2, <2>3, <2>4 DEF StoreInv
<1>3. QED
  BY <1>1, <1>2

(* The rename gives the name to a synced report.                           *)
LEMMA RenameStep ==
  ASSUME StoreInv, NEW r \in Runs, Rename(r)
  PROVE  StoreInv'
<1>1. CASE RenameFails(r)
  BY <1>1, LocalStep
  DEF Rename, RenameFails, Fail, RemoveTemp, Temp, Goto, Temps, Running
<1>2. CASE /\ file' = [file EXCEPT ![id[r]] = [run |-> r, data |-> temp[r]]]
           /\ Temp(r, "none") /\ Goto(r, "answer")
  <2>1. step[r] = "rename" /\ temp[r] = "synced" /\ id[r] \in Seconds
    BY DEF Rename, StoreInv, TypeOK, TempInv
  <2> DEFINE report == [run |-> r, data |-> "synced"]
  <2>2. file' = [file EXCEPT ![id[r]] = report] /\ report \in Report /\ report # None
    BY <1>2, <2>1, StoreAssumption DEF Report
  <2>3. TypeOK'
    BY <1>2, <2>2 DEF Rename, Temp, Goto, StoreInv, TypeOK, Temps, Running
  <2>4. TempInv' /\ NothingLeftBehind'
    BY <1>2 DEF Rename, Temp, Goto, StoreInv, TypeOK, TempInv, NothingLeftBehind
  <2>5. StoredSynced'
    <3>1. /\ step' = [step EXCEPT ![r] = "answer"] /\ r \in Runs
          /\ UNCHANGED <<id, disk>> /\ step \in [Runs -> {"idle"} \cup Running \cup Ended]
      BY <1>2 DEF Rename, Goto, StoreInv, TypeOK
    <3>2. \A s \in Seconds : \A old \in Report \cup {None} : Stored(s, old) => Stored(s, old)'
      BY <3>1 DEF Stored, Report, Renamed
    <3>3. Stored(id[r], report)'
      BY <3>1 DEF Stored, Renamed
    <3>4. \A s \in Seconds : file[s] \in Report \cup {None} /\ disk[s] \in Report \cup {None}
      BY DEF StoreInv, TypeOK
    <3>5. \A s \in Seconds : file'[s] = IF s = id[r] THEN report ELSE file[s]
      BY <2>2 DEF StoreInv, TypeOK
    <3>6. \A s \in Seconds :
            /\ file'[s] # None => /\ file'[s].data = "synced"
                                   /\ step'[file'[s].run] \in Renamed /\ id'[file'[s].run] = s
            /\ disk'[s] # None => /\ disk'[s].data = "synced"
                                   /\ step'[disk'[s].run] \in Renamed /\ id'[disk'[s].run] = s
      BY <3>1, <3>2, <3>3, <3>4, <3>5 DEF StoreInv, StoredSynced, Stored
    <3>7. QED
      BY <3>6 DEF StoredSynced, Stored
  <2>6. AnsweredIsStored'
    <3>1. ASSUME ~powerLost', NEW q \in Runs, step'[q] \in {"answer", "success"}
          PROVE  file'[id'[q]] # None
      BY <1>2, <2>1, <2>2, <3>1 DEF Rename, Goto, StoreInv, TypeOK, AnsweredIsStored
    <3>2. \A q \in Runs : id'[q] \in Seconds
      BY <2>3 DEF TypeOK
    <3>3. QED
      BY <2>5, <3>1, <3>2 DEF StoredSynced, Stored, AnsweredIsStored, Renamed
  <2>7. QED
    BY <2>3, <2>4, <2>5, <2>6 DEF StoreInv
<1>3. QED
  BY <1>1, <1>2 DEF Rename

(* The answer, after the rename.                                           *)
LEMMA ReturnStep ==
  ASSUME StoreInv, NEW r \in Runs, Return(r)
  PROVE  StoreInv'
<1>1. step[r] = "answer" /\ step' = [step EXCEPT ![r] = "success"]
  BY DEF Return, Goto
<1>2. TypeOK'
  BY <1>1 DEF Return, StoreInv, TypeOK, Ended
<1>3. TempInv' /\ NothingLeftBehind'
  BY <1>1 DEF Return, StoreInv, TypeOK, TempInv, NothingLeftBehind
<1>4. /\ \A q \in Runs : step[q] \in Renamed => step'[q] \in Renamed
      /\ \A q \in Runs : step'[q] \in {"answer", "success"} => step[q] \in {"answer", "success"}
  BY <1>1 DEF StoreInv, TypeOK, Renamed
<1>5. StoredSynced' /\ AnsweredIsStored'
  BY <1>4, StoredKept DEF Return
<1>6. QED
  BY <1>2, <1>3, <1>5 DEF StoreInv

(* What is stored is synced, so the disk loses or keeps whole reports.     *)
LEMMA DiskStep ==
  ASSUME StoreInv, Writeback \/ PowerLoss
  PROVE  StoreInv'
<1>1. \A s \in Seconds : file[s] # None => file[s].data = "synced"
  BY DEF StoreInv, StoredSynced, Stored
<1>2. CASE Writeback
  <2>1. file' = [s \in Seconds |-> file[s]]
    BY <1>1, <1>2 DEF Writeback
  <2>2. file' = file /\ disk' = file
    BY <1>2, <2>1 DEF Writeback, StoreInv, TypeOK
  <2>3. QED
    BY <1>2, <2>2 DEF Writeback, StoreInv, TypeOK, TempInv, StoredSynced, Stored,
                      AnsweredIsStored, NothingLeftBehind
<1>3. CASE PowerLoss
  <2>1. PICK lost \in SUBSET Seconds :
          /\ file' = [s \in Seconds |-> IF s \in lost THEN disk[s] ELSE Torn(file[s])]
          /\ temp' = [r \in Runs |-> IF Remains(r, lost) THEN "torn" ELSE "none"]
          /\ named' = {r \in Runs : Remains(r, lost)}
    BY <1>3 DEF PowerLoss
  <2>2. file' = [s \in Seconds |-> IF s \in lost THEN disk[s] ELSE file[s]] /\ disk' = file'
    BY <1>1, <1>3, <2>1 DEF PowerLoss, Torn
  <2>3. file' \in [Seconds -> Report \cup {None}] /\ StoredSynced'
    <3>1. file' \in [Seconds -> Report \cup {None}]
      BY <2>2 DEF StoreInv, TypeOK
    <3>2. UNCHANGED id /\ \A q \in Runs : step[q] \in Renamed => step'[q] \in Renamed
      BY <1>3 DEF PowerLoss, StoreInv, TypeOK, Running, Renamed
    <3>3. \A s \in Seconds : Stored(s, file'[s]) /\ file'[s] \in Report \cup {None}
      BY <2>2, <3>1 DEF StoreInv, TypeOK, StoredSynced
    <3>4. QED
      BY <2>2, <3>1, <3>2, <3>3 DEF StoredSynced, Stored, Report
  <2>4. TypeOK'
    BY <1>3, <2>1, <2>2, <2>3 DEF PowerLoss, StoreInv, TypeOK, Temps, Running, Ended
  <2>5. TempInv' /\ NothingLeftBehind'
    <3>1. \A r \in Runs : step[r] \notin Running => step'[r] = step[r]
      BY <1>3 DEF PowerLoss, StoreInv, TypeOK
    <3>2. \A r \in Runs : step'[r] \in Ended \cup {"idle"}
      BY <1>3 DEF PowerLoss, StoreInv, TypeOK, Ended
    <3>3. \A r \in Runs : step'[r] = "idle" => step[r] = "idle"
      BY <1>3 DEF PowerLoss, StoreInv, TypeOK
    <3>4. \A r \in Runs : step[r] = "idle" => ~Remains(r, lost)
      BY DEF StoreInv, TypeOK, TempInv, Remains
    <3>5. \A r \in Runs : step'[r] = "idle" => temp'[r] = "none" /\ r \notin named'
      BY <2>1, <3>3, <3>4
    <3>6. QED
      BY <1>3, <3>2, <3>5 DEF PowerLoss, TempInv, NothingLeftBehind, Ended
  <2>6. AnsweredIsStored'
    BY <1>3 DEF PowerLoss, AnsweredIsStored
  <2>7. QED
    BY <2>3, <2>4, <2>5, <2>6 DEF StoreInv
<1>4. QED
  BY <1>2, <1>3

(* StoreInv is inductive.                                                      *)
LEMMA StepStoreInv == StoreInv /\ [Next]_vars => StoreInv'
<1>1. ASSUME StoreInv, UNCHANGED vars PROVE StoreInv'
  BY <1>1
  DEF vars, StoreInv, TypeOK, TempInv, StoredSynced, Stored, AnsweredIsStored, NothingLeftBehind
<1>2. QED
  BY <1>1, BeginStep, WriteStep, RenameStep, ReturnStep, DiskStep DEF Next, Write

(* The inductive invariant holds throughout.                               *)
THEOREM StoreInductive == Spec => []StoreInv
BY InitStoreInv, StepStoreInv, PTL DEF Spec

(* The type invariant, with: a run that writes has a temporary file.       *)
THEOREM StoreTypeCorrect == Spec => []TypeOK
<1>1. StoreInv => TypeOK
  BY DEF StoreInv
<1>2. QED
  BY <1>1, StoreInductive, PTL

(* WriteJSONFile is atomic: whatever fails, dies or loses power, the name  *)
(* of a report shows all of one or nothing.                                *)
THEOREM Atomic == Spec => []ReportsAreWhole
<1>1. StoreInv => ReportsAreWhole
  BY DEF StoreInv, StoredSynced, Stored, ReportsAreWhole
<1>2. QED
  BY <1>1, StoreInductive, PTL

(* Until the power fails, a run that answered has a report under its name, *)
(* of a run of that name that got past its rename.                         *)
THEOREM Answered == Spec => []AnsweredIsStored
<1>1. StoreInv => AnsweredIsStored
  BY DEF StoreInv
<1>2. QED
  BY <1>1, StoreInductive, PTL

(* A run that ended by itself leaves no temporary file, while the power    *)
(* does not fail.                                                          *)
THEOREM CleansUp == Spec => []NothingLeftBehind
<1>1. StoreInv => NothingLeftBehind
  BY DEF StoreInv
<1>2. QED
  BY <1>1, StoreInductive, PTL
=============================================================================
