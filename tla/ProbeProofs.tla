----------------------------- MODULE ProbeProofs -----------------------------
(***************************************************************************)
(* The agent executes the tasks of every configuration in order and skips  *)
(* none, and repeats none more often than it crashed: for any              *)
(* configurations, any number of them and of faults.                       *)
(***************************************************************************)
EXTENDS Probe, WellFoundedInduction, FiniteSetTheorems, TLAPS

-----------------------------------------------------------------------------
(* What is left of a configuration.  A prefix of its features is gone, of  *)
(* the next one a prefix of its tasks; the same of its services.           *)

Gone(s, t) == Len(s) - Len(t)

Features == Seq(Seq(Task))

FeaturesLeft(fs, gs) ==
  LET d == Gone(fs, gs)
  IN  /\ gs \in Features /\ Len(gs) <= Len(fs)
      /\ \A j \in 2 .. Len(gs) : gs[j] = fs[j + d]
      /\ gs # <<>> =>
           /\ Len(gs[1]) <= Len(fs[d + 1])
           /\ \A k \in 1 .. Len(gs[1]) : gs[1][k] = fs[d + 1][k + Gone(fs[d + 1], gs[1])]

ServicesLeft(ss, ts) ==
  LET d == Gone(ss, ts)
  IN  /\ ts \in Seq(Features) /\ Len(ts) <= Len(ss)
      /\ \A i \in 2 .. Len(ts) : ts[i] = ss[i + d]
      /\ ts # <<>> => FeaturesLeft(ss[d + 1], ts[1])

Left(c, e) ==
  /\ FeaturesLeft(c.system, e.system)
  /\ ServicesLeft(c.services, e.services)
  /\ e.system # <<>> => e.services = c.services

(* The places that are not left, which are the ones before the first.      *)
FeatureDone(fs, gs, j, k) ==
  LET d == Gone(fs, gs)
  IN  j <= d \/ (j = d + 1 /\ k <= Gone(fs[j], gs[1]))

ServiceDone(ss, ts, i, j, k) ==
  LET d == Gone(ss, ts)
  IN  i <= d \/ (i = d + 1 /\ FeatureDone(ss[i], ts[1], j, k))

DoneIn(c, e, p) ==
  IF p[1] = 0 THEN FeatureDone(c.system, e.system, p[2], p[3])
  ELSE ServiceDone(c.services, e.services, p[1], p[2], p[3])

(* It begins with a task. *)
FeaturesTrimmed(gs) == gs # <<>> /\ gs[1] # <<>>

Trimmed(e) ==
  \/ FeaturesTrimmed(e.system)
  \/ e.system = <<>> /\ e.services # <<>> /\ FeaturesTrimmed(e.services[1])

FirstFeature(fs, gs) == Gone(fs, gs) + 1
FirstTask(fs, gs) == Gone(fs[FirstFeature(fs, gs)], gs[1]) + 1

FirstPlace(c, e) ==
  LET i == Gone(c.services, e.services) + 1
  IN  IF e.system # <<>>
      THEN <<0, FirstFeature(c.system, e.system), FirstTask(c.system, e.system)>>
      ELSE <<i, FirstFeature(c.services[i], e.services[1]),
                FirstTask(c.services[i], e.services[1])>>

-----------------------------------------------------------------------------
(* The inductive invariant.                                                *)

Left0 == [n : Nat, system : Features, services : Seq(Features)]
StateNames == {t.type : t \in Task} \cup {"next", ""}
Event == [st : StateNames, cfg : Left0]

Types ==
  /\ started \in Seq(Config) /\ Len(started) <= MaxStarts
  /\ connector \in {"idle", "waiting"}
  /\ out \in Seq(Event) /\ log \in Seq(Event)
  /\ acked \subseteq DOMAIN log /\ inbox \subseteq Unacked
  /\ run \in [pc : {"idle", "call", "write", "ack"}, i : Nat, next : Event]
  /\ run.pc # "idle" => run.i \in Unacked /\ run.i \notin inbox
  /\ host \in Seq([n : Nat, task : Task])
  /\ faults \in [FaultKind -> Nat]

Wrote(h, n, task) == \E l \in DOMAIN h : h[l] = [n |-> n, task |-> task]

(* An event tells what is left of a configuration that was received, and   *)
(* what is not left has been executed.                                     *)
Sound(e, cs, h) ==
  LET c == cs[e.cfg.n]
  IN  /\ e.cfg.n \in DOMAIN cs
      /\ Left(c, e.cfg)
      /\ e.st # "next" => Trimmed(e.cfg) /\ e.st = HeadTask(e.cfg).type
      /\ \A p \in Places(c) : DoneIn(c, e.cfg, p) => Wrote(h, e.cfg.n, TaskAt(c, p))

EventsSound ==
  /\ \A i \in DOMAIN out : Sound(out[i], started, host)
  /\ \A i \in DOMAIN log : Sound(log[i], started, host)
  /\ run.pc = "write" => Sound(run.next, started, host)

HostKnown == \A i \in DOMAIN host : host[i].n \in DOMAIN started

IInv == Types /\ EventsSound /\ HostKnown /\ NoTaskSkipped

-----------------------------------------------------------------------------
(* Looking for the first task.                                             *)

LEMMA LeastNumber ==
  ASSUME NEW S, S \subseteq Nat, S # {}
  PROVE  Min(S) \in S /\ \A k \in S : Min(S) <= k
<1> DEFINE R == {ss \in Nat \X Nat : ss[1] < ss[2]}
<1>1. IsWellFoundedOn(R, Nat)
  BY NatLessThanWellFounded DEF OpToRel
<1> HIDE DEF R
<1>2. PICK x \in S : \A y \in S : <<y, x>> \notin R
  BY <1>1, WFMin
<1>3. \A y \in S : ~ y < x
  BY <1>2 DEF R
<1>4. \A y \in S : x <= y
  BY <1>3
<1>. QED BY <1>4 DEF Min

LEMMA SeqFacts ==
  ASSUME NEW S, NEW s \in Seq(S)
  PROVE  /\ Len(s) \in Nat /\ DOMAIN s = 1 .. Len(s)
         /\ s = <<>> <=> Len(s) = 0
         /\ \A i \in 1 .. Len(s) : s[i] \in S
  OBVIOUS

LEMMA FromIndex ==
  ASSUME NEW S, NEW s \in Seq(S), NEW m \in 1 .. Len(s), NEW t, t = SubSeq(s, m, Len(s))
  PROVE  /\ t \in Seq(S) /\ Len(t) = Len(s) - m + 1
         /\ \A i \in 1 .. Len(t) : t[i] = s[i + m - 1]
  OBVIOUS

(* The empty features in front go, and nothing else.                       *)
LEMMA FeaturesDropped ==
  ASSUME NEW fs \in Features, NEW gs, FeaturesLeft(fs, gs), NEW hs, hs = DropEmpty(gs)
  PROVE  /\ FeaturesLeft(fs, hs)
         /\ hs = <<>> \/ FeaturesTrimmed(hs)
         /\ \A j \in DOMAIN fs : \A k \in DOMAIN fs[j] :
              FeatureDone(fs, hs, j, k) <=> FeatureDone(fs, gs, j, k)
<1>i. PICK I : I = {i \in DOMAIN gs : gs[i] # <<>>}
  OBVIOUS
<1>d. PICK d : d = Len(fs) - Len(gs) /\ d = Gone(fs, gs)
  BY DEF Gone
<1>1. /\ gs \in Seq(Seq(Task)) /\ fs \in Seq(Seq(Task))
      /\ Len(gs) \in Nat /\ Len(fs) \in Nat /\ Len(gs) <= Len(fs)
      /\ DOMAIN gs = 1 .. Len(gs) /\ DOMAIN fs = 1 .. Len(fs)
  BY DEF FeaturesLeft, Features
<1>2. \A j \in 1 .. Len(fs) : fs[j] \in Seq(Task) /\ Len(fs[j]) \in Nat /\ DOMAIN fs[j] = 1 .. Len(fs[j])
  BY <1>1
<1>3. \A j \in 1 .. Len(gs) : gs[j] \in Seq(Task) /\ Len(gs[j]) \in Nat
  BY <1>1
<1>4. /\ d \in Nat /\ d + Len(gs) = Len(fs)
      /\ \A j \in 2 .. Len(gs) : gs[j] = fs[j + d]
      /\ gs # <<>> =>
           /\ Len(gs[1]) <= Len(fs[d + 1])
           /\ \A k \in 1 .. Len(gs[1]) : gs[1][k] = fs[d + 1][k + Gone(fs[d + 1], gs[1])]
  <2>1. d \in Nat /\ d + Len(gs) = Len(fs)
    BY <1>1, <1>d
  <2>. QED BY <1>d, <2>1 DEF FeaturesLeft
<1>n. /\ d \in Nat /\ Len(gs) \in Nat /\ Len(fs) \in Nat /\ d + Len(gs) = Len(fs)
      /\ \A j \in 1 .. Len(fs) : j \in Nat /\ (j <= d \/ j = d + 1 \/ j > d + 1)
  <2>1. d \in Nat /\ Len(gs) \in Nat /\ Len(fs) \in Nat /\ d + Len(gs) = Len(fs)
    BY <1>1, <1>4
  <2>. QED BY <2>1
<1>5. CASE I = {}
  <2>1. hs = <<>>
    BY <1>i, <1>5 DEF DropEmpty
  <2>2. FeaturesLeft(fs, hs)
    BY <1>1, <2>1 DEF FeaturesLeft, Features
  <2>3. ASSUME NEW j \in DOMAIN fs, NEW k \in DOMAIN fs[j]
        PROVE  FeatureDone(fs, hs, j, k) /\ FeatureDone(fs, gs, j, k)
    <3>1. FeatureDone(fs, hs, j, k)
      BY <1>1, <2>1 DEF FeatureDone, Gone
    <3>2. j \in 1 .. Len(fs) /\ Len(fs[j]) \in Nat /\ k \in 1 .. Len(fs[j])
      BY <1>1, <1>2
    <3>3. CASE j <= d
      <4>1. FeatureDone(fs, gs, j, k)
        BY <1>d, <3>3 DEF FeatureDone
      <4>. QED BY <3>1, <4>1
    <3>4. CASE j = d + 1
      <4>1. gs # <<>> /\ 1 \in DOMAIN gs
        BY <1>1, <1>4, <3>2, <3>4
      <4>2. Len(gs[1]) = 0
        BY <1>i, <1>5, <4>1
      <4>3. k <= Gone(fs[j], gs[1])
        BY <3>2, <4>2 DEF Gone
      <4>4. FeatureDone(fs, gs, j, k)
        BY <1>d, <3>4, <4>3 DEF FeatureDone
      <4>. QED BY <3>1, <4>4
    <3>5. CASE j > d + 1
      <4>1. j - d \in 2 .. Len(gs)
        BY SMTT(30), <1>1, <1>4, <3>2, <3>5
      <4>2. gs[j - d] = fs[j]
        BY SMTT(30), <1>4, <3>2, <4>1
      <4>3. gs[j - d] = <<>>
        BY <1>1, <1>i, <1>5, <4>1
      <4>. QED BY <3>2, <4>2, <4>3
    <3>6. j <= d \/ j = d + 1 \/ j > d + 1
      BY <1>n, <3>2
    <3>. QED BY <3>1, <3>3, <3>4, <3>5, <3>6
  <2>. QED BY <2>1, <2>2, <2>3
<1>6. CASE I # {}
  <2>m. PICK m : m = Min(I)
    OBVIOUS
  <2>0. I \subseteq Nat
    BY <1>1, <1>i
  <2>1. m \in I /\ \A i \in I : m <= i
    BY <1>6, <2>0, <2>m, LeastNumber
  <2>2. m \in 1 .. Len(gs) /\ gs[m] # <<>> /\ \A i \in 1 .. m - 1 : gs[i] = <<>>
    <3>1. m \in 1 .. Len(gs) /\ gs[m] # <<>>
      BY <1>1, <1>i, <2>1
    <3>2. \A i \in 1 .. m - 1 : i \notin I /\ i \in 1 .. Len(gs)
      BY <1>1, <2>1, <3>1
    <3>. QED BY <1>1, <1>i, <3>1, <3>2
  <2>3. hs = SubSeq(gs, m, Len(gs))
    BY <1>6, <1>i, <2>m DEF DropEmpty
  <2>4. /\ hs \in Seq(Seq(Task)) /\ Len(hs) = Len(gs) - m + 1
        /\ \A i \in 1 .. Len(hs) : hs[i] = gs[i + m - 1]
    <3>1. gs \in Seq(Seq(Task)) /\ m \in 1 .. Len(gs)
      BY <1>1, <2>2
    <3>. QED BY <2>3, <3>1, FromIndex
  <2>5. Gone(fs, hs) = d + m - 1 /\ Len(hs) \in Nat \ {0} /\ hs # <<>>
    BY SMTT(30), <1>1, <1>d, <1>4, <2>2, <2>4 DEF Gone
  <2>6. \A i \in 2 .. Len(hs) : hs[i] = fs[i + Gone(fs, hs)]
    <3>1. SUFFICES ASSUME NEW i \in 2 .. Len(hs)
                   PROVE  hs[i] = fs[i + (d + m - 1)]
      BY <2>5
    <3>2. i + m - 1 \in 2 .. Len(gs) /\ i \in 1 .. Len(hs)
      BY <1>1, <2>2, <2>4
    <3>3. hs[i] = gs[i + m - 1] /\ gs[i + m - 1] = fs[i + m - 1 + d]
      BY <1>4, <2>4, <3>2
    <3>4. i + m - 1 + d = i + (d + m - 1)
      BY <1>4, <2>2
    <3>. QED BY <3>3, <3>4
  <2>7. hs[1] = gs[m]
    BY <2>2, <2>4, <2>5
  <2>8. m > 1 => gs[m] = fs[m + d]
    BY <1>4, <2>2
  <2>9. /\ Len(hs[1]) <= Len(fs[Gone(fs, hs) + 1])
        /\ \A k \in 1 .. Len(hs[1]) :
             hs[1][k] = fs[Gone(fs, hs) + 1][k + Gone(fs[Gone(fs, hs) + 1], hs[1])]
    <3>1. CASE m = 1
      BY SMTT(30), <1>1, <1>4, <2>2, <2>5, <2>7, <3>1
    <3>2. CASE m > 1
      <4>1. Gone(fs, hs) + 1 = m + d /\ hs[1] = fs[m + d]
        BY <1>1, <1>4, <2>2, <2>5, <2>7, <2>8, <3>2
      <4>2. Len(fs[m + d]) \in Nat
        BY <1>1, <1>2, <1>4, <2>2
      <4>3. Gone(fs[m + d], fs[m + d]) = 0
        BY <4>2 DEF Gone
      <4>. QED BY <4>1, <4>2, <4>3
    <3>. QED BY <2>2, <3>1, <3>2
  <2>10. FeaturesLeft(fs, hs)
    <3>1. hs \in Features /\ Len(hs) <= Len(fs)
      BY <1>1, <2>2, <2>4 DEF Features
    <3>. QED BY <2>6, <2>9, <3>1 DEF FeaturesLeft
  <2>11. FeaturesTrimmed(hs)
    BY <2>2, <2>5, <2>7 DEF FeaturesTrimmed
  <2>12. ASSUME NEW j \in DOMAIN fs, NEW k \in DOMAIN fs[j]
         PROVE  FeatureDone(fs, hs, j, k) <=> FeatureDone(fs, gs, j, k)
    <3>1. j \in 1 .. Len(fs) /\ Len(fs[j]) \in Nat /\ k \in 1 .. Len(fs[j])
      BY <1>1, <1>2
    <3>2. CASE m = 1
      <4>1. Gone(fs, hs) = d /\ hs[1] = gs[1]
        BY <1>4, <2>5, <2>7, <3>2
      <4>. QED BY <1>d, <4>1 DEF FeatureDone
    <3>3. CASE m > 1
      <4>1. gs[1] = <<>> /\ 1 \in 1 .. Len(gs)
        BY <1>1, <2>2, <3>3
      <4>2. FeatureDone(fs, gs, j, k) <=> j <= d + 1
        BY <1>4, <1>d, <3>1, <4>1 DEF FeatureDone, Gone
      <4>3. FeatureDone(fs, hs, j, k) <=> j <= d + m - 1
        <5>1. Gone(fs, hs) + 1 = m + d /\ hs[1] = fs[m + d]
          BY <1>1, <1>4, <2>2, <2>5, <2>7, <2>8, <3>3
        <5>2. j = d + m => Gone(fs[j], hs[1]) = 0
          <6>1. SUFFICES ASSUME j = d + m PROVE Gone(fs[j], hs[1]) = 0
            OBVIOUS
          <6>2. hs[1] = fs[j]
            BY <5>1, <6>1, <1>4, <2>2
          <6>. QED BY <3>1, <6>2 DEF Gone
        <5>3. FeatureDone(fs, hs, j, k) <=>
                j <= d + m - 1 \/ (j = d + m - 1 + 1 /\ k <= Gone(fs[j], hs[1]))
          BY <2>5 DEF FeatureDone
        <5>. QED BY <1>4, <2>2, <3>1, <5>2, <5>3
      <4>4. ~(j > d + 1 /\ j <= d + m - 1)
        <5>1. SUFFICES ASSUME j > d + 1, j <= d + m - 1 PROVE FALSE
          OBVIOUS
        <5>2. j - d \in 2 .. Len(gs) /\ j - d \in 1 .. m - 1
          BY <1>n, <2>2, <3>1, <5>1
        <5>3. gs[j - d] = fs[j] /\ gs[j - d] = <<>>
          BY <1>4, <2>2, <3>1, <5>2
        <5>. QED BY <3>1, <5>3
      <4>. QED BY <1>4, <2>2, <3>1, <3>3, <4>2, <4>3, <4>4
    <3>. QED BY <2>2, <3>2, <3>3
  <2>. QED BY <2>10, <2>11, <2>12
<1>. QED BY <1>5, <1>6


LEMMA FeaturesUntouched ==
  ASSUME NEW fs \in Features
  PROVE  /\ FeaturesLeft(fs, fs)
         /\ \A j \in DOMAIN fs : \A k \in DOMAIN fs[j] : ~FeatureDone(fs, fs, j, k)
<1>1. /\ fs \in Seq(Seq(Task)) /\ Len(fs) \in Nat /\ DOMAIN fs = 1 .. Len(fs)
      /\ \A j \in 1 .. Len(fs) :
           fs[j] \in Seq(Task) /\ Len(fs[j]) \in Nat /\ DOMAIN fs[j] = 1 .. Len(fs[j])
  BY DEF Features
<1>2. Gone(fs, fs) = 0 /\ \A j \in 1 .. Len(fs) : Gone(fs[j], fs[j]) = 0
  BY <1>1 DEF Gone
<1>3. FeaturesLeft(fs, fs)
  <2>1. fs # <<>> => 1 \in 1 .. Len(fs)
    BY <1>1
  <2>. QED BY <1>1, <1>2, <2>1 DEF FeaturesLeft, Features
<1>4. ASSUME NEW j \in DOMAIN fs, NEW k \in DOMAIN fs[j]
      PROVE  ~FeatureDone(fs, fs, j, k)
  <2>1. j \in 1 .. Len(fs) /\ k \in 1 .. Len(fs[j]) /\ Len(fs[j]) \in Nat
    BY <1>1
  <2>2. j = 1 => Gone(fs[j], fs[1]) = 0
    BY <1>2, <2>1
  <2>. QED BY <1>2, <2>1, <2>2 DEF FeatureDone
<1>. QED BY <1>3, <1>4

LEMMA NothingDropped ==
  ASSUME NEW fs \in Features, NEW gs, FeaturesLeft(fs, gs), DropEmpty(gs) = <<>>
  PROVE  \A j \in DOMAIN fs : \A k \in DOMAIN fs[j] : FeatureDone(fs, gs, j, k)
<1>1. Len(fs) \in Nat /\ DOMAIN fs = 1 .. Len(fs)
  BY DEF Features
<1>2. \A j \in DOMAIN fs : \A k \in DOMAIN fs[j] : FeatureDone(fs, <<>>, j, k)
  BY <1>1 DEF FeatureDone, Gone
<1>. QED BY <1>2, FeaturesDropped

(* So do the services that have nothing left.                              *)
LEMMA ServicesDropped ==
  ASSUME NEW ss \in Seq(Features), NEW ts, ServicesLeft(ss, ts), NEW us, us = DropDone(ts)
  PROVE  /\ ServicesLeft(ss, us)
         /\ us = <<>> \/ FeaturesTrimmed(us[1])
         /\ \A i \in DOMAIN ss : \A j \in DOMAIN ss[i] : \A k \in DOMAIN ss[i][j] :
              ServiceDone(ss, us, i, j, k) <=> ServiceDone(ss, ts, i, j, k)
<1>i. PICK I : I = {i \in DOMAIN ts : DropEmpty(ts[i]) # <<>>}
  OBVIOUS
<1>d. PICK d : d = Len(ss) - Len(ts) /\ d = Gone(ss, ts)
  BY DEF Gone
<1>1. /\ ts \in Seq(Features) /\ Len(ts) \in Nat /\ Len(ss) \in Nat /\ Len(ts) <= Len(ss)
      /\ DOMAIN ts = 1 .. Len(ts) /\ DOMAIN ss = 1 .. Len(ss)
  BY DEF ServicesLeft
<1>2. /\ \A i \in 1 .. Len(ss) : ss[i] \in Features
      /\ \A i \in 1 .. Len(ts) : ts[i] \in Features
  BY <1>1
<1>n. d \in Nat /\ Len(ts) \in Nat /\ Len(ss) \in Nat /\ d + Len(ts) = Len(ss)
  BY <1>1, <1>d
<1>3. /\ \A i \in 2 .. Len(ts) : ts[i] = ss[i + d]
      /\ ts # <<>> => FeaturesLeft(ss[d + 1], ts[1])
  BY <1>d, <1>n DEF ServicesLeft
<1>4. \A i \in 1 .. Len(ts) : d + i \in 1 .. Len(ss) /\ FeaturesLeft(ss[d + i], ts[i])
  <2>1. ASSUME NEW i \in 1 .. Len(ts)
        PROVE  d + i \in 1 .. Len(ss) /\ FeaturesLeft(ss[d + i], ts[i])
    <3>1. d + i \in 1 .. Len(ss) /\ d + i = i + d /\ (i = 1 \/ i \in 2 .. Len(ts))
      BY <1>n
    <3>2. CASE i = 1
      <4>1. ts # <<>>
        BY <1>1
      <4>. QED BY <1>3, <3>1, <3>2, <4>1
    <3>3. CASE i \in 2 .. Len(ts)
      <4>1. ts[i] = ss[d + i]
        BY <1>3, <3>1, <3>3
      <4>. QED BY <1>2, <3>1, <4>1, FeaturesUntouched
    <3>. QED BY <3>1, <3>2, <3>3
  <2>. QED BY <2>1
<1>5. ASSUME NEW i \in 1 .. Len(ts), DropEmpty(ts[i]) = <<>>,
             NEW j \in DOMAIN ss[d + i], NEW k \in DOMAIN ss[d + i][j]
      PROVE  i = 1 /\ ServiceDone(ss, ts, d + i, j, k)
  <2>1. FeatureDone(ss[d + i], ts[i], j, k)
    BY <1>2, <1>4, <1>5, NothingDropped
  <2>2. i \in 2 .. Len(ts) => ~FeatureDone(ss[d + i], ts[i], j, k)
    <3>1. i \in 2 .. Len(ts) => ts[i] = ss[d + i]
      BY <1>3, <1>n
    <3>. QED BY <1>2, <1>4, <3>1, FeaturesUntouched
  <2>3. i = 1
    BY <1>n, <2>1, <2>2
  <2>. QED BY <1>d, <2>1, <2>3 DEF ServiceDone
<1>6. ASSUME NEW i \in 1 .. Len(ss) PROVE i <= d \/ (i - d \in 1 .. Len(ts) /\ d + (i - d) = i)
  BY <1>n
<1>7. CASE I = {}
  <2>1. us = <<>>
    BY <1>i, <1>7 DEF DropDone
  <2>2. ServicesLeft(ss, us)
    BY <1>1, <2>1 DEF ServicesLeft
  <2>3. ASSUME NEW i \in DOMAIN ss, NEW j \in DOMAIN ss[i], NEW k \in DOMAIN ss[i][j]
        PROVE  ServiceDone(ss, us, i, j, k) /\ ServiceDone(ss, ts, i, j, k)
    <3>1. ServiceDone(ss, us, i, j, k)
      BY <1>1, <2>1 DEF ServiceDone, Gone
    <3>2. CASE i <= d
      <4>1. ServiceDone(ss, ts, i, j, k)
        BY <1>d, <3>2 DEF ServiceDone
      <4>. QED BY <3>1, <4>1
    <3>3. CASE i - d \in 1 .. Len(ts) /\ d + (i - d) = i
      <4>1. PICK l \in 1 .. Len(ts) : d + l = i
        BY <3>3
      <4>2. DropEmpty(ts[l]) = <<>>
        BY <1>1, <1>i, <1>7
      <4>3. ServiceDone(ss, ts, i, j, k)
        BY <1>5, <4>1, <4>2
      <4>. QED BY <3>1, <4>3
    <3>4. i \in 1 .. Len(ss)
      BY <1>1
    <3>. QED BY <1>6, <3>2, <3>3, <3>4
  <2>. QED BY <2>1, <2>2, <2>3
<1>8. CASE I # {}
  <2>m. PICK m : m = Min(I)
    OBVIOUS
  <2>0. I \subseteq Nat
    BY <1>1, <1>i
  <2>1. m \in I /\ \A i \in I : m <= i
    BY <1>8, <2>0, <2>m, LeastNumber
  <2>2. m \in 1 .. Len(ts) /\ DropEmpty(ts[m]) # <<>> /\ \A i \in 1 .. m - 1 : DropEmpty(ts[i]) = <<>>
    <3>1. m \in 1 .. Len(ts) /\ DropEmpty(ts[m]) # <<>>
      BY <1>1, <1>i, <2>1
    <3>2. \A i \in 1 .. m - 1 : i \notin I /\ i \in 1 .. Len(ts)
      BY <1>1, <2>1, <3>1
    <3>. QED BY <1>1, <1>i, <3>1, <3>2
  <2>3. us = [SubSeq(ts, m, Len(ts)) EXCEPT ![1] = DropEmpty(@)]
    BY <1>8, <1>i, <2>m DEF DropDone
  <2>4. PICK vs : /\ vs \in Seq(Features) /\ Len(vs) = Len(ts) - m + 1
                  /\ \A i \in 1 .. Len(vs) : vs[i] = ts[i + m - 1]
                  /\ us = [vs EXCEPT ![1] = DropEmpty(@)]
    <3>1. ts \in Seq(Features) /\ m \in 1 .. Len(ts)
      BY <1>1, <2>2
    <3>2. PICK vs : vs = SubSeq(ts, m, Len(ts))
      OBVIOUS
    <3>3. /\ vs \in Seq(Features) /\ Len(vs) = Len(ts) - m + 1
          /\ \A i \in 1 .. Len(vs) : vs[i] = ts[i + m - 1]
      BY <3>1, <3>2, FromIndex
    <3>. QED BY <2>3, <3>2, <3>3, Zenon
  <2>5. FeaturesLeft(ss[d + m], DropEmpty(ts[m])) /\ FeaturesTrimmed(DropEmpty(ts[m]))
    BY <1>2, <1>4, <2>2, FeaturesDropped
  <2>6. DropEmpty(ts[m]) \in Features
    BY <2>5 DEF FeaturesLeft
  <2>7. Len(vs) \in Nat \ {0} /\ vs[1] = ts[m]
    <3>1. 1 + m - 1 = m /\ Len(vs) \in Nat \ {0} /\ 1 \in 1 .. Len(vs)
      BY <1>n, <2>2, <2>4
    <3>. QED BY <2>4, <3>1
  <2>8. /\ us \in Seq(Features) /\ Len(us) = Len(vs)
        /\ us[1] = DropEmpty(ts[m])
        /\ \A i \in 2 .. Len(us) : us[i] = vs[i]
    <3>1. vs \in Seq(Features) /\ 1 \in DOMAIN vs /\ DOMAIN vs = 1 .. Len(vs)
      BY <2>4, <2>7
    <3>2. us = [vs EXCEPT ![1] = DropEmpty(ts[m])]
      BY <2>4, <2>7
    <3>. QED BY <2>6, <2>7, <3>1, <3>2
  <2>9. Gone(ss, us) = d + m - 1 /\ us # <<>>
    <3>1. Len(us) = Len(ts) - m + 1 /\ Len(us) # 0
      BY <2>4, <2>7, <2>8
    <3>2. Gone(ss, us) = d + m - 1
      BY <1>d, <1>n, <2>2, <3>1 DEF Gone
    <3>. QED BY <3>1, <3>2
  <2>10. ServicesLeft(ss, us)
    <3>1. Len(us) <= Len(ss)
      BY <1>n, <2>2, <2>4, <2>8
    <3>2. ASSUME NEW i \in 2 .. Len(us) PROVE us[i] = ss[i + (d + m - 1)]
      <4>1. i + m - 1 \in 2 .. Len(ts) /\ i \in 1 .. Len(vs)
        BY <1>n, <2>2, <2>4, <2>8
      <4>2. us[i] = ts[i + m - 1] /\ ts[i + m - 1] = ss[i + m - 1 + d]
        BY <1>3, <2>4, <2>8, <4>1
      <4>3. i + m - 1 + d = i + (d + m - 1)
        BY <1>n, <2>2
      <4>. QED BY <4>2, <4>3
    <3>3. d + m - 1 + 1 = d + m
      BY <1>n, <2>2
    <3>. QED BY <2>5, <2>8, <2>9, <3>1, <3>2, <3>3 DEF ServicesLeft
  <2>11. ASSUME NEW i \in DOMAIN ss, NEW j \in DOMAIN ss[i], NEW k \in DOMAIN ss[i][j]
         PROVE  ServiceDone(ss, us, i, j, k) <=> ServiceDone(ss, ts, i, j, k)
    <3>1. i \in 1 .. Len(ss)
      BY <1>1
    <3>2. ServiceDone(ss, us, i, j, k) <=>
            i <= d + m - 1 \/ (i = d + m /\ FeatureDone(ss[i], us[1], j, k))
      <4>1. d + m - 1 + 1 = d + m
        BY <1>n, <2>2
      <4>. QED BY <2>9, <4>1 DEF ServiceDone
    <3>3. ServiceDone(ss, ts, i, j, k) <=>
            i <= d \/ (i = d + 1 /\ FeatureDone(ss[i], ts[1], j, k))
      BY <1>d DEF ServiceDone
    <3>4. i = d + m => (FeatureDone(ss[i], us[1], j, k) <=> FeatureDone(ss[i], ts[m], j, k))
      BY <1>2, <1>4, <2>2, <2>8, <3>1, FeaturesDropped
    <3>5. CASE m = 1
      <4>1. d + m - 1 = d
        BY <1>n, <3>5
      <4>. QED BY <3>2, <3>3, <3>4, <3>5, <4>1
    <3>6. CASE m > 1
      <4>1. i = d + m => ~FeatureDone(ss[i], us[1], j, k)
        <5>1. i = d + m => ts[m] = ss[i]
          BY <1>3, <1>n, <2>2, <3>6
        <5>. QED BY <1>2, <3>1, <3>4, <5>1, FeaturesUntouched
      <4>2. CASE i <= d
        BY <1>n, <2>2, <3>1, <3>2, <3>3, <4>2
      <4>3. CASE i > d /\ i <= d + m - 1
        <5>1. PICK l \in 1 .. m - 1 : d + l = i
          <6>1. i - d \in 1 .. m - 1 /\ d + (i - d) = i
            BY <1>n, <2>2, <3>1, <4>3
          <6>. QED BY <6>1
        <5>2. l \in 1 .. Len(ts) /\ DropEmpty(ts[l]) = <<>>
          BY <1>n, <2>2
        <5>3. ServiceDone(ss, ts, i, j, k)
          BY <1>5, <5>1, <5>2
        <5>. QED BY <3>2, <4>3, <5>3
      <4>4. CASE i > d + m - 1
        <5>1. ~ (i <= d + m - 1) /\ ~ (i <= d) /\ i # d + 1
          BY <1>n, <2>2, <3>1, <3>6, <4>4
        <5>. QED BY <3>2, <3>3, <4>1, <5>1
      <4>. QED BY <1>n, <2>2, <3>1, <4>2, <4>3, <4>4
    <3>. QED BY <2>2, <3>5, <3>6
  <2>. QED BY <2>5, <2>8, <2>9, <2>10, <2>11
<1>. QED BY <1>7, <1>8


-----------------------------------------------------------------------------
(* Executing the first task.                                               *)

Popped(gs) == [gs EXCEPT ![1] = Tail(@)]

LEMMA FeaturesPopped ==
  ASSUME NEW fs \in Features, NEW gs, FeaturesLeft(fs, gs), FeaturesTrimmed(gs),
         NEW hs, hs = Popped(gs),
         NEW jj, jj = FirstFeature(fs, gs), NEW kk, kk = FirstTask(fs, gs)
  PROVE  /\ FeaturesLeft(fs, hs) /\ hs # <<>>
         /\ jj \in DOMAIN fs /\ kk \in DOMAIN fs[jj]
         /\ fs[jj][kk] = gs[1][1] /\ gs[1][1] \in Task
         /\ \A j \in DOMAIN fs : \A k \in DOMAIN fs[j] :
              /\ FeatureDone(fs, gs, j, k) <=> j < jj \/ (j = jj /\ k < kk)
              /\ FeatureDone(fs, hs, j, k) <=> j < jj \/ (j = jj /\ k <= kk)
<1>d. PICK d : d = Len(fs) - Len(gs) /\ d = Gone(fs, gs)
  BY DEF Gone
<1>1. /\ gs \in Seq(Seq(Task)) /\ Len(gs) \in Nat \ {0} /\ Len(fs) \in Nat /\ Len(gs) <= Len(fs)
      /\ DOMAIN fs = 1 .. Len(fs) /\ DOMAIN gs = 1 .. Len(gs) /\ gs # <<>> /\ gs[1] # <<>>
      /\ \A j \in 1 .. Len(fs) :
           fs[j] \in Seq(Task) /\ Len(fs[j]) \in Nat /\ DOMAIN fs[j] = 1 .. Len(fs[j])
  BY DEF FeaturesLeft, FeaturesTrimmed, Features
<1>n. d \in Nat /\ d + 1 \in 1 .. Len(fs) /\ jj = d + 1
  BY <1>1, <1>d DEF FirstFeature
<1>2. /\ Len(gs[1]) <= Len(fs[d + 1])
      /\ \A k \in 1 .. Len(gs[1]) : gs[1][k] = fs[d + 1][k + Gone(fs[d + 1], gs[1])]
      /\ \A j \in 2 .. Len(gs) : gs[j] = fs[j + d]
  BY <1>1, <1>d DEF FeaturesLeft
<1>q. PICK q : q = Len(fs[d + 1]) - Len(gs[1]) /\ q = Gone(fs[d + 1], gs[1])
  BY DEF Gone
<1>3. gs[1] \in Seq(Task) /\ Len(gs[1]) \in Nat \ {0} /\ 1 \in DOMAIN gs
  BY <1>1
<1>4. /\ q \in Nat /\ q + 1 \in 1 .. Len(fs[d + 1]) /\ kk = q + 1
      /\ Len(fs[d + 1]) \in Nat /\ q + Len(gs[1]) = Len(fs[d + 1])
  BY <1>1, <1>2, <1>3, <1>n, <1>q DEF FirstTask
<1>5. jj \in DOMAIN fs /\ kk \in DOMAIN fs[jj]
  BY <1>1, <1>n, <1>4
<1>6. fs[jj][kk] = gs[1][1] /\ gs[1][1] \in Task
  <2>1. 1 \in 1 .. Len(gs[1]) /\ 1 + q = q + 1
    BY <1>3, <1>4
  <2>. QED BY <1>2, <1>3, <1>4, <1>n, <1>q, <2>1
<1>7. /\ Tail(gs[1]) \in Seq(Task) /\ Len(Tail(gs[1])) = Len(gs[1]) - 1
      /\ \A k \in 1 .. Len(gs[1]) - 1 : Tail(gs[1])[k] = gs[1][k + 1]
  BY <1>1, <1>3
<1>8. /\ hs \in Seq(Seq(Task)) /\ Len(hs) = Len(gs) /\ hs[1] = Tail(gs[1]) /\ hs # <<>>
      /\ \A j \in 2 .. Len(gs) : hs[j] = gs[j]
  BY <1>1, <1>3, <1>7 DEF Popped
<1>9. Gone(fs, hs) = d /\ Gone(fs[d + 1], hs[1]) = q + 1
  <2>1. Gone(fs, hs) = d
    BY <1>8, <1>d DEF Gone
  <2>2. Gone(fs[d + 1], hs[1]) = q + 1
    <3>1. Len(hs[1]) = Len(gs[1]) - 1
      BY <1>7, <1>8
    <3>2. Gone(fs[d + 1], hs[1]) = Len(fs[d + 1]) - (Len(gs[1]) - 1)
      BY <3>1 DEF Gone
    <3>. QED BY <1>3, <1>4, <3>2
  <2>. QED BY <2>1, <2>2
<1>10. FeaturesLeft(fs, hs)
  <2>1. ASSUME NEW k \in 1 .. Len(hs[1]) PROVE hs[1][k] = fs[d + 1][k + (q + 1)]
    <3>1. k \in 1 .. Len(gs[1]) - 1 /\ k + 1 \in 1 .. Len(gs[1]) /\ k + 1 + q = k + (q + 1)
      BY <1>3, <1>4, <1>7, <1>8
    <3>2. hs[1][k] = gs[1][k + 1] /\ gs[1][k + 1] = fs[d + 1][k + 1 + q]
      BY <1>2, <1>7, <1>8, <1>q, <3>1
    <3>. QED BY <3>1, <3>2
  <2>2. Len(hs[1]) <= Len(fs[d + 1])
    BY <1>3, <1>4, <1>7, <1>8
  <2>3. hs \in Features /\ Len(hs) <= Len(fs)
    BY <1>1, <1>8 DEF Features
  <2>4. \A j \in 2 .. Len(hs) : hs[j] = fs[j + d]
    BY <1>2, <1>8
  <2>. QED BY <1>9, <2>1, <2>2, <2>3, <2>4 DEF FeaturesLeft
<1>11. ASSUME NEW j \in DOMAIN fs, NEW k \in DOMAIN fs[j]
       PROVE  /\ FeatureDone(fs, gs, j, k) <=> j < jj \/ (j = jj /\ k < kk)
              /\ FeatureDone(fs, hs, j, k) <=> j < jj \/ (j = jj /\ k <= kk)
  <2>1. j \in Nat /\ k \in Nat
    BY <1>1
  <2>2. FeatureDone(fs, gs, j, k) <=> j <= d \/ (j = d + 1 /\ k <= q)
    BY <1>d, <1>q DEF FeatureDone
  <2>3. FeatureDone(fs, hs, j, k) <=> j <= d \/ (j = d + 1 /\ k <= q + 1)
    BY <1>9 DEF FeatureDone
  <2>4. /\ j <= d <=> j < jj
        /\ k <= q <=> k < kk
    BY <1>n, <1>4, <2>1
  <2>. QED BY <1>n, <1>4, <2>2, <2>3, <2>4
<1>. QED BY <1>5, <1>6, <1>8, <1>10, <1>11

ConfigType == [system : Features, services : Seq(Features)]

LEMMA PlaceFacts ==
  ASSUME NEW c \in ConfigType
  PROVE  /\ \A p \in Places(c) :
              /\ p = <<p[1], p[2], p[3]>> /\ p[1] \in 0 .. Len(c.services)
              /\ p[1] # 0 => p[1] \in DOMAIN c.services
              /\ FeaturesOf(c, p[1]) \in Features
              /\ p[2] \in DOMAIN FeaturesOf(c, p[1])
              /\ p[3] \in DOMAIN FeaturesOf(c, p[1])[p[2]]
              /\ p[1] \in Nat /\ p[2] \in Nat /\ p[3] \in Nat
         /\ \A i \in 0 .. Len(c.services) :
              \A j \in DOMAIN FeaturesOf(c, i) : \A k \in DOMAIN FeaturesOf(c, i)[j] :
                <<i, j, k>> \in Places(c)
<1>1. ASSUME NEW i \in 0 .. Len(c.services)
      PROVE  FeaturesOf(c, i) \in Features /\ (i # 0 => i \in DOMAIN c.services) /\ i \in Nat
  <2>1. /\ c.system \in Features /\ c.services \in Seq(Features) /\ Len(c.services) \in Nat
        /\ DOMAIN c.services = 1 .. Len(c.services)
    BY DEF ConfigType
  <2>. QED BY <2>1 DEF FeaturesOf
<1>2. ASSUME NEW p \in Places(c)
      PROVE  /\ p = <<p[1], p[2], p[3]>> /\ p[1] \in 0 .. Len(c.services)
             /\ p[2] \in DOMAIN FeaturesOf(c, p[1])
             /\ p[3] \in DOMAIN FeaturesOf(c, p[1])[p[2]]
  <2>1. PICK i \in 0 .. Len(c.services) : \E j \in DOMAIN FeaturesOf(c, i) :
             \E k \in DOMAIN FeaturesOf(c, i)[j] : p = <<i, j, k>>
    BY DEF Places
  <2>. PICK j \in DOMAIN FeaturesOf(c, i) : \E k \in DOMAIN FeaturesOf(c, i)[j] : p = <<i, j, k>>
    BY <2>1
  <2>. PICK k \in DOMAIN FeaturesOf(c, i)[j] : p = <<i, j, k>>
    OBVIOUS
  <2>2. p[1] = i /\ p[2] = j /\ p[3] = k
    OBVIOUS
  <2>. QED BY <2>2
<1>3. ASSUME NEW fs \in Features, NEW j \in DOMAIN fs, NEW k \in DOMAIN fs[j]
      PROVE  j \in Nat /\ k \in Nat
  BY DEF Features
<1>4. ASSUME NEW i \in 0 .. Len(c.services), NEW j \in DOMAIN FeaturesOf(c, i),
             NEW k \in DOMAIN FeaturesOf(c, i)[j]
      PROVE  <<i, j, k>> \in Places(c)
  BY DEF Places
<1>. QED BY <1>1, <1>2, <1>3, <1>4


LEMMA TrimLeft ==
  ASSUME NEW c \in ConfigType, NEW e \in Left0, Left(c, e), NEW t, t = Trim(e)
  PROVE  /\ t \in Left0 /\ t.n = e.n /\ Left(c, t)
         /\ HasTask(t) => Trimmed(t)
         /\ ~HasTask(t) => \A p \in Places(c) : DoneIn(c, t, p)
         /\ \A p \in Places(c) : DoneIn(c, t, p) <=> DoneIn(c, e, p)
<1>1. /\ c.system \in Features /\ c.services \in Seq(Features)
      /\ FeaturesLeft(c.system, e.system) /\ ServicesLeft(c.services, e.services)
      /\ e.system # <<>> => e.services = c.services
  BY DEF ConfigType, Left
<1>2. PICK hs, us : hs = DropEmpty(e.system) /\ us = DropDone(e.services)
  OBVIOUS
<1>3. /\ FeaturesLeft(c.system, hs) /\ (hs = <<>> \/ FeaturesTrimmed(hs))
      /\ \A j \in DOMAIN c.system : \A k \in DOMAIN c.system[j] :
           FeatureDone(c.system, hs, j, k) <=> FeatureDone(c.system, e.system, j, k)
  BY <1>1, <1>2, FeaturesDropped
<1>4. /\ ServicesLeft(c.services, us) /\ (us = <<>> \/ FeaturesTrimmed(us[1]))
      /\ \A i \in DOMAIN c.services : \A j \in DOMAIN c.services[i] :
           \A k \in DOMAIN c.services[i][j] :
             ServiceDone(c.services, us, i, j, k) <=> ServiceDone(c.services, e.services, i, j, k)
  BY <1>1, <1>2, ServicesDropped
<1>5. hs \in Features /\ us \in Seq(Features)
  BY <1>3, <1>4 DEF FeaturesLeft, ServicesLeft
<1>6. ASSUME NEW p \in Places(c)
      PROVE  /\ p[1] = 0 => p[2] \in DOMAIN c.system /\ p[3] \in DOMAIN c.system[p[2]]
             /\ p[1] # 0 => /\ p[1] \in DOMAIN c.services /\ p[2] \in DOMAIN c.services[p[1]]
                            /\ p[3] \in DOMAIN c.services[p[1]][p[2]]
  BY PlaceFacts DEF FeaturesOf
<1>7. CASE hs # <<>>
  <2>1. t = [e EXCEPT !.system = hs]
    BY <1>2, <1>7 DEF Trim
  <2>2. t \in Left0 /\ t.n = e.n /\ t.system = hs /\ t.services = e.services
    BY <1>5, <2>1 DEF Left0
  <2>3. e.system # <<>>
    BY <1>2, <1>7 DEF DropEmpty
  <2>4. Left(c, t)
    BY <1>1, <1>3, <2>2, <2>3 DEF Left
  <2>5. HasTask(t) /\ Trimmed(t)
    BY <1>3, <1>7, <2>2 DEF HasTask, Trimmed
  <2>6. \A p \in Places(c) : DoneIn(c, t, p) <=> DoneIn(c, e, p)
    BY <1>3, <1>6, <2>2 DEF DoneIn
  <2>. QED BY <2>2, <2>4, <2>5, <2>6
<1>8. CASE hs = <<>>
  <2>1. t = [e EXCEPT !.system = <<>>, !.services = us]
    BY <1>2, <1>8 DEF Trim
  <2>2. t \in Left0 /\ t.n = e.n /\ t.system = hs /\ t.services = us
    BY <1>5, <1>8, <2>1 DEF Left0
  <2>3. Left(c, t)
    BY <1>3, <1>4, <1>8, <2>2 DEF Left
  <2>4. HasTask(t) => Trimmed(t)
    BY <1>4, <1>8, <2>2 DEF HasTask, Trimmed
  <2>5. \A p \in Places(c) : DoneIn(c, t, p) <=> DoneIn(c, e, p)
    BY <1>3, <1>4, <1>6, <2>2 DEF DoneIn
  <2>6. ASSUME ~HasTask(t), NEW p \in Places(c) PROVE DoneIn(c, t, p)
    <3>1. t.system = <<>> /\ t.services = <<>>
      BY <2>6 DEF HasTask
    <3>2. /\ Len(c.system) \in Nat /\ DOMAIN c.system = 1 .. Len(c.system)
          /\ Len(c.services) \in Nat /\ DOMAIN c.services = 1 .. Len(c.services)
      BY <1>1 DEF Features
    <3>3. p[1] = 0 => FeatureDone(c.system, <<>>, p[2], p[3])
      BY <1>6, <3>2 DEF FeatureDone, Gone
    <3>4. p[1] # 0 => ServiceDone(c.services, <<>>, p[1], p[2], p[3])
      BY <1>6, <3>2 DEF ServiceDone, Gone
    <3>. QED BY <3>1, <3>3, <3>4 DEF DoneIn
  <2>. QED BY <2>2, <2>3, <2>4, <2>5, <2>6
<1>. QED BY <1>7, <1>8

LEMMA PopLeft ==
  ASSUME NEW c \in ConfigType, NEW e \in Left0, Left(c, e), Trimmed(e),
         NEW t, t = PopTask(e), NEW f, f = FirstPlace(c, e)
  PROVE  /\ t \in Left0 /\ t.n = e.n /\ Left(c, t)
         /\ f \in Places(c) /\ TaskAt(c, f) = HeadTask(e) /\ HeadTask(e) \in Task
         /\ \A p \in Places(c) : DoneIn(c, e, p) <=> Before(p, f)
         /\ \A p \in Places(c) : DoneIn(c, t, p) <=> Before(p, f) \/ p = f
<1>1. /\ c.system \in Features /\ c.services \in Seq(Features)
      /\ FeaturesLeft(c.system, e.system) /\ ServicesLeft(c.services, e.services)
      /\ e.system # <<>> => e.services = c.services
      /\ e.system \in Features /\ e.services \in Seq(Features)
  BY DEF ConfigType, Left, Left0
<1>2. ASSUME NEW p \in Places(c)
      PROVE  /\ p = <<p[1], p[2], p[3]>> /\ p[1] \in Nat /\ p[2] \in Nat /\ p[3] \in Nat
             /\ p[1] = 0 => p[2] \in DOMAIN c.system /\ p[3] \in DOMAIN c.system[p[2]]
             /\ p[1] # 0 => /\ p[1] \in DOMAIN c.services /\ p[2] \in DOMAIN c.services[p[1]]
                            /\ p[3] \in DOMAIN c.services[p[1]][p[2]]
  BY PlaceFacts DEF FeaturesOf
<1>3. CASE FeaturesTrimmed(e.system)
  <2>0. e.system # <<>> /\ e.services = c.services
    BY <1>1, <1>3 DEF FeaturesTrimmed
  <2>1. PICK hs, jj, kk : /\ hs = Popped(e.system)
                          /\ jj = FirstFeature(c.system, e.system)
                          /\ kk = FirstTask(c.system, e.system)
    OBVIOUS
  <2>2. /\ FeaturesLeft(c.system, hs) /\ hs # <<>>
        /\ jj \in DOMAIN c.system /\ kk \in DOMAIN c.system[jj]
        /\ c.system[jj][kk] = e.system[1][1] /\ e.system[1][1] \in Task
        /\ \A j \in DOMAIN c.system : \A k \in DOMAIN c.system[j] :
             /\ FeatureDone(c.system, e.system, j, k) <=> j < jj \/ (j = jj /\ k < kk)
             /\ FeatureDone(c.system, hs, j, k) <=> j < jj \/ (j = jj /\ k <= kk)
    <3>1. PICK fs, gs : fs = c.system /\ gs = e.system
      OBVIOUS
    <3>2. /\ fs \in Features /\ FeaturesLeft(fs, gs) /\ FeaturesTrimmed(gs)
          /\ hs = Popped(gs)
          /\ jj = FirstFeature(fs, gs) /\ kk = FirstTask(fs, gs)
      BY <1>1, <1>3, <2>1, <3>1
    <3>3. /\ FeaturesLeft(fs, hs) /\ hs # <<>>
          /\ jj \in DOMAIN fs /\ kk \in DOMAIN fs[jj]
          /\ fs[jj][kk] = gs[1][1] /\ gs[1][1] \in Task
          /\ \A j \in DOMAIN fs : \A k \in DOMAIN fs[j] :
               /\ FeatureDone(fs, gs, j, k) <=> j < jj \/ (j = jj /\ k < kk)
               /\ FeatureDone(fs, hs, j, k) <=> j < jj \/ (j = jj /\ k <= kk)
      BY <3>2, FeaturesPopped
    <3>. QED BY <3>1, <3>3
  <2>3. f = <<0, jj, kk>> /\ f[1] = 0 /\ f[2] = jj /\ f[3] = kk
    BY <2>0, <2>1 DEF FirstPlace
  <2>4. t = [e EXCEPT !.system = hs]
    BY <2>0, <2>1 DEF PopTask, Popped
  <2>5. hs \in Features
    BY <2>2 DEF FeaturesLeft
  <2>6. t \in Left0 /\ t.n = e.n /\ t.system = hs /\ t.services = c.services
    BY <2>0, <2>4, <2>5 DEF Left0
  <2>7. Left(c, t)
    BY <1>1, <2>0, <2>2, <2>6 DEF Left
  <2>8. f \in Places(c)
    <3>1. 0 \in 0 .. Len(c.services)
      BY <1>1
    <3>2. FeaturesOf(c, 0) = c.system
      BY DEF FeaturesOf
    <3>. QED BY <2>2, <2>3, <3>1, <3>2, PlaceFacts
  <2>9. TaskAt(c, f) = HeadTask(e) /\ HeadTask(e) \in Task
    BY <2>0, <2>2, <2>3 DEF TaskAt, HeadTask, FeaturesOf
  <2>10. jj \in Nat /\ kk \in Nat
    BY <1>2, <2>3, <2>8
  <2>11. ASSUME NEW i \in DOMAIN c.services, NEW j \in DOMAIN c.services[i],
                NEW k \in DOMAIN c.services[i][j]
         PROVE  ~ServiceDone(c.services, c.services, i, j, k)
    <3>1. i \in Nat \ {0} /\ c.services[i] \in Features /\ Gone(c.services, c.services) = 0
      BY <1>1 DEF Gone
    <3>2. i = 1 => ~FeatureDone(c.services[i], c.services[1], j, k)
      BY <3>1, FeaturesUntouched
    <3>. QED BY <3>1, <3>2 DEF ServiceDone
  <2>12. ASSUME NEW p \in Places(c)
         PROVE  /\ DoneIn(c, e, p) <=> Before(p, f)
                /\ DoneIn(c, t, p) <=> Before(p, f) \/ p = f
    <3>1. CASE p[1] = 0
      <4>1. /\ DoneIn(c, e, p) <=> p[2] < jj \/ (p[2] = jj /\ p[3] < kk)
            /\ DoneIn(c, t, p) <=> p[2] < jj \/ (p[2] = jj /\ p[3] <= kk)
        BY <1>2, <2>2, <2>6, <3>1 DEF DoneIn
      <4>2. Before(p, f) <=> p[2] < jj \/ (p[2] = jj /\ p[3] < kk)
        BY <2>3, <3>1 DEF Before
      <4>3. p = f <=> p[2] = jj /\ p[3] = kk
        BY <1>2, <2>3, <3>1
      <4>4. p[3] <= kk <=> p[3] < kk \/ p[3] = kk
        BY <1>2, <2>10
      <4>. QED BY <4>1, <4>2, <4>3, <4>4
    <3>2. CASE p[1] # 0
      <4>1. ~DoneIn(c, e, p) /\ ~DoneIn(c, t, p)
        BY <1>2, <2>0, <2>6, <2>11, <3>2 DEF DoneIn
      <4>2. ~Before(p, f) /\ p # f
        BY <1>2, <2>3, <3>2 DEF Before
      <4>. QED BY <4>1, <4>2
    <3>. QED BY <3>1, <3>2
  <2>. QED BY <2>6, <2>7, <2>8, <2>9, <2>12
<1>4. CASE e.system = <<>> /\ e.services # <<>> /\ FeaturesTrimmed(e.services[1])
  <2>d. PICK d : d = Len(c.services) - Len(e.services) /\ d = Gone(c.services, e.services)
    BY DEF Gone
  <2>0. /\ Len(c.services) \in Nat /\ Len(e.services) \in Nat \ {0} /\ d \in Nat
        /\ DOMAIN c.services = 1 .. Len(c.services) /\ DOMAIN e.services = 1 .. Len(e.services)
        /\ d + 1 \in DOMAIN c.services /\ 1 \in DOMAIN e.services
    <3>1. /\ c.services \in Seq(Features) /\ e.services \in Seq(Features)
          /\ e.services # <<>> /\ Len(e.services) <= Len(c.services)
      BY <1>1, <1>4 DEF ServicesLeft
    <3>2. /\ Len(c.services) \in Nat /\ Len(e.services) \in Nat \ {0}
          /\ DOMAIN c.services = 1 .. Len(c.services) /\ DOMAIN e.services = 1 .. Len(e.services)
      BY <3>1
    <3>3. PICK a, b : a = Len(c.services) /\ b = Len(e.services)
      OBVIOUS
    <3>4. d \in Nat /\ d + 1 \in 1 .. a /\ 1 \in 1 .. b
      <4>1. a \in Nat /\ b \in Nat \ {0} /\ b <= a /\ d = a - b
        BY <2>d, <3>1, <3>2, <3>3
      <4>. QED BY <4>1
    <3>. QED BY <3>2, <3>3, <3>4
  <2>s. /\ FeaturesLeft(c.services[d + 1], e.services[1]) /\ Len(e.services) <= Len(c.services)
        /\ \A i \in 2 .. Len(e.services) : e.services[i] = c.services[i + d]
        /\ c.services[d + 1] \in Features
    <3>1. c.services[d + 1] \in Features
      BY <1>1, <2>0
    <3>. QED BY <1>1, <1>4, <2>d, <3>1 DEF ServicesLeft
  <2>1. PICK fs, hs, jj, kk : /\ fs = c.services[d + 1]
                              /\ hs = Popped(e.services[1])
                              /\ jj = FirstFeature(fs, e.services[1])
                              /\ kk = FirstTask(fs, e.services[1])
    OBVIOUS
  <2>2. /\ FeaturesLeft(fs, hs) /\ hs # <<>>
        /\ jj \in DOMAIN fs /\ kk \in DOMAIN fs[jj]
        /\ fs[jj][kk] = e.services[1][1][1] /\ e.services[1][1][1] \in Task
        /\ \A j \in DOMAIN fs : \A k \in DOMAIN fs[j] :
             /\ FeatureDone(fs, e.services[1], j, k) <=> j < jj \/ (j = jj /\ k < kk)
             /\ FeatureDone(fs, hs, j, k) <=> j < jj \/ (j = jj /\ k <= kk)
    <3>1. PICK gs : gs = e.services[1]
      OBVIOUS
    <3>2. /\ fs \in Features /\ FeaturesLeft(fs, gs) /\ FeaturesTrimmed(gs)
          /\ hs = Popped(gs)
          /\ jj = FirstFeature(fs, gs) /\ kk = FirstTask(fs, gs)
      BY <1>4, <2>s, <2>1, <3>1
    <3>3. /\ FeaturesLeft(fs, hs) /\ hs # <<>>
          /\ jj \in DOMAIN fs /\ kk \in DOMAIN fs[jj]
          /\ fs[jj][kk] = gs[1][1] /\ gs[1][1] \in Task
          /\ \A j \in DOMAIN fs : \A k \in DOMAIN fs[j] :
               /\ FeatureDone(fs, gs, j, k) <=> j < jj \/ (j = jj /\ k < kk)
               /\ FeatureDone(fs, hs, j, k) <=> j < jj \/ (j = jj /\ k <= kk)
      BY <3>2, FeaturesPopped
    <3>. QED BY <3>1, <3>3
  <2>3. f = <<d + 1, jj, kk>> /\ f[1] = d + 1 /\ f[2] = jj /\ f[3] = kk
    BY <1>4, <2>d, <2>1 DEF FirstPlace
  <2>4. PICK us : us = [e.services EXCEPT ![1] = hs] /\ t = [e EXCEPT !.services = us]
    <3>1. t = [e EXCEPT !.services = [e.services EXCEPT ![1] = hs]]
      BY <1>1, <1>4, <2>1, <2>0 DEF PopTask, Popped, Left0
    <3>. QED BY <3>1
  <2>5. hs \in Features
    BY <2>2 DEF FeaturesLeft
  <2>6. /\ us \in Seq(Features) /\ Len(us) = Len(e.services) /\ us[1] = hs
        /\ \A i \in 2 .. Len(us) : us[i] = e.services[i]
    BY <1>1, <2>0, <2>4, <2>5
  <2>7. t \in Left0 /\ t.n = e.n /\ t.system = <<>> /\ t.services = us
    BY <1>4, <2>4, <2>6 DEF Left0
  <2>8. Gone(c.services, us) = d /\ us # <<>>
    <3>1. Len(us) # 0
      BY <2>0, <2>6
    <3>. QED BY <2>d, <2>6, <3>1 DEF Gone
  <2>9. Left(c, t)
    <3>1. ServicesLeft(c.services, us)
      BY <2>s, <2>1, <2>2, <2>6, <2>8 DEF ServicesLeft
    <3>. QED BY <1>1, <1>4, <2>7, <3>1 DEF Left
  <2>10. f \in Places(c)
    <3>1. d + 1 \in 0 .. Len(c.services) /\ d + 1 # 0
      BY <2>0
    <3>2. FeaturesOf(c, d + 1) = fs
      BY <2>1, <3>1 DEF FeaturesOf
    <3>. QED BY <2>2, <2>3, <3>1, <3>2, PlaceFacts
  <2>11. TaskAt(c, f) = HeadTask(e) /\ HeadTask(e) \in Task
    <3>1. d + 1 # 0
      BY <2>0
    <3>. QED BY <1>4, <2>1, <2>2, <2>3, <3>1 DEF TaskAt, HeadTask, FeaturesOf
  <2>12. jj \in Nat /\ kk \in Nat
    BY <1>2, <2>3, <2>10
  <2>13. ASSUME NEW p \in Places(c)
         PROVE  /\ DoneIn(c, e, p) <=> Before(p, f)
                /\ DoneIn(c, t, p) <=> Before(p, f) \/ p = f
    <3>1. CASE p[1] = 0
      <4>1. FeatureDone(c.system, <<>>, p[2], p[3])
        BY <1>1, <1>2, <3>1 DEF FeatureDone, Gone, Features
      <4>2. DoneIn(c, e, p) /\ DoneIn(c, t, p)
        BY <1>4, <2>7, <3>1, <4>1 DEF DoneIn
      <4>3. Before(p, f)
        BY <2>0, <2>3, <3>1 DEF Before
      <4>. QED BY <4>2, <4>3
    <3>2. CASE p[1] # 0
      <4>1. DoneIn(c, e, p) <=>
              p[1] <= d \/ (p[1] = d + 1 /\ FeatureDone(fs, e.services[1], p[2], p[3]))
        BY <2>d, <2>1, <3>2 DEF DoneIn, ServiceDone
      <4>2. DoneIn(c, t, p) <=>
              p[1] <= d \/ (p[1] = d + 1 /\ FeatureDone(fs, hs, p[2], p[3]))
        BY <2>1, <2>6, <2>7, <2>8, <3>2 DEF DoneIn, ServiceDone
      <4>3. p[1] = d + 1 =>
              /\ FeatureDone(fs, e.services[1], p[2], p[3])
                   <=> p[2] < jj \/ (p[2] = jj /\ p[3] < kk)
              /\ FeatureDone(fs, hs, p[2], p[3])
                   <=> p[2] < jj \/ (p[2] = jj /\ p[3] <= kk)
        BY <1>2, <2>1, <2>2, <3>2
      <4>4. Before(p, f) <=>
              p[1] < d + 1 \/ (p[1] = d + 1 /\ (p[2] < jj \/ (p[2] = jj /\ p[3] < kk)))
        BY <2>3 DEF Before
      <4>5. p = f <=> p[1] = d + 1 /\ p[2] = jj /\ p[3] = kk
        BY <1>2, <2>3
      <4>6. /\ p[3] <= kk <=> p[3] < kk \/ p[3] = kk
            /\ p[1] <= d <=> p[1] < d + 1
        BY <1>2, <2>0, <2>12
      <4>. QED BY <4>1, <4>2, <4>3, <4>4, <4>5, <4>6
    <3>. QED BY <3>1, <3>2
  <2>. QED BY <2>7, <2>9, <2>10, <2>11, <2>13
<1>. QED BY <1>3, <1>4 DEF Trimmed


-----------------------------------------------------------------------------
(* What was received and executed stays, and so does what events tell.     *)

Grown ==
  /\ \A i \in DOMAIN started : i \in DOMAIN started' /\ started'[i] = started[i]
  /\ \A i \in DOMAIN host : i \in DOMAIN host' /\ host'[i] = host[i]

InOrder(i) ==
  LET n == host[i].n
      c == started[n]
  IN  \E p \in Places(c) :
        /\ TaskAt(c, p) = host[i].task
        /\ \A q \in Places(c) : Before(q, p) =>
             \E l \in 1 .. i - 1 : host[l] = [n |-> n, task |-> TaskAt(c, q)]

LEMMA Configured ==
  ASSUME started \in Seq(Config), NEW n \in DOMAIN started
  PROVE  started[n] \in Config /\ started[n] \in ConfigType
<1>1. started[n] \in Config
  OBVIOUS
<1>. QED BY <1>1, ProbeAssumption DEF ConfigType, Features

LEMMA SoundKept ==
  ASSUME Grown, NEW e, Sound(e, started, host)
  PROVE  Sound(e, started', host')
<1>. PICK n, c : n = e.cfg.n /\ c = started[n]
  OBVIOUS
<1>1. n \in DOMAIN started /\ n \in DOMAIN started' /\ started'[n] = c /\ n = e.cfg.n /\ c = started[n]
  BY DEF Sound, Grown
<1>2. ASSUME NEW task, Wrote(host, n, task) PROVE Wrote(host', n, task)
  BY <1>2 DEF Wrote, Grown
<1>3. \A p \in Places(c) : DoneIn(c, e.cfg, p) => Wrote(host', n, TaskAt(c, p))
  BY <1>1, <1>2 DEF Sound
<1>. QED BY <1>1, <1>3 DEF Sound

LEMMA InOrderKept ==
  ASSUME Types, HostKnown, Grown, NEW i \in DOMAIN host, InOrder(i)
  PROVE  InOrder(i)'
<1>. PICK n, c : n = host[i].n /\ c = started[n]
  OBVIOUS
<1>1. /\ n = host[i].n /\ c = started[n] /\ n \in DOMAIN started
      /\ host'[i] = host[i] /\ started'[n] = c
  BY DEF HostKnown, Grown
<1>2. /\ DOMAIN host = 1 .. Len(host) /\ Len(host) \in Nat
  BY DEF Types
<1>3. \A l \in 1 .. i - 1 : l \in DOMAIN host /\ host'[l] = host[l]
  BY <1>2 DEF Grown
<1>4. PICK p \in Places(c) :
        /\ TaskAt(c, p) = host[i].task
        /\ \A q \in Places(c) : Before(q, p) =>
             \E l \in 1 .. i - 1 : host[l] = [n |-> n, task |-> TaskAt(c, q)]
  BY <1>1 DEF InOrder
<1>5. \A q \in Places(c) : Before(q, p) =>
        \E l \in 1 .. i - 1 : host'[l] = [n |-> n, task |-> TaskAt(c, q)]
  BY <1>3, <1>4
<1>. QED BY <1>1, <1>4, <1>5 DEF InOrder

(* The state that follows is sound, if there is one.                       *)
LEMMA NextStateIs ==
  ASSUME NEW c \in ConfigType, NEW x \in Left0, Left(c, x), NEW s, s = NextState(x)
  PROVE  /\ s \in Event
         /\ s.st # "" => /\ s.cfg.n = x.n /\ Left(c, s.cfg) /\ Trimmed(s.cfg)
                         /\ s.st = HeadTask(s.cfg).type
                         /\ \A p \in Places(c) : DoneIn(c, s.cfg, p) <=> DoneIn(c, x, p)
         /\ s.st = "" => \/ \A p \in Places(c) : DoneIn(c, x, p)
                         \/ \E p \in Places(c) : TaskAt(c, p).type = ""
<1>. PICK t : t = Trim(x)
  OBVIOUS
<1>1. /\ t \in Left0 /\ t.n = x.n /\ Left(c, t)
      /\ HasTask(t) => Trimmed(t)
      /\ ~HasTask(t) => \A p \in Places(c) : DoneIn(c, t, p)
      /\ \A p \in Places(c) : DoneIn(c, t, p) <=> DoneIn(c, x, p)
  BY TrimLeft
<1>2. CASE HasTask(t)
  <2>1. PICK f : f = FirstPlace(c, t)
    OBVIOUS
  <2>2. HeadTask(t) \in Task /\ f \in Places(c) /\ TaskAt(c, f) = HeadTask(t)
    <3>1. PICK u : u = PopTask(t)
      OBVIOUS
    <3>. QED BY <1>1, <1>2, <2>1, <3>1, PopLeft
  <2>3. s = [st |-> HeadTask(t).type, cfg |-> t]
    BY <1>2 DEF NextState
  <2>4. HeadTask(t).type \in StateNames
    BY <2>2 DEF StateNames
  <2>5. s \in Event /\ s.st = HeadTask(t).type /\ s.cfg = t
    BY <1>1, <2>3, <2>4 DEF Event
  <2>. QED BY <1>1, <1>2, <2>2, <2>5
<1>3. CASE ~HasTask(t)
  <2>1. s = NoState
    BY <1>3 DEF NextState
  <2>2. s \in Event /\ s.st = ""
    <3>1. <<>> \in Features /\ <<>> \in Seq(Features)
      BY DEF Features
    <3>2. [n |-> 0, system |-> <<>>, services |-> <<>>] \in Left0
      BY <3>1 DEF Left0
    <3>3. "" \in StateNames
      BY DEF StateNames
    <3>4. PICK z : z = [n |-> 0, system |-> <<>>, services |-> <<>>]
      OBVIOUS
    <3>5. PICK name : name = ""
      OBVIOUS
    <3>6. s = [st |-> name, cfg |-> z] /\ z \in Left0 /\ name \in StateNames
      BY <2>1, <3>2, <3>3, <3>4, <3>5 DEF NoState
    <3>7. s \in Event /\ s.st = name
      BY <3>6 DEF Event
    <3>. QED BY <3>5, <3>7
  <2>. QED BY <1>1, <1>3, <2>2
<1>. QED BY <1>2, <1>3

(* A configuration that is received is left as it is.                      *)
LEMMA Received ==
  ASSUME NEW c \in ConfigType, NEW n \in Nat,
         NEW x, x = [n |-> n, system |-> c.system, services |-> c.services]
  PROVE  x \in Left0 /\ x.n = n /\ Left(c, x) /\ \A p \in Places(c) : ~DoneIn(c, x, p)
<1>1. c.system \in Features /\ c.services \in Seq(Features)
  BY DEF ConfigType
<1>2. x \in Left0 /\ x.n = n /\ x.system = c.system /\ x.services = c.services
  BY <1>1 DEF Left0
<1>3. /\ Len(c.services) \in Nat /\ DOMAIN c.services = 1 .. Len(c.services)
      /\ Gone(c.services, c.services) = 0
      /\ \A i \in 1 .. Len(c.services) : c.services[i] \in Features
  BY <1>1 DEF Gone
<1>4. ServicesLeft(c.services, c.services)
  <2>1. c.services # <<>> => 1 \in 1 .. Len(c.services)
    BY <1>1, <1>3
  <2>. QED BY <1>1, <1>3, <2>1, FeaturesUntouched DEF ServicesLeft
<1>5. ASSUME NEW p \in Places(c) PROVE ~DoneIn(c, x, p)
  <2>1. /\ p[1] = 0 => p[2] \in DOMAIN c.system /\ p[3] \in DOMAIN c.system[p[2]]
        /\ p[1] # 0 => /\ p[1] \in DOMAIN c.services /\ p[2] \in DOMAIN c.services[p[1]]
                       /\ p[3] \in DOMAIN c.services[p[1]][p[2]]
    BY PlaceFacts DEF FeaturesOf
  <2>2. CASE p[1] = 0
    BY <1>1, <1>2, <2>1, <2>2, FeaturesUntouched DEF DoneIn
  <2>3. CASE p[1] # 0
    <3>1. p[1] \in 1 .. Len(c.services)
      BY <1>3, <2>1, <2>3
    <3>2. p[1] = 1 => ~FeatureDone(c.services[p[1]], c.services[1], p[2], p[3])
      BY <1>3, <2>1, <2>3, <3>1, FeaturesUntouched
    <3>3. ~ServiceDone(c.services, c.services, p[1], p[2], p[3])
      BY <1>3, <3>1, <3>2 DEF ServiceDone
    <3>. QED BY <1>2, <2>3, <3>3 DEF DoneIn
  <2>. QED BY <2>2, <2>3
<1>. QED BY <1>1, <1>2, <1>4, <1>5, FeaturesUntouched DEF Left


-----------------------------------------------------------------------------
(* Every action keeps the invariant.                                       *)

LEMMA Same ==
  ASSUME started' = started, host' = host
  PROVE  Grown
  BY DEF Grown

LEMMA HostKept ==
  ASSUME Types, HostKnown, NoTaskSkipped, Grown, host' = host
  PROVE  HostKnown' /\ NoTaskSkipped'
<1>1. \A i \in DOMAIN host : InOrder(i)
  BY DEF NoTaskSkipped, InOrder
<1>2. \A i \in DOMAIN host : InOrder(i)'
  BY <1>1, InOrderKept
<1>3. NoTaskSkipped'
  BY <1>2 DEF NoTaskSkipped, InOrder
<1>4. HostKnown'
  BY DEF HostKnown, Grown
<1>. QED BY <1>3, <1>4

LEMMA Idles == RunIdle \in [pc : {"idle", "call", "write", "ack"}, i : Nat, next : Event]
<1>1. <<>> \in Features /\ <<>> \in Seq(Features)
  BY DEF Features
<1>2. PICK z : z = [n |-> 0, system |-> <<>>, services |-> <<>>]
  OBVIOUS
<1>3. z \in Left0
  BY <1>1, <1>2 DEF Left0
<1>4. PICK name : name = ""
  OBVIOUS
<1>5. name \in StateNames
  BY <1>4 DEF StateNames
<1>6. PICK s : s = [st |-> name, cfg |-> z]
  OBVIOUS
<1>7. s \in Event
  BY <1>3, <1>5, <1>6 DEF Event
<1>8. RunIdle = [pc |-> "idle", i |-> 0, next |-> s]
  BY <1>2, <1>4, <1>6 DEF RunIdle, NoState
<1>. QED BY <1>7, <1>8

LEMMA StartInv ==
  ASSUME IInv, NEW c \in Config, Start(c)
  PROVE  IInv'
<1>. PICK n, x, e : /\ n = Len(started) + 1
                    /\ x = [n |-> n, system |-> c.system, services |-> c.services]
                    /\ e = [st |-> "next", cfg |-> x]
  OBVIOUS
<1>1. /\ started \in Seq(Config) /\ Len(started) \in Nat /\ DOMAIN started = 1 .. Len(started)
      /\ out \in Seq(Event) /\ Len(out) \in Nat /\ DOMAIN out = 1 .. Len(out)
  BY DEF IInv, Types
<1>2. /\ Len(started) < MaxStarts /\ started' = Append(started, c) /\ connector' = "waiting"
      /\ out' = Append(out, e) /\ UNCHANGED <<log, acked, inbox, run, host, faults>>
  BY DEF Start
<1>3. /\ started' \in Seq(Config) /\ DOMAIN started' = 1 .. n /\ Len(started') = n /\ n \in Nat
      /\ started'[n] = c /\ \A i \in 1 .. Len(started) : started'[i] = started[i]
  BY <1>1, <1>2
<1>4. Grown
  BY <1>1, <1>2, <1>3 DEF Grown
<1>5. c \in ConfigType
  BY ProbeAssumption DEF ConfigType, Features
<1>6. x \in Left0 /\ x.n = n /\ Left(c, x) /\ \A p \in Places(c) : ~DoneIn(c, x, p)
  BY <1>1, <1>5, Received
<1>7. e \in Event /\ e.st = "next" /\ e.cfg = x
  BY <1>6 DEF Event, StateNames
<1>8. Sound(e, started', host')
  BY <1>3, <1>6, <1>7 DEF Sound
<1>9. /\ out' \in Seq(Event) /\ DOMAIN out' = 1 .. Len(out) + 1
      /\ out'[Len(out) + 1] = e /\ \A i \in 1 .. Len(out) : out'[i] = out[i]
  BY <1>1, <1>2, <1>7
<1>10. Types'
  <2>1. Len(started') <= MaxStarts
    BY <1>1, <1>2, <1>3, ProbeAssumption
  <2>. QED BY <1>2, <1>3, <1>9, <2>1 DEF IInv, Types, Unacked
<1>11. EventsSound'
  <2>1. \A i \in DOMAIN out' : Sound(out'[i], started', host')
    BY <1>1, <1>4, <1>8, <1>9, SoundKept DEF IInv, EventsSound
  <2>. QED BY <1>2, <1>4, <2>1, SoundKept DEF IInv, EventsSound
<1>. QED BY <1>2, <1>4, <1>10, <1>11, HostKept DEF IInv

LEMMA TailFacts ==
  ASSUME NEW S, NEW s \in Seq(S), s # <<>>
  PROVE  /\ Tail(s) \in Seq(S) /\ DOMAIN Tail(s) = 1 .. Len(s) - 1 /\ Len(s) \in Nat \ {0}
         /\ \A i \in 1 .. Len(s) - 1 : i + 1 \in DOMAIN s /\ Tail(s)[i] = s[i + 1]
         /\ Head(s) = s[1] /\ Head(s) \in S /\ 1 \in DOMAIN s
  OBVIOUS

LEMMA StoreInv ==
  ASSUME IInv, Store \/ StoreFails
  PROVE  IInv'
<1>. PICK e, m : e = Head(out) /\ m = Len(log) + 1
  OBVIOUS
<1>1. /\ out \in Seq(Event) /\ out # <<>> /\ out' = Tail(out) /\ connector' \in {"idle", connector}
      /\ UNCHANGED <<started, acked, run, host>>
      /\ \/ log' = Append(log, e) /\ inbox' = inbox \cup {m} /\ faults' = faults
         \/ log' = log /\ inbox' = inbox /\ Spend("werr")
  BY DEF IInv, Types, Store, StoreFails, ConnectorAfter
<1>2. /\ log \in Seq(Event) /\ Len(log) \in Nat /\ DOMAIN log = 1 .. Len(log) /\ m \in Nat
      /\ acked \subseteq DOMAIN log /\ inbox \subseteq Unacked
  BY DEF IInv, Types
<1>3. /\ Tail(out) \in Seq(Event) /\ DOMAIN Tail(out) = 1 .. Len(out) - 1
      /\ \A i \in 1 .. Len(out) - 1 : i + 1 \in DOMAIN out /\ Tail(out)[i] = out[i + 1]
      /\ e = out[1] /\ e \in Event /\ 1 \in DOMAIN out
  BY <1>1, TailFacts
<1>4. Grown
  BY <1>1, Same
<1>5. \A i \in DOMAIN out' : Sound(out'[i], started', host')
  BY <1>1, <1>3, <1>4, SoundKept DEF IInv, EventsSound
<1>6. faults' \in [FaultKind -> Nat]
  BY <1>1 DEF IInv, Types, Spend
<1>7. run.pc = "write" => Sound(run'.next, started', host')
  BY <1>1, <1>4, SoundKept DEF IInv, EventsSound
<1>8. CASE log' = Append(log, e) /\ inbox' = inbox \cup {m}
  <2>1. /\ log' \in Seq(Event) /\ DOMAIN log' = 1 .. m /\ log'[m] = e
        /\ \A i \in 1 .. Len(log) : log'[i] = log[i]
    BY <1>2, <1>3, <1>8
  <2>2. \A i \in DOMAIN log' : Sound(log'[i], started', host')
    <3>1. Sound(e, started', host')
      BY <1>3, <1>4, SoundKept DEF IInv, EventsSound
    <3>2. \A i \in 1 .. Len(log) : Sound(log[i], started', host')
      BY <1>2, <1>4, SoundKept DEF IInv, EventsSound
    <3>. QED BY <1>2, <2>1, <3>1, <3>2
  <2>3. /\ Unacked' = Unacked \cup {m} /\ m \notin DOMAIN log
    BY <1>1, <1>2, <2>1 DEF Unacked
  <2>4. run.pc # "idle" => run.i \in Unacked' /\ run.i \notin inbox'
    BY <1>2, <1>8, <2>3 DEF IInv, Types, Unacked
  <2>5. Types'
    <3>1. started' \in Seq(Config) /\ Len(started') <= MaxStarts /\ connector' \in {"idle", "waiting"}
      BY <1>1 DEF IInv, Types
    <3>2. /\ run' \in [pc : {"idle", "call", "write", "ack"}, i : Nat, next : Event]
          /\ host' \in Seq([n : Nat, task : Task])
      BY <1>1 DEF IInv, Types
    <3>3. acked' \subseteq DOMAIN log' /\ inbox' \subseteq Unacked'
      <4>1. acked' = acked /\ DOMAIN log \subseteq DOMAIN log'
        BY <1>1, <1>2, <2>1
      <4>2. inbox' \subseteq Unacked'
        BY <1>2, <1>8, <2>3
      <4>. QED BY <1>2, <4>1, <4>2
    <3>4. run'.pc # "idle" => run'.i \in Unacked' /\ run'.i \notin inbox'
      BY <1>1, <2>4
    <3>5. out' \in Seq(Event)
      BY <1>1, <1>3
    <3>. QED BY <1>6, <2>1, <3>1, <3>2, <3>3, <3>4, <3>5 DEF Types
  <2>. QED BY <1>1, <1>4, <1>5, <1>7, <2>2, <2>5, HostKept DEF IInv, EventsSound
<1>9. CASE log' = log /\ inbox' = inbox
  <2>1. Types'
    BY <1>1, <1>3, <1>6, <1>9 DEF IInv, Types, Unacked
  <2>2. \A i \in DOMAIN log' : Sound(log'[i], started', host')
    BY <1>4, <1>9, SoundKept DEF IInv, EventsSound
  <2>. QED BY <1>1, <1>4, <1>5, <1>7, <2>1, <2>2, HostKept DEF IInv, EventsSound
<1>. QED BY <1>1, <1>8, <1>9

(* Run moves on; nothing is written, executed or acknowledged.             *)
LEMMA RunMoves ==
  ASSUME IInv, UNCHANGED <<started, connector, out, log, acked, host>>,
         inbox' \subseteq inbox, faults' \in [FaultKind -> Nat],
         run' \in [pc : {"idle", "call", "write", "ack"}, i : Nat, next : Event],
         run'.pc # "idle" => run'.i \in Unacked /\ run'.i \notin inbox',
         run'.pc = "write" => Sound(run'.next, started, host)
  PROVE  IInv'
<1>1. Grown
  BY Same
<1>2. Types'
  BY DEF IInv, Types, Unacked
<1>3. EventsSound'
  BY <1>1, SoundKept DEF IInv, EventsSound
<1>. QED BY <1>1, <1>2, <1>3, HostKept DEF IInv

LEMMA RunTakeInv ==
  ASSUME IInv, RunTake
  PROVE  IInv'
<1>m. PICK m : m = Min(inbox)
  OBVIOUS
<1>1. /\ inbox \subseteq Unacked /\ inbox # {} /\ Unacked \subseteq Nat
      /\ faults' \in [FaultKind -> Nat]
  BY DEF IInv, Types, RunTake, Unacked
<1>2. m \in inbox
  <2>1. inbox \subseteq Nat
    BY <1>1
  <2>. QED BY <1>1, <1>m, <2>1, LeastNumber
<1>3. run' = [RunIdle EXCEPT !.pc = "call", !.i = m] /\ inbox' = inbox \ {m}
  BY <1>m DEF RunTake
<1>4. /\ run' \in [pc : {"idle", "call", "write", "ack"}, i : Nat, next : Event]
      /\ run'.pc = "call" /\ run'.i = m
  BY <1>1, <1>2, <1>3, Idles
<1>5. run'.i \in Unacked /\ run'.i \notin inbox'
  BY <1>1, <1>2, <1>3, <1>4
<1>6. UNCHANGED <<started, connector, out, log, acked, host>> /\ inbox' \subseteq inbox
  BY <1>3 DEF RunTake
<1>. QED BY <1>1, <1>4, <1>5, <1>6, RunMoves

(* Run leaves the event it has taken, whatever the reason.                 *)
LEMMA RunLeavesInv ==
  ASSUME IInv, RunNotFound \/ RunTaskFails
  PROVE  IInv'
<1>1. run' = RunIdle /\ UNCHANGED <<started, connector, out, log, acked, inbox, host>>
  BY DEF RunNotFound, RunTaskFails, streamVars
<1>2. faults' \in [FaultKind -> Nat]
  BY DEF RunNotFound, RunTaskFails, IInv, Types, Spend
<1>3. run'.pc = "idle"
  BY <1>1 DEF RunIdle
<1>4. run' \in [pc : {"idle", "call", "write", "ack"}, i : Nat, next : Event]
  BY <1>1, Idles
<1>. QED BY <1>1, <1>2, <1>3, <1>4, RunMoves

(* The event Run has taken.                                                *)
LEMMA Taken ==
  ASSUME IInv, run.pc # "idle"
  PROVE  /\ run.i \in Unacked /\ run.i \notin inbox /\ run.i \in DOMAIN log /\ run.i \in Nat
         /\ log[run.i] \in Event /\ log[run.i].cfg \in Left0 /\ Sound(log[run.i], started, host)
         /\ log[run.i].cfg.n \in DOMAIN started
         /\ started[log[run.i].cfg.n] \in Config /\ started[log[run.i].cfg.n] \in ConfigType
         /\ Left(started[log[run.i].cfg.n], log[run.i].cfg)
<1>1. run.i \in Unacked /\ run.i \notin inbox /\ run.i \in DOMAIN log /\ run.i \in Nat
  BY DEF IInv, Types, Unacked
<1>2. log[run.i] \in Event /\ log[run.i].cfg \in Left0
  <2>1. log \in Seq(Event)
    BY DEF IInv, Types
  <2>2. log[run.i] \in Event
    BY <1>1, <2>1, SeqFacts
  <2>. QED BY <2>2 DEF Event
<1>3. Sound(log[run.i], started, host)
  BY <1>1 DEF IInv, EventsSound
<1>4. log[run.i].cfg.n \in DOMAIN started /\ Left(started[log[run.i].cfg.n], log[run.i].cfg)
  BY <1>3 DEF Sound
<1>5. started \in Seq(Config)
  BY DEF IInv, Types
<1>. QED BY <1>1, <1>2, <1>3, <1>4, <1>5, Configured

LEMMA AfterCallRun ==
  ASSUME IInv, run.pc = "call", NEW s \in Event, AfterCall(s)
  PROVE  /\ run' \in [pc : {"idle", "call", "write", "ack"}, i : Nat, next : Event]
         /\ run'.pc = IF s.st = "" THEN "ack" ELSE "write"
         /\ run'.i = run.i /\ run'.next = s
<1>1. run \in [pc : {"idle", "call", "write", "ack"}, i : Nat, next : Event]
  BY DEF IInv, Types
<1>. QED BY <1>1 DEF AfterCall

LEMMA RunNextDoes ==
  ASSUME IInv, RunNext, NEW x, x = log[run.i].cfg, NEW n, n = x.n, NEW c, c = started[n],
         NEW s, s = NextState(x)
  PROVE  /\ run.pc = "call"
         /\ UNCHANGED <<started, connector, out, log, acked, inbox, host, faults>>
         /\ run.i \in Unacked /\ run.i \notin inbox
         /\ n \in DOMAIN started /\ Sound(log[run.i], started, host)
         /\ run'.pc = "write" => /\ s.cfg.n = n /\ Left(c, s.cfg) /\ Trimmed(s.cfg)
                         /\ s.st = HeadTask(s.cfg).type
                         /\ \A p \in Places(c) : DoneIn(c, s.cfg, p) <=> DoneIn(c, x, p)
         /\ run' \in [pc : {"idle", "call", "write", "ack"}, i : Nat, next : Event]
         /\ run'.pc \in {"ack", "write"}
         /\ run'.i = run.i /\ run'.next = s
<1>1. /\ run.pc = "call" /\ AfterCall(s)
      /\ UNCHANGED <<started, connector, out, log, acked, inbox, host, faults>>
  BY DEF RunNext, streamVars
<1>2. /\ run.i \in Unacked /\ run.i \notin inbox
      /\ x \in Left0 /\ n \in DOMAIN started /\ c \in ConfigType /\ Left(c, x)
      /\ Sound(log[run.i], started, host)
  BY <1>1, Taken
<1>3. /\ s \in Event
      /\ s.st # "" => /\ s.cfg.n = x.n /\ Left(c, s.cfg) /\ Trimmed(s.cfg)
                      /\ s.st = HeadTask(s.cfg).type
                      /\ \A p \in Places(c) : DoneIn(c, s.cfg, p) <=> DoneIn(c, x, p)
  <2>1. c \in ConfigType /\ x \in Left0 /\ Left(c, x) /\ s = NextState(x)
    BY <1>2
  <2>. QED BY ONLY <2>1, NextStateIs
<1>4. /\ run' \in [pc : {"idle", "call", "write", "ack"}, i : Nat, next : Event]
      /\ run'.pc \in {"ack", "write"} /\ (run'.pc = "write" => s.st # "")
      /\ run'.i = run.i /\ run'.next = s
  BY <1>1, <1>3, AfterCallRun
<1>5. run'.pc = "write" => /\ s.cfg.n = n /\ Left(c, s.cfg) /\ Trimmed(s.cfg)
                           /\ s.st = HeadTask(s.cfg).type
                           /\ \A p \in Places(c) : DoneIn(c, s.cfg, p) <=> DoneIn(c, x, p)
  BY <1>3, <1>4
<1>. QED BY <1>1, <1>2, <1>4, <1>5

LEMMA RunNextInv ==
  ASSUME IInv, RunNext
  PROVE  IInv'
<1>e. PICK x, n, c, s : /\ x = log[run.i].cfg /\ n = x.n /\ c = started[n] /\ s = NextState(x)
  OBVIOUS
<1>1. /\ UNCHANGED <<started, connector, out, log, acked, inbox, host, faults>>
      /\ run.i \in Unacked /\ run.i \notin inbox
      /\ run' \in [pc : {"idle", "call", "write", "ack"}, i : Nat, next : Event]
      /\ run'.pc \in {"ack", "write"}
      /\ run'.i = run.i /\ run'.next = s
  BY <1>e, RunNextDoes
<1>2. /\ n \in DOMAIN started /\ Sound(log[run.i], started, host)
      /\ run'.pc = "write" => /\ s.cfg.n = n /\ Left(c, s.cfg) /\ Trimmed(s.cfg)
                      /\ s.st = HeadTask(s.cfg).type
                      /\ \A p \in Places(c) : DoneIn(c, s.cfg, p) <=> DoneIn(c, x, p)
  BY <1>e, RunNextDoes
<1>3. run'.pc = "write" => Sound(s, started, host)
  <2>1. \A p \in Places(c) : DoneIn(c, x, p) => Wrote(host, n, TaskAt(c, p))
    BY <1>2, <1>e DEF Sound
  <2>. QED BY <1>2, <1>e, <2>1 DEF Sound
<1>4. run'.i \in Unacked /\ run'.i \notin inbox' /\ inbox' \subseteq inbox
  BY <1>1
<1>5. run'.pc = "write" => Sound(run'.next, started, host)
  BY <1>1, <1>3
<1>6. faults' \in [FaultKind -> Nat]
  BY <1>1 DEF IInv, Types
<1>. QED BY <1>1, <1>4, <1>5, <1>6, RunMoves

LEMMA AppendFacts ==
  ASSUME NEW S, NEW s \in Seq(S), NEW x \in S, NEW t, t = Append(s, x)
  PROVE  /\ t \in Seq(S) /\ Len(s) \in Nat /\ Len(t) = Len(s) + 1
         /\ DOMAIN s = 1 .. Len(s) /\ DOMAIN t = 1 .. Len(s) + 1
         /\ t[Len(s) + 1] = x /\ \A i \in 1 .. Len(s) : t[i] = s[i]
  BY SMTT(30)

(* All is done up to a place, and the state that follows has it done too.  *)
DoneUpTo(c, x, f, h) ==
  \A p \in Places(c) : /\ DoneIn(c, x, p) <=> Before(p, f)
                       /\ Before(p, f) => Wrote(h, x.n, TaskAt(c, p))

Follows(c, s, n, f) ==
  /\ s.cfg.n = n /\ Left(c, s.cfg) /\ Trimmed(s.cfg) /\ s.st = HeadTask(s.cfg).type
  /\ \A p \in Places(c) : DoneIn(c, s.cfg, p) <=> Before(p, f) \/ p = f

(* The task at the first place that is left is executed.                   *)
LEMMA RunTaskDoes ==
  ASSUME IInv, RunTask, NEW e, e = log[run.i], NEW x, x = e.cfg, NEW n, n = x.n,
         NEW c, c = started[n], NEW y, y = PopTask(x), NEW f, f = FirstPlace(c, x),
         NEW s, s = NextState(y), NEW r, r = [n |-> n, task |-> TaskAt(c, f)]
  PROVE  /\ run.pc = "call" /\ host' = Append(host, r)
         /\ UNCHANGED <<started, connector, out, log, acked, inbox, faults>>
         /\ run.i \in Unacked /\ run.i \notin inbox /\ n \in DOMAIN started /\ n \in Nat
         /\ c \in Config /\ f \in Places(c) /\ TaskAt(c, f) \in Task
         /\ DoneUpTo(c, x, f, host) /\ (run'.pc = "write" => Follows(c, s, n, f))
         /\ run' \in [pc : {"idle", "call", "write", "ack"}, i : Nat, next : Event]
         /\ run'.pc \in {"ack", "write"}
         /\ run'.i = run.i /\ run'.next = s
<1>1. /\ run.pc = "call" /\ IsTask(e) /\ AfterCall(s)
      /\ host' = Append(host, [n |-> n, task |-> HeadTask(x)])
      /\ UNCHANGED <<started, connector, out, log, acked, inbox, faults>>
  BY DEF RunTask, streamVars
<1>2. /\ run.i \in Unacked /\ run.i \notin inbox
      /\ x \in Left0 /\ n \in DOMAIN started /\ c \in Config /\ c \in ConfigType /\ Left(c, x)
      /\ Sound(e, started, host)
  BY <1>1, Taken
<1>n. n \in Nat
  BY <1>2 DEF Left0
<1>3. Trimmed(x) /\ \A p \in Places(c) : DoneIn(c, x, p) => Wrote(host, n, TaskAt(c, p))
  BY <1>1, <1>2 DEF Sound, IsTask
<1>4. /\ y \in Left0 /\ y.n = n /\ Left(c, y)
      /\ f \in Places(c) /\ TaskAt(c, f) = HeadTask(x) /\ HeadTask(x) \in Task
      /\ \A p \in Places(c) : DoneIn(c, x, p) <=> Before(p, f)
      /\ \A p \in Places(c) : DoneIn(c, y, p) <=> Before(p, f) \/ p = f
  BY SMTT(30), <1>2, <1>3, PopLeft
<1>5. /\ s \in Event
      /\ s.st # "" => /\ s.cfg.n = y.n /\ Left(c, s.cfg) /\ Trimmed(s.cfg)
                      /\ s.st = HeadTask(s.cfg).type
                      /\ \A p \in Places(c) : DoneIn(c, s.cfg, p) <=> DoneIn(c, y, p)
  <2>1. c \in ConfigType /\ y \in Left0 /\ Left(c, y) /\ s = NextState(y)
    BY <1>2, <1>4
  <2>. QED BY ONLY <2>1, NextStateIs
<1>6. /\ run' \in [pc : {"idle", "call", "write", "ack"}, i : Nat, next : Event]
      /\ run'.pc \in {"ack", "write"} /\ (run'.pc = "write" => s.st # "")
      /\ run'.i = run.i /\ run'.next = s
  BY <1>1, <1>5, AfterCallRun
<1>7. run'.pc = "write" => Follows(c, s, n, f)
  BY <1>4, <1>5, <1>6 DEF Follows
<1>8. host' = Append(host, r)
  BY <1>1, <1>4
<1>9. DoneUpTo(c, x, f, host)
  BY <1>3, <1>4 DEF DoneUpTo
<1>. QED BY <1>1, <1>2, <1>n, <1>4, <1>6, <1>7, <1>8, <1>9

LEMMA RunTaskInv ==
  ASSUME IInv, RunTask
  PROVE  IInv'
<1>e. PICK e, x, n, c : e = log[run.i] /\ x = e.cfg /\ n = x.n /\ c = started[n]
  OBVIOUS
<1>y. PICK y, f, s, r : /\ y = PopTask(x) /\ f = FirstPlace(c, x) /\ s = NextState(y)
                        /\ r = [n |-> n, task |-> TaskAt(c, f)]
  OBVIOUS
<1>1. /\ host' = Append(host, r)
      /\ UNCHANGED <<started, connector, out, log, acked, inbox, faults>>
      /\ run.i \in Unacked /\ run.i \notin inbox /\ n \in DOMAIN started /\ n \in Nat
      /\ f \in Places(c) /\ TaskAt(c, f) \in Task
      /\ run' \in [pc : {"idle", "call", "write", "ack"}, i : Nat, next : Event]
      /\ run'.pc \in {"ack", "write"}
      /\ run'.i = run.i /\ run'.next = s
  BY <1>e, <1>y, RunTaskDoes
<1>p. DoneUpTo(c, x, f, host) /\ (run'.pc = "write" => Follows(c, s, n, f))
  BY <1>e, <1>y, RunTaskDoes
<1>2. /\ host' \in Seq([n : Nat, task : Task]) /\ Len(host) \in Nat
      /\ DOMAIN host = 1 .. Len(host) /\ DOMAIN host' = 1 .. Len(host) + 1
      /\ host'[Len(host) + 1] = r /\ \A i \in 1 .. Len(host) : host'[i] = host[i]
  <2>1. host \in Seq([n : Nat, task : Task])
    BY DEF IInv, Types
  <2>2. r \in [n : Nat, task : Task]
    BY <1>1, <1>y
  <2>. QED BY <1>1, <2>1, <2>2, AppendFacts
<1>3. Grown
  BY <1>1, <1>2 DEF Grown
<1>4. \A p \in Places(c) : Before(p, f) =>
        \E l \in 1 .. Len(host) : host'[l] = [n |-> n, task |-> TaskAt(c, p)]
  BY <1>p, <1>2, <1>e DEF DoneUpTo, Wrote
<1>5. \A p \in Places(c) : Before(p, f) \/ p = f => Wrote(host', n, TaskAt(c, p))
  <2>1. Wrote(host', n, TaskAt(c, f))
    BY <1>2, <1>y DEF Wrote
  <2>2. ASSUME NEW p \in Places(c), Before(p, f) PROVE Wrote(host', n, TaskAt(c, p))
    BY <1>2, <1>4, <2>2 DEF Wrote
  <2>. QED BY <2>1, <2>2
<1>6. run'.pc = "write" => Sound(s, started', host')
  <2>1. started' = started
    BY <1>1
  <2>. QED BY <1>1, <1>p, <1>5, <1>e, <2>1 DEF Sound, Follows
<1>7. EventsSound'
  <2>1. /\ \A i \in DOMAIN out : Sound(out[i], started', host')
        /\ \A i \in DOMAIN log : Sound(log[i], started', host')
    BY <1>3, SoundKept DEF IInv, EventsSound
  <2>2. run'.pc = "write" => Sound(run'.next, started', host')
    BY <1>1, <1>6
  <2>. QED BY <1>1, <2>1, <2>2 DEF EventsSound
<1>8. Types'
  <2>1. run'.i \in Unacked' /\ run'.i \notin inbox'
    BY <1>1 DEF Unacked
  <2>. QED BY <1>1, <1>2, <2>1 DEF IInv, Types, Unacked
<1>9. HostKnown'
  <2>1. r.n \in DOMAIN started
    BY <1>1, <1>y
  <2>2. \A i \in DOMAIN host : host[i].n \in DOMAIN started
    BY DEF IInv, HostKnown
  <2>. QED BY <1>1, <1>2, <2>1, <2>2 DEF HostKnown
<1>10. ASSUME NEW i \in DOMAIN host' PROVE InOrder(i)'
  <2>1. CASE i \in DOMAIN host
    BY <1>3, <2>1, InOrderKept DEF IInv, NoTaskSkipped, InOrder
  <2>2. CASE i = Len(host) + 1
    <3>1. r.n = n /\ r.task = TaskAt(c, f)
      BY <1>y
    <3>2. host'[i] = r
      BY <1>2, <2>2
    <3>3. 1 .. i - 1 = 1 .. Len(host)
      BY <1>2, <2>2
    <3>4. started'[n] = c
      BY <1>1, <1>e
    <3>. QED BY SMTT(30), <1>1, <1>4, <3>1, <3>2, <3>3, <3>4 DEF InOrder
  <2>. QED BY <1>2, <2>1, <2>2
<1>11. NoTaskSkipped'
  BY <1>10 DEF NoTaskSkipped, InOrder
<1>. QED BY <1>7, <1>8, <1>9, <1>11 DEF IInv

LEMMA RunWriteInv ==
  ASSUME IInv, RunWrite
  PROVE  IInv'
<1>1. /\ run.pc = "write" /\ out' = Append(out, run.next) /\ run' = [run EXCEPT !.pc = "ack"]
      /\ UNCHANGED <<started, connector, log, acked, inbox, host, faults>>
  BY DEF RunWrite
<1>2. Grown
  BY <1>1, Same
<1>3. /\ run \in [pc : {"idle", "call", "write", "ack"}, i : Nat, next : Event]
      /\ out \in Seq(Event) /\ run.i \in Unacked /\ run.i \notin inbox
  BY <1>1 DEF IInv, Types
<1>4. /\ run' \in [pc : {"idle", "call", "write", "ack"}, i : Nat, next : Event]
      /\ run'.pc = "ack" /\ run'.i = run.i
  BY <1>1, <1>3
<1>5. /\ out' \in Seq(Event) /\ Len(out) \in Nat
      /\ DOMAIN out = 1 .. Len(out) /\ DOMAIN out' = 1 .. Len(out) + 1
      /\ out'[Len(out) + 1] = run.next /\ \A i \in 1 .. Len(out) : out'[i] = out[i]
  <2>1. run.next \in Event
    BY <1>3
  <2>. QED BY <1>1, <1>3, <2>1, AppendFacts
<1>6. EventsSound'
  <2>1. Sound(run.next, started, host)
    BY <1>1 DEF IInv, EventsSound
  <2>2. \A i \in DOMAIN out' : Sound(out'[i], started', host')
    BY <1>2, <1>5, <2>1, SoundKept DEF IInv, EventsSound
  <2>. QED BY <1>1, <1>2, <1>4, <2>2, SoundKept DEF IInv, EventsSound
<1>7. Types'
  BY <1>1, <1>3, <1>4, <1>5 DEF IInv, Types, Unacked
<1>. QED BY <1>1, <1>2, <1>6, <1>7, HostKept DEF IInv

LEMMA RunAckInv ==
  ASSUME IInv, RunAck
  PROVE  IInv'
<1>1. /\ run.pc = "ack" /\ acked' = acked \cup {run.i} /\ run' = RunIdle
      /\ UNCHANGED <<started, connector, out, log, inbox, host, faults>>
  BY DEF RunAck
<1>2. Grown
  BY <1>1, Same
<1>3. /\ run.i \in Unacked /\ run.i \notin inbox /\ inbox \subseteq Unacked
      /\ acked \subseteq DOMAIN log
  BY <1>1 DEF IInv, Types
<1>4. /\ run' \in [pc : {"idle", "call", "write", "ack"}, i : Nat, next : Event]
      /\ run'.pc = "idle"
  <2>1. run'.pc = "idle"
    BY <1>1 DEF RunIdle
  <2>. QED BY <1>1, <2>1, Idles
<1>5. acked' \subseteq DOMAIN log' /\ inbox' \subseteq Unacked'
  BY <1>1, <1>3 DEF Unacked
<1>6. Types'
  BY <1>1, <1>4, <1>5 DEF IInv, Types
<1>7. EventsSound'
  BY <1>1, <1>2, <1>4, SoundKept DEF IInv, EventsSound
<1>. QED BY <1>1, <1>2, <1>6, <1>7, HostKept DEF IInv

LEMMA CrashInv ==
  ASSUME IInv, Crash
  PROVE  IInv'
<1>1. /\ out' = <<>> /\ inbox' = Unacked /\ run' = RunIdle /\ connector' = "idle"
      /\ UNCHANGED <<started, log, acked, host>>
  BY DEF Crash
<1>2. Grown
  BY <1>1, Same
<1>3. /\ run' \in [pc : {"idle", "call", "write", "ack"}, i : Nat, next : Event]
      /\ run'.pc = "idle"
  <2>1. run'.pc = "idle"
    BY <1>1 DEF RunIdle
  <2>. QED BY <1>1, <2>1, Idles
<1>4. faults' \in [FaultKind -> Nat]
  <2>1. faults \in [FaultKind -> Nat] /\ faults["crash"] > 0 /\ "crash" \in FaultKind /\ "lose" \in FaultKind
    BY DEF Crash, IInv, Types, FaultKind
  <2>2. PICK a, b : /\ a = faults["crash"] - 1
                    /\ b = IF out = <<>> THEN faults["lose"] ELSE faults["lose"] - 1
    OBVIOUS
  <2>3. a \in Nat /\ b \in Nat
    <3>1. /\ faults["crash"] \in Nat /\ faults["lose"] \in Nat
          /\ faults["crash"] > 0 /\ (out # <<>> => faults["lose"] > 0)
      BY <2>1 DEF Crash
    <3>. QED BY <2>2, <3>1
  <2>4. faults' = [faults EXCEPT !["crash"] = a, !["lose"] = b]
    BY <2>2 DEF Crash
  <2>. QED BY <2>1, <2>3, <2>4
<1>5. out' \in Seq(Event) /\ DOMAIN out' = {}
  BY <1>1
<1>6. Types'
  <2>1. inbox' \subseteq Unacked'
    BY <1>1 DEF Unacked
  <2>. QED BY <1>1, <1>3, <1>4, <1>5, <2>1 DEF IInv, Types
<1>7. EventsSound'
  BY <1>1, <1>2, <1>3, <1>5, SoundKept DEF IInv, EventsSound
<1>. QED BY <1>1, <1>2, <1>6, <1>7, HostKept DEF IInv

LEMMA InitInv ==
  ASSUME Init
  PROVE  IInv
<1>1. run.pc = "idle"
  BY DEF Init, RunIdle
<1>2. /\ started \in Seq(Config) /\ Len(started) = 0 /\ host \in Seq([n : Nat, task : Task])
      /\ out \in Seq(Event) /\ log \in Seq(Event)
      /\ DOMAIN out = {} /\ DOMAIN log = {} /\ DOMAIN host = {}
  BY DEF Init
<1>3. Types
  BY <1>1, <1>2, Idles, ProbeAssumption DEF Init, Types, Unacked
<1>4. EventsSound /\ HostKnown /\ NoTaskSkipped
  BY <1>1, <1>2 DEF EventsSound, HostKnown, NoTaskSkipped
<1>. QED BY <1>3, <1>4 DEF IInv

LEMMA NextInv ==
  ASSUME IInv, [Next]_vars
  PROVE  IInv'
<1>1. CASE \E c \in Config : Start(c)
  BY <1>1, StartInv
<1>2. CASE Store \/ StoreFails
  BY <1>2, StoreInv
<1>3. CASE RunTake
  BY <1>3, RunTakeInv
<1>4. CASE RunNotFound \/ RunTaskFails
  BY <1>4, RunLeavesInv
<1>5. CASE RunNext
  BY <1>5, RunNextInv
<1>6. CASE RunTask
  BY <1>6, RunTaskInv
<1>7. CASE RunWrite
  BY <1>7, RunWriteInv
<1>8. CASE RunAck
  BY <1>8, RunAckInv
<1>9. CASE Crash
  BY <1>9, CrashInv
<1>10. CASE UNCHANGED vars
  <2>1. /\ UNCHANGED <<started, connector, out, log, acked, inbox, run, host, faults>>
    BY <1>10 DEF vars, streamVars
  <2>2. Grown
    BY <2>1, Same
  <2>3. Types'
    BY <2>1 DEF IInv, Types, Unacked
  <2>4. EventsSound'
    BY <2>1 DEF IInv, EventsSound
  <2>. QED BY <2>1, <2>2, <2>3, <2>4, HostKept DEF IInv
<1>. QED
  BY <1>1, <1>2, <1>3, <1>4, <1>5, <1>6, <1>7, <1>8, <1>9, <1>10 DEF Next, RunStep

(* In every state the events on their way and in the stream tell what is   *)
(* left of a configuration that was received, and no more is missing on    *)
(* the host than they tell.                                                *)
THEOREM Invariance == Spec => []IInv
BY InitInv, NextInv, PTL DEF Spec

(* The events the stream holds belong to configurations that were          *)
(* received; what is acknowledged was stored, what is due is neither       *)
(* acknowledged nor in Run's hands (sm.go:86-145).                         *)
THEOREM TypeCorrect == Spec => []TypeOK
<1>1. IInv => TypeOK
  <2>1. ASSUME IInv, NEW i \in DOMAIN log PROVE log[i].cfg.n \in DOMAIN started
    BY <2>1 DEF IInv, EventsSound, Sound
  <2>. QED BY <2>1 DEF IInv, Types, TypeOK
<1>. QED BY <1>1, Invariance, PTL

(* For any configurations, any number of faults and any interleaving of    *)
(* the stream with Run: no task is executed before all tasks before it     *)
(* (next.go:18-61, sm.go:86-145).                                          *)
THEOREM NoneSkipped == Spec => []NoTaskSkipped
<1>1. IInv => NoTaskSkipped
  BY DEF IInv
<1>. QED BY <1>1, Invariance, PTL


-----------------------------------------------------------------------------
(* Counting: a task has been executed so and so often, and so many events  *)
(* still ask for it.  Between the call of its function and its             *)
(* acknowledgement an event no longer asks; the state that follows does.   *)

AsksFor(e, c, n, p) == e.cfg.n = n /\ ~DoneIn(c, e.cfg, p)
One(e, c, n, p) == IF AsksFor(e, c, n, p) THEN 1 ELSE 0
Asking(s, I, c, n, p) == {i \in I : AsksFor(s[i], c, n, p)}
HowMany(s, I, c, n, p) == Cardinality(Asking(s, I, c, n, p))

Answered(r) == IF r.pc \in {"write", "ack"} THEN {r.i} ELSE {}
Ahead(l, a, r) == (DOMAIN l \ a) \ Answered(r)
InHand(r, c, n, p) == IF r.pc = "write" THEN One(r.next, c, n, p) ELSE 0

Record(c, n, p) == [n |-> n, task |-> TaskAt(c, p)]
Times(h, w) == Cardinality({i \in DOMAIN h : h[i] = w})

Load(h, l, a, o, r, c, n, p) ==
  Times(h, Record(c, n, p)) + HowMany(l, Ahead(l, a, r), c, n, p)
    + HowMany(o, DOMAIN o, c, n, p) + InHand(r, c, n, p)

Few ==
  \A n \in DOMAIN started : \A p \in Places(started[n]) :
    Load(host, log, acked, out, run, started[n], n, p) <= 1 + MaxFaults["crash"] - faults["crash"]

LEMMA AskingType ==
  ASSUME NEW s, NEW I, IsFiniteSet(I), NEW c, NEW n, NEW p
  PROVE  /\ IsFiniteSet(Asking(s, I, c, n, p)) /\ HowMany(s, I, c, n, p) \in Nat
         /\ \A e : One(e, c, n, p) \in {0, 1}
<1>1. Asking(s, I, c, n, p) \subseteq I
  BY DEF Asking
<1>2. IsFiniteSet(Asking(s, I, c, n, p))
  BY <1>1, FS_Subset
<1>. QED BY <1>2, FS_CardinalityType DEF HowMany, One

LEMMA AskingPart ==
  ASSUME NEW s, NEW t, NEW I, NEW J, I \subseteq J, IsFiniteSet(J), \A i \in I : s[i] = t[i],
         NEW c, NEW n, NEW p
  PROVE  HowMany(s, I, c, n, p) <= HowMany(t, J, c, n, p)
<1>1. Asking(s, I, c, n, p) \subseteq Asking(t, J, c, n, p)
  BY DEF Asking
<1>2. IsFiniteSet(Asking(t, J, c, n, p))
  BY AskingType
<1>. QED BY <1>1, <1>2, FS_Subset DEF HowMany

LEMMA AskingMore ==
  ASSUME NEW s, NEW t, NEW I, NEW m, m \notin I, IsFiniteSet(I), \A i \in I : s[i] = t[i],
         NEW c, NEW n, NEW p
  PROVE  HowMany(t, I \cup {m}, c, n, p) = HowMany(s, I, c, n, p) + One(t[m], c, n, p)
<1>1. IsFiniteSet(Asking(s, I, c, n, p)) /\ m \notin Asking(s, I, c, n, p)
      /\ Cardinality(Asking(s, I, c, n, p)) \in Nat
  BY AskingType DEF Asking, HowMany
<1>2. CASE AsksFor(t[m], c, n, p)
  <2>1. Asking(t, I \cup {m}, c, n, p) = Asking(s, I, c, n, p) \cup {m}
    BY <1>2 DEF Asking
  <2>2. Cardinality(Asking(s, I, c, n, p) \cup {m}) = Cardinality(Asking(s, I, c, n, p)) + 1
    BY <1>1, FS_AddElement
  <2>. QED BY <1>2, <2>1, <2>2 DEF HowMany, One
<1>3. CASE ~AsksFor(t[m], c, n, p)
  <2>1. Asking(t, I \cup {m}, c, n, p) = Asking(s, I, c, n, p)
    BY <1>3 DEF Asking
  <2>. QED BY <1>1, <1>3, <2>1 DEF HowMany, One
<1>. QED BY <1>2, <1>3

LEMMA AskingLess ==
  ASSUME NEW s, NEW I, NEW i \in I, IsFiniteSet(I), NEW c, NEW n, NEW p
  PROVE  HowMany(s, I \ {i}, c, n, p) + One(s[i], c, n, p) = HowMany(s, I, c, n, p)
<1>1. PICK J : J = I \ {i}
  OBVIOUS
<1>2. i \notin J /\ J \cup {i} = I /\ IsFiniteSet(J)
  BY <1>1, FS_RemoveElement
<1>3. HowMany(s, J \cup {i}, c, n, p) = HowMany(s, J, c, n, p) + One(s[i], c, n, p)
  BY <1>2, AskingMore
<1>. QED BY <1>1, <1>2, <1>3

LEMMA AskingTail ==
  ASSUME NEW S, NEW s \in Seq(S), s # <<>>, NEW t, t = Tail(s), NEW c, NEW n, NEW p
  PROVE  HowMany(t, DOMAIN t, c, n, p) + One(s[1], c, n, p) <= HowMany(s, DOMAIN s, c, n, p)
<1>1. /\ DOMAIN s = 1 .. Len(s) /\ Len(s) \in Nat \ {0} /\ DOMAIN t = 1 .. Len(s) - 1
      /\ \A i \in 1 .. Len(s) - 1 : i + 1 \in DOMAIN s /\ t[i] = s[i + 1]
      /\ 1 \in DOMAIN s
  BY TailFacts
<1>2. IsFiniteSet(DOMAIN s)
  BY <1>1, FS_Interval
<1>3. PICK A, B : A = Asking(t, DOMAIN t, c, n, p) /\ B = Asking(s, DOMAIN s \ {1}, c, n, p)
  OBVIOUS
<1>4. IsFiniteSet(B)
  BY <1>2, <1>3, FS_RemoveElement, AskingType
<1>5. \A i \in A : i \in Nat /\ i + 1 \in B
  BY <1>1, <1>3 DEF Asking
<1>6. PICK f : f = [i \in A |-> i + 1]
  OBVIOUS
<1>7. f \in Injection(A, B)
  <2>1. f \in [A -> B]
    BY <1>5, <1>6
  <2>2. \A i, j \in A : f[i] = f[j] => i = j
    BY <1>5, <1>6
  <2>. QED BY <2>1, <2>2 DEF Injection, IsInjective
<1>8. Cardinality(A) <= Cardinality(B)
  BY <1>4, <1>7, FS_Injection
<1>9. HowMany(s, DOMAIN s \ {1}, c, n, p) + One(s[1], c, n, p) = HowMany(s, DOMAIN s, c, n, p)
  BY <1>1, <1>2, AskingLess
<1>10. HowMany(t, DOMAIN t, c, n, p) <= HowMany(s, DOMAIN s \ {1}, c, n, p)
  BY <1>3, <1>8 DEF HowMany
<1>11. /\ HowMany(t, DOMAIN t, c, n, p) \in Nat /\ HowMany(s, DOMAIN s \ {1}, c, n, p) \in Nat
       /\ One(s[1], c, n, p) \in {0, 1}
  <2>1. IsFiniteSet(DOMAIN t)
    <3>1. Len(s) - 1 \in Int /\ DOMAIN t = 1 .. Len(s) - 1
      BY <1>1
    <3>. QED BY <3>1, FS_Interval
  <2>2. IsFiniteSet(DOMAIN s \ {1})
    BY <1>2, FS_RemoveElement
  <2>. QED BY <2>1, <2>2, AskingType
<1>. QED BY <1>9, <1>10, <1>11

LEMMA TimesMore ==
  ASSUME NEW h, IsFiniteSet(DOMAIN h), NEW g, NEW m, m \notin DOMAIN h,
         DOMAIN g = DOMAIN h \cup {m}, \A i \in DOMAIN h : g[i] = h[i], NEW w
  PROVE  /\ Times(h, w) \in Nat
         /\ g[m] = w => Times(g, w) = Times(h, w) + 1
         /\ g[m] # w => Times(g, w) = Times(h, w)
<1>1. PICK A, B : A = {i \in DOMAIN h : h[i] = w} /\ B = {i \in DOMAIN g : g[i] = w}
  OBVIOUS
<1>2. IsFiniteSet(A) /\ Cardinality(A) \in Nat /\ m \notin A
  <2>1. A \subseteq DOMAIN h
    BY <1>1
  <2>. QED BY <2>1, FS_Subset, FS_CardinalityType
<1>3. Times(h, w) = Cardinality(A) /\ Times(g, w) = Cardinality(B)
  BY <1>1 DEF Times
<1>4. CASE g[m] = w
  <2>1. B = A \cup {m}
    BY <1>1, <1>4
  <2>2. Cardinality(B) = Cardinality(A) + 1
    BY <1>2, <2>1, FS_AddElement
  <2>. QED BY <1>2, <1>3, <1>4, <2>2
<1>5. CASE g[m] # w
  <2>1. B = A
    BY <1>1, <1>5
  <2>. QED BY <1>2, <1>3, <1>5, <2>1
<1>. QED BY <1>4, <1>5

HostType == Seq([n : Nat, task : Task])
RunType == [pc : {"idle", "call", "write", "ack"}, i : Nat, next : Event]

LEMMA Counted ==
  ASSUME NEW h \in HostType, NEW l \in Seq(Event), NEW a, NEW o \in Seq(Event), NEW r,
         NEW c, NEW n, NEW p
  PROVE  /\ IsFiniteSet(DOMAIN l) /\ IsFiniteSet(DOMAIN l \ a)
         /\ IsFiniteSet(Ahead(l, a, r)) /\ IsFiniteSet(DOMAIN o)
         /\ Times(h, Record(c, n, p)) \in Nat
         /\ HowMany(l, Ahead(l, a, r), c, n, p) \in Nat
         /\ HowMany(o, DOMAIN o, c, n, p) \in Nat
         /\ InHand(r, c, n, p) \in {0, 1}
         /\ Load(h, l, a, o, r, c, n, p) \in Nat
<1>1. /\ DOMAIN l = 1 .. Len(l) /\ Len(l) \in Nat /\ DOMAIN o = 1 .. Len(o) /\ Len(o) \in Nat
      /\ DOMAIN h = 1 .. Len(h) /\ Len(h) \in Nat
  BY DEF HostType
<1>2. IsFiniteSet(DOMAIN l) /\ IsFiniteSet(DOMAIN o) /\ IsFiniteSet(DOMAIN h)
  BY <1>1, FS_Interval
<1>3. IsFiniteSet(DOMAIN l \ a) /\ IsFiniteSet(Ahead(l, a, r))
  <2>1. DOMAIN l \ a \subseteq DOMAIN l /\ Ahead(l, a, r) \subseteq DOMAIN l
    BY DEF Ahead
  <2>. QED BY <1>2, <2>1, FS_Subset
<1>4. Times(h, Record(c, n, p)) \in Nat
  <2>1. {i \in DOMAIN h : h[i] = Record(c, n, p)} \subseteq DOMAIN h
    OBVIOUS
  <2>2. IsFiniteSet({i \in DOMAIN h : h[i] = Record(c, n, p)})
    BY <1>2, <2>1, FS_Subset
  <2>. QED BY <2>2, FS_CardinalityType DEF Times
<1>5. /\ HowMany(l, Ahead(l, a, r), c, n, p) \in Nat /\ HowMany(o, DOMAIN o, c, n, p) \in Nat
      /\ One(r.next, c, n, p) \in {0, 1}
  BY <1>2, <1>3, AskingType
<1>6. InHand(r, c, n, p) \in {0, 1}
  BY <1>5 DEF InHand
<1>7. Load(h, l, a, o, r, c, n, p) \in Nat
  BY <1>4, <1>5, <1>6 DEF Load
<1>. QED BY <1>2, <1>3, <1>4, <1>5, <1>6, <1>7

LEMMA FewKept ==
  ASSUME IInv, IInv', Few, started' = started, faults'["crash"] = faults["crash"],
         \A n \in DOMAIN started : \A p \in Places(started[n]) :
           Load(host', log', acked', out', run', started[n], n, p)
             <= Load(host, log, acked, out, run, started[n], n, p)
  PROVE  Few'
<1>1. SUFFICES ASSUME NEW n \in DOMAIN started, NEW p \in Places(started[n])
               PROVE  Load(host', log', acked', out', run', started[n], n, p)
                        <= 1 + MaxFaults["crash"] - faults["crash"]
  BY DEF Few
<1>2. PICK a, b, d, e : /\ a = Load(host', log', acked', out', run', started[n], n, p)
                        /\ b = Load(host, log, acked, out, run, started[n], n, p)
                        /\ d = MaxFaults["crash"] /\ e = faults["crash"]
  OBVIOUS
<1>3. a \in Nat /\ b \in Nat
  <2>1. /\ host \in HostType /\ log \in Seq(Event) /\ out \in Seq(Event)
        /\ host' \in HostType /\ log' \in Seq(Event) /\ out' \in Seq(Event)
    BY DEF IInv, Types, HostType
  <2>. QED BY <1>2, <2>1, Counted
<1>4. d \in Nat /\ e \in Nat
  BY <1>2, ProbeAssumption DEF IInv, Types, FaultKind
<1>5. a <= b /\ b <= 1 + d - e
  BY <1>1, <1>2 DEF Few
<1>6. a <= 1 + d - e
  BY <1>3, <1>4, <1>5
<1>. QED BY <1>2, <1>6

LEMMA StoreFew ==
  ASSUME IInv, IInv', Few, Store \/ StoreFails
  PROVE  Few'
<1>e. PICK e, m : e = Head(out) /\ m = Len(log) + 1
  OBVIOUS
<1>1. /\ out \in Seq(Event) /\ out # <<>> /\ out' = Tail(out)
      /\ UNCHANGED <<started, acked, run, host>>
      /\ \/ log' = Append(log, e) /\ faults' = faults
         \/ log' = log /\ Spend("werr")
  BY <1>e DEF IInv, Types, Store, StoreFails
<1>2. /\ log \in Seq(Event) /\ log' \in Seq(Event) /\ out' \in Seq(Event) /\ host \in HostType
      /\ acked \subseteq DOMAIN log /\ faults \in [FaultKind -> Nat]
      /\ run.pc # "idle" => run.i \in DOMAIN log
  BY DEF IInv, Types, HostType, Unacked
<1>3. e = out[1] /\ e \in Event
  BY <1>1, <1>e, TailFacts
<1>4. faults'["crash"] = faults["crash"]
  BY <1>1, <1>2 DEF Spend, FaultKind
<1>5. ASSUME NEW n \in DOMAIN started, NEW p \in Places(started[n])
      PROVE  Load(host', log', acked', out', run', started[n], n, p)
               <= Load(host, log, acked, out, run, started[n], n, p)
  <2>c. PICK c : c = started[n]
    OBVIOUS
  <2>1. PICK H, L, O, R, L2, O2, E :
          /\ H = Times(host, Record(c, n, p)) /\ R = InHand(run, c, n, p)
          /\ L = HowMany(log, Ahead(log, acked, run), c, n, p)
          /\ L2 = HowMany(log', Ahead(log', acked, run), c, n, p)
          /\ O = HowMany(out, DOMAIN out, c, n, p)
          /\ O2 = HowMany(out', DOMAIN out', c, n, p)
          /\ E = One(e, c, n, p)
    OBVIOUS
  <2>2. /\ H \in Nat /\ L \in Nat /\ O \in Nat /\ R \in {0, 1}
        /\ L2 \in Nat /\ O2 \in Nat /\ IsFiniteSet(Ahead(log, acked, run))
    BY <1>1, <1>2, <2>1, Counted
  <2>3. E \in {0, 1}
    BY <2>1 DEF One
  <2>4. O2 + E <= O
    <3>1. HowMany(out', DOMAIN out', c, n, p) + One(out[1], c, n, p) <= HowMany(out, DOMAIN out, c, n, p)
      BY <1>1, AskingTail
    <3>. QED BY <1>3, <2>1, <3>1
  <2>5. L2 <= L + E
    <3>1. CASE log' = Append(log, e)
      <4>1. /\ Len(log) \in Nat /\ DOMAIN log = 1 .. Len(log) /\ DOMAIN log' = 1 .. Len(log) + 1
            /\ log'[m] = e /\ \A i \in 1 .. Len(log) : log'[i] = log[i]
        BY <1>2, <1>3, <1>e, <3>1, AppendFacts
      <4>2. Ahead(log', acked, run) = Ahead(log, acked, run) \cup {m} /\ m \notin Ahead(log, acked, run)
        BY <1>2, <1>e, <4>1 DEF Ahead, Answered
      <4>3. \A i \in Ahead(log, acked, run) : log[i] = log'[i]
        BY <4>1 DEF Ahead
      <4>4. PICK I, l2 : I = Ahead(log, acked, run) /\ l2 = log'
        OBVIOUS
      <4>5. HowMany(l2, I \cup {m}, c, n, p) = HowMany(log, I, c, n, p) + One(l2[m], c, n, p)
        BY <2>2, <4>2, <4>3, <4>4, AskingMore
      <4>6. L2 = L + E
        BY <2>1, <4>1, <4>2, <4>4, <4>5
      <4>. QED BY <2>2, <2>3, <4>6
    <3>2. CASE log' = log
      <4>1. L2 = L
        BY <2>1, <3>2
      <4>. QED BY <2>2, <2>3, <4>1
    <3>. QED BY <1>1, <3>1, <3>2
  <2>6. H + L2 + O2 + R <= H + L + O + R
    BY <2>2, <2>3, <2>4, <2>5
  <2>7. /\ Load(host', log', acked', out', run', c, n, p) = H + L2 + O2 + R
        /\ Load(host, log, acked, out, run, c, n, p) = H + L + O + R
    BY <1>1, <2>1 DEF Load
  <2>. QED BY <2>c, <2>6, <2>7
<1>. QED BY <1>1, <1>4, <1>5, FewKept

(* The event in Run's hands has not been answered before its function      *)
(* returns: taking it and leaving it changes nothing.                      *)
LEMMA RunTakesFew ==
  ASSUME IInv, IInv', Few, RunTake \/ RunNotFound \/ RunTaskFails
  PROVE  Few'
<1>1. /\ UNCHANGED <<started, host, log, acked, out>>
      /\ run.pc \in {"idle", "call"} /\ run'.pc \in {"idle", "call"}
  <2>1. RunIdle.pc = "idle"
    BY DEF RunIdle
  <2>2. RunTake => run'.pc \in {"idle", "call"}
    <3>1. RunTake => run' = [RunIdle EXCEPT !.pc = "call", !.i = Min(inbox)]
      BY DEF RunTake
    <3>. QED BY <3>1 DEF RunIdle
  <2>3. RunNotFound \/ RunTaskFails => run'.pc \in {"idle", "call"}
    BY <2>1 DEF RunNotFound, RunTaskFails
  <2>. QED BY <2>2, <2>3 DEF RunTake, RunNotFound, RunTaskFails, streamVars
<1>2. faults'["crash"] = faults["crash"]
  <2>1. faults \in [FaultKind -> Nat]
    BY DEF IInv, Types
  <2>. QED BY <2>1 DEF RunTake, RunNotFound, RunTaskFails, Spend, FaultKind
<1>3. Answered(run) = {} /\ Answered(run') = {}
  BY <1>1 DEF Answered
<1>4. ASSUME NEW n \in DOMAIN started, NEW p \in Places(started[n])
      PROVE  Load(host', log', acked', out', run', started[n], n, p)
               <= Load(host, log, acked, out, run, started[n], n, p)
  <2>1. /\ InHand(run, started[n], n, p) = InHand(run', started[n], n, p)
        /\ Ahead(log', acked', run') = Ahead(log, acked, run)
    BY <1>1, <1>3 DEF InHand, Ahead
  <2>2. Load(host', log', acked', out', run', started[n], n, p) = Load(host, log, acked, out, run, started[n], n, p)
    BY <1>1, <2>1 DEF Load
  <2>3. host \in HostType /\ log \in Seq(Event) /\ out \in Seq(Event)
    BY DEF IInv, Types, HostType
  <2>4. Load(host, log, acked, out, run, started[n], n, p) \in Nat
    BY <2>3, Counted
  <2>. QED BY <2>2, <2>4
<1>. QED BY <1>1, <1>2, <1>4, FewKept


LEMMA CallAnswered ==
  ASSUME IInv, run.pc = "call", run'.pc \in {"ack", "write"}, run'.i = run.i,
         UNCHANGED <<log, acked>>, NEW c, NEW n, NEW p
  PROVE  HowMany(log', Ahead(log', acked', run'), c, n, p) + One(log[run.i], c, n, p)
           = HowMany(log, Ahead(log, acked, run), c, n, p)
<1>1. Answered(run) = {} /\ Answered(run') = {run.i}
  BY DEF Answered
<1>2. run.i \in Unacked
  BY Taken
<1>3. PICK I, i : I = Ahead(log, acked, run) /\ i = run.i
  OBVIOUS
<1>4. i \in I /\ Ahead(log', acked', run') = I \ {i}
  BY <1>1, <1>2, <1>3 DEF Ahead, Unacked
<1>5. IsFiniteSet(I)
  <2>1. log \in Seq(Event) /\ out \in Seq(Event) /\ host \in HostType
    BY DEF IInv, Types, HostType
  <2>. QED BY <1>3, <2>1, Counted
<1>6. HowMany(log, I \ {i}, c, n, p) + One(log[i], c, n, p) = HowMany(log, I, c, n, p)
  BY <1>4, <1>5, AskingLess
<1>. QED BY <1>3, <1>4, <1>6

LEMMA RunNextFew ==
  ASSUME IInv, IInv', Few, RunNext
  PROVE  Few'
<1>e. PICK x, m, d, s : /\ x = log[run.i].cfg /\ m = x.n /\ d = started[m] /\ s = NextState(x)
  OBVIOUS
<1>1. /\ run.pc = "call" /\ run'.pc \in {"ack", "write"} /\ run'.i = run.i /\ run'.next = s
      /\ UNCHANGED <<started, connector, out, log, acked, inbox, host, faults>>
  BY <1>e, RunNextDoes
<1>2. run'.pc = "write" => /\ s.cfg.n = m
                           /\ \A p \in Places(d) : DoneIn(d, s.cfg, p) <=> DoneIn(d, x, p)
  BY <1>e, RunNextDoes
<1>3. ASSUME NEW n \in DOMAIN started, NEW p \in Places(started[n])
      PROVE  Load(host', log', acked', out', run', started[n], n, p)
               <= Load(host, log, acked, out, run, started[n], n, p)
  <2>c. PICK c : c = started[n]
    OBVIOUS
  <2>1. PICK H, L, O, R, L2, R2, E :
          /\ H = Times(host, Record(c, n, p))
          /\ R = InHand(run, c, n, p) /\ R2 = InHand(run', c, n, p)
          /\ L = HowMany(log, Ahead(log, acked, run), c, n, p)
          /\ L2 = HowMany(log', Ahead(log', acked', run'), c, n, p)
          /\ O = HowMany(out, DOMAIN out, c, n, p)
          /\ E = One(log[run.i], c, n, p)
    OBVIOUS
  <2>2. /\ H \in Nat /\ L \in Nat /\ O \in Nat /\ R \in {0, 1} /\ L2 \in Nat /\ R2 \in {0, 1}
    <3>1. /\ host \in HostType /\ log \in Seq(Event) /\ out \in Seq(Event) /\ log' \in Seq(Event)
      BY DEF IInv, Types, HostType
    <3>2. /\ H \in Nat /\ L \in Nat /\ O \in Nat /\ R \in {0, 1}
      BY <2>1, <3>1, Counted
    <3>3. L2 \in Nat /\ R2 \in {0, 1}
      BY <2>1, <3>1, Counted
    <3>. QED BY <3>2, <3>3
  <2>3. E \in {0, 1} /\ R = 0
    BY <1>1, <2>1 DEF One, InHand
  <2>4. L2 + E = L
    BY <1>1, <2>1, CallAnswered
  <2>5. R2 <= E
    <3>1. CASE run'.pc = "ack"
      BY <2>1, <2>3, <3>1 DEF InHand
    <3>2. CASE run'.pc = "write"
      <4>1. R2 = One(s, c, n, p)
        BY <1>1, <2>1, <3>2 DEF InHand
      <4>2. AsksFor(s, c, n, p) => AsksFor(log[run.i], c, n, p)
        BY <1>2, <1>e, <2>c, <3>2 DEF AsksFor
      <4>. QED BY <2>1, <2>3, <4>1, <4>2 DEF One
    <3>. QED BY <1>1, <3>1, <3>2
  <2>6. H + L2 + O + R2 <= H + L + O + R
    BY <2>2, <2>3, <2>4, <2>5
  <2>7. /\ Load(host', log', acked', out', run', c, n, p) = H + L2 + O + R2
        /\ Load(host, log, acked, out, run, c, n, p) = H + L + O + R
    BY <1>1, <2>1 DEF Load
  <2>. QED BY <2>c, <2>6, <2>7
<1>. QED BY <1>1, <1>3, FewKept

(* The event asked for the task that is executed; what follows does not.   *)
LEMMA RunTaskFew ==
  ASSUME IInv, IInv', Few, RunTask
  PROVE  Few'
<1>e. PICK e, x, m, d : e = log[run.i] /\ x = e.cfg /\ m = x.n /\ d = started[m]
  OBVIOUS
<1>y. PICK y, f, s, r : /\ y = PopTask(x) /\ f = FirstPlace(d, x) /\ s = NextState(y)
                        /\ r = [n |-> m, task |-> TaskAt(d, f)]
  OBVIOUS
<1>1. /\ run.pc = "call" /\ host' = Append(host, r)
      /\ UNCHANGED <<started, connector, out, log, acked, inbox, faults>>
      /\ m \in Nat /\ d \in Config /\ f \in Places(d) /\ TaskAt(d, f) \in Task
      /\ run'.pc \in {"ack", "write"} /\ run'.i = run.i /\ run'.next = s
  BY <1>e, <1>y, RunTaskDoes
<1>2. /\ \A p \in Places(d) : DoneIn(d, x, p) <=> Before(p, f)
      /\ run'.pc = "write" =>
           /\ s.cfg.n = m
           /\ \A p \in Places(d) : DoneIn(d, s.cfg, p) <=> Before(p, f) \/ p = f
  <2>1. DoneUpTo(d, x, f, host) /\ (run'.pc = "write" => Follows(d, s, m, f))
    BY <1>e, <1>y, RunTaskDoes
  <2>. QED BY <2>1 DEF DoneUpTo, Follows
<1>f. ~Before(f, f)
  <2>1. f[1] \in Nat /\ f[2] \in Nat /\ f[3] \in Nat
    <3>1. d \in ConfigType
      BY <1>1, ProbeAssumption DEF ConfigType, Features
    <3>. QED BY <1>1, <3>1, PlaceFacts
  <2>. QED BY <2>1 DEF Before
<1>3. ASSUME NEW n \in DOMAIN started, NEW p \in Places(started[n])
      PROVE  Load(host', log', acked', out', run', started[n], n, p)
               <= Load(host, log, acked, out, run, started[n], n, p)
  <2>c. PICK c : c = started[n]
    OBVIOUS
  <2>1. PICK H, L, O, R, H2, L2, R2, E :
          /\ H = Times(host, Record(c, n, p)) /\ H2 = Times(host', Record(c, n, p))
          /\ R = InHand(run, c, n, p) /\ R2 = InHand(run', c, n, p)
          /\ L = HowMany(log, Ahead(log, acked, run), c, n, p)
          /\ L2 = HowMany(log', Ahead(log', acked', run'), c, n, p)
          /\ O = HowMany(out, DOMAIN out, c, n, p)
          /\ E = One(e, c, n, p)
    OBVIOUS
  <2>t. /\ host \in HostType /\ log \in Seq(Event) /\ out \in Seq(Event) /\ log' \in Seq(Event)
        /\ host' \in HostType
    BY DEF IInv, Types, HostType
  <2>2. /\ H \in Nat /\ L \in Nat /\ O \in Nat /\ R \in {0, 1} /\ L2 \in Nat /\ R2 \in {0, 1}
    <3>1. /\ H \in Nat /\ L \in Nat /\ O \in Nat /\ R \in {0, 1}
      BY <2>1, <2>t, Counted
    <3>2. L2 \in Nat /\ R2 \in {0, 1}
      BY <2>1, <2>t, Counted
    <3>. QED BY <3>1, <3>2
  <2>3. E \in {0, 1} /\ R = 0
    BY <1>1, <2>1 DEF One, InHand
  <2>4. L2 + E = L
    BY <1>1, <1>e, <2>1, CallAnswered
  <2>h. PICK w : w = Record(c, n, p) /\ w = [n |-> n, task |-> TaskAt(c, p)]
    BY DEF Record
  <2>5. /\ r = w => H2 = H + 1
        /\ r # w => H2 = H
    <3>1. PICK g, k : g = host' /\ k = Len(host) + 1
      OBVIOUS
    <3>2. /\ DOMAIN host = 1 .. Len(host) /\ Len(host) \in Nat
          /\ DOMAIN g = 1 .. Len(host) + 1 /\ g[k] = r
          /\ \A i \in DOMAIN host : g[i] = host[i]
      <4>1. r \in [n : Nat, task : Task]
        BY <1>1, <1>y
      <4>2. host \in Seq([n : Nat, task : Task]) /\ host' = Append(host, r)
        BY <1>1, <2>t DEF HostType
      <4>. QED BY <3>1, <4>1, <4>2, AppendFacts
    <3>3. k \notin DOMAIN host /\ DOMAIN g = DOMAIN host \cup {k} /\ IsFiniteSet(DOMAIN host)
      <4>1. IsFiniteSet(DOMAIN host)
        BY SMTT(30), <3>2, FS_Interval
      <4>2. k = Len(host) + 1
        BY <3>1
      <4>3. k \notin DOMAIN host /\ DOMAIN g = DOMAIN host \cup {k}
        BY ONLY <3>2, <4>2
      <4>. QED BY <4>1, <4>3
    <3>4. /\ g[k] = w => Times(g, w) = Times(host, w) + 1
          /\ g[k] # w => Times(g, w) = Times(host, w)
      BY <3>2, <3>3, TimesMore
    <3>. QED BY <2>1, <2>h, <3>1, <3>2, <3>4
  <2>6. CASE r = w
    <3>1. n = m /\ TaskAt(c, p) = TaskAt(d, f)
      BY <1>y, <2>6, <2>h
    <3>2. c = d /\ p = f
      <4>1. c = d
        BY <1>e, <2>c, <3>1
      <4>2. p \in Places(d)
        BY <2>c, <4>1
      <4>. QED BY <1>1, <3>1, <4>1, <4>2, ProbeAssumption
    <3>3. E = 1
      BY <1>1, <1>2, <1>e, <1>f, <2>1, <3>1, <3>2 DEF One, AsksFor
    <3>4. R2 = 0
      <4>1. CASE run'.pc = "ack"
        BY <2>1, <4>1 DEF InHand
      <4>2. CASE run'.pc = "write"
        <5>1. ~AsksFor(s, c, n, p)
          BY <1>1, <1>2, <3>2, <4>2 DEF AsksFor
        <5>2. R2 = One(s, c, n, p)
          BY <1>1, <2>1, <4>2 DEF InHand
        <5>. QED BY <5>1, <5>2 DEF One
      <4>. QED BY <1>1, <4>1, <4>2
    <3>5. H2 = H + 1
      BY <2>5, <2>6
    <3>6. H2 + L2 + O + R2 <= H + L + O + R
      BY <2>2, <2>3, <2>4, <3>3, <3>4, <3>5
    <3>7. /\ Load(host', log', acked', out', run', c, n, p) = H2 + L2 + O + R2
          /\ Load(host, log, acked, out, run, c, n, p) = H + L + O + R
      BY <1>1, <2>1 DEF Load
    <3>. QED BY <2>c, <3>6, <3>7
  <2>7. CASE r # w
    <3>1. R2 <= E
      <4>1. CASE run'.pc = "ack"
        BY <2>1, <2>3, <4>1 DEF InHand
      <4>2. CASE run'.pc = "write"
        <5>1. R2 = One(s, c, n, p)
          BY <1>1, <2>1, <4>2 DEF InHand
        <5>2. AsksFor(s, c, n, p) => AsksFor(e, c, n, p)
          BY <1>2, <1>e, <2>c, <4>2 DEF AsksFor
        <5>. QED BY <2>1, <2>3, <5>1, <5>2 DEF One
      <4>. QED BY <1>1, <4>1, <4>2
    <3>2. H2 = H
      BY <2>5, <2>7
    <3>3. H2 + L2 + O + R2 <= H + L + O + R
      BY <2>2, <2>3, <2>4, <3>1, <3>2
    <3>4. /\ Load(host', log', acked', out', run', c, n, p) = H2 + L2 + O + R2
          /\ Load(host, log, acked, out, run, c, n, p) = H + L + O + R
      BY <1>1, <2>1 DEF Load
    <3>. QED BY <2>c, <3>3, <3>4
  <2>. QED BY <2>6, <2>7
<1>. QED BY <1>1, <1>3, FewKept


LEMMA RunWriteFew ==
  ASSUME IInv, IInv', Few, RunWrite
  PROVE  Few'
<1>1. /\ run.pc = "write" /\ out' = Append(out, run.next) /\ run' = [run EXCEPT !.pc = "ack"]
      /\ UNCHANGED <<started, connector, log, acked, inbox, host, faults>>
  BY DEF RunWrite
<1>2. /\ host \in HostType /\ log \in Seq(Event) /\ out \in Seq(Event) /\ out' \in Seq(Event)
      /\ run \in RunType
  BY DEF IInv, Types, HostType, RunType
<1>3. run'.pc = "ack" /\ run'.i = run.i /\ run.next \in Event
  BY <1>1, <1>2 DEF RunType
<1>4. Ahead(log', acked', run') = Ahead(log, acked, run)
  BY <1>1, <1>3 DEF Ahead, Answered
<1>5. ASSUME NEW n \in DOMAIN started, NEW p \in Places(started[n])
      PROVE  Load(host', log', acked', out', run', started[n], n, p)
               <= Load(host, log, acked, out, run, started[n], n, p)
  <2>1. PICK c, H, L, O, R, O2 :
          /\ c = started[n]
          /\ H = Times(host, Record(c, n, p)) /\ R = One(run.next, c, n, p)
          /\ L = HowMany(log, Ahead(log, acked, run), c, n, p)
          /\ O = HowMany(out, DOMAIN out, c, n, p)
          /\ O2 = HowMany(out', DOMAIN out', c, n, p)
    OBVIOUS
  <2>2. R = InHand(run, c, n, p) /\ InHand(run', c, n, p) = 0
    BY <1>1, <1>3, <2>1 DEF InHand
  <2>3. H \in Nat /\ L \in Nat /\ O \in Nat /\ R \in {0, 1}
    <3>1. R \in {0, 1}
      BY <2>1 DEF One
    <3>2. H \in Nat /\ L \in Nat /\ O \in Nat
      BY <1>2, <2>1, Counted
    <3>. QED BY <3>1, <3>2
  <2>4. O2 = O + R
    <3>1. PICK o, k : o = out' /\ k = Len(out) + 1
      OBVIOUS
    <3>2. /\ DOMAIN out = 1 .. Len(out) /\ Len(out) \in Nat
          /\ DOMAIN o = 1 .. Len(out) + 1 /\ o[k] = run.next
          /\ \A i \in DOMAIN out : o[i] = out[i]
      BY <1>1, <1>2, <1>3, <3>1, AppendFacts
    <3>3. k = Len(out) + 1
      BY <3>1
    <3>4. k \notin DOMAIN out /\ DOMAIN o = DOMAIN out \cup {k}
      BY ONLY <3>2, <3>3
    <3>5. IsFiniteSet(DOMAIN out) /\ \A i \in DOMAIN out : out[i] = o[i]
      BY <3>2, FS_Interval
    <3>6. HowMany(o, DOMAIN out \cup {k}, c, n, p) = HowMany(out, DOMAIN out, c, n, p) + One(o[k], c, n, p)
      BY <3>4, <3>5, AskingMore
    <3>. QED BY <2>1, <3>1, <3>2, <3>4, <3>6
  <2>5. H + L + O2 + 0 <= H + L + O + R
    BY <2>3, <2>4
  <2>6. /\ Load(host', log', acked', out', run', c, n, p) = H + L + O2 + 0
        /\ Load(host, log, acked, out, run, c, n, p) = H + L + O + R
    BY <1>1, <1>4, <2>1, <2>2 DEF Load
  <2>. QED BY <2>1, <2>5, <2>6
<1>. QED BY <1>1, <1>5, FewKept

LEMMA RunAckFew ==
  ASSUME IInv, IInv', Few, RunAck
  PROVE  Few'
<1>1. /\ run.pc = "ack" /\ acked' = acked \cup {run.i} /\ run'.pc = "idle"
      /\ UNCHANGED <<started, connector, out, log, inbox, host, faults>>
  BY DEF RunAck, RunIdle
<1>2. Ahead(log', acked', run') = Ahead(log, acked, run)
  BY <1>1 DEF Ahead, Answered
<1>3. ASSUME NEW n \in DOMAIN started, NEW p \in Places(started[n])
      PROVE  Load(host', log', acked', out', run', started[n], n, p)
               <= Load(host, log, acked, out, run, started[n], n, p)
  <2>1. InHand(run, started[n], n, p) = InHand(run', started[n], n, p)
    BY <1>1 DEF InHand
  <2>2. Load(host', log', acked', out', run', started[n], n, p) = Load(host, log, acked, out, run, started[n], n, p)
    BY <1>1, <1>2, <2>1 DEF Load
  <2>3. host \in HostType /\ log \in Seq(Event) /\ out \in Seq(Event)
    BY DEF IInv, Types, HostType
  <2>4. Load(host, log, acked, out, run, started[n], n, p) \in Nat
    BY <2>3, Counted
  <2>. QED BY <2>2, <2>4
<1>. QED BY <1>1, <1>3, FewKept

(* A crash makes the event in Run's hands ask once more.                   *)
LEMMA CrashFew ==
  ASSUME IInv, IInv', Few, Crash
  PROVE  Few' /\ faults'["crash"] = faults["crash"] - 1
<1>1. /\ out' = <<>> /\ run'.pc = "idle" /\ UNCHANGED <<started, log, acked, host>>
  BY DEF Crash, RunIdle
<1>2. faults'["crash"] = faults["crash"] - 1
  <2>1. faults \in [FaultKind -> Nat]
    BY DEF IInv, Types
  <2>. QED BY <2>1 DEF Crash, FaultKind
<1>3. /\ host \in HostType /\ log \in Seq(Event) /\ out \in Seq(Event) /\ out' \in Seq(Event)
  BY DEF IInv, Types, HostType
<1>4. Ahead(log', acked', run') = Unacked
  BY <1>1 DEF Ahead, Answered, Unacked
<1>5. ASSUME NEW n \in DOMAIN started, NEW p \in Places(started[n])
      PROVE  Load(host', log', acked', out', run', started[n], n, p)
               <= 1 + MaxFaults["crash"] - faults'["crash"]
  <2>1. PICK c, H, L, O, R, L2 :
          /\ c = started[n]
          /\ H = Times(host, Record(c, n, p)) /\ R = InHand(run, c, n, p)
          /\ L = HowMany(log, Ahead(log, acked, run), c, n, p)
          /\ L2 = HowMany(log, Unacked, c, n, p)
          /\ O = HowMany(out, DOMAIN out, c, n, p)
    OBVIOUS
  <2>2. H \in Nat /\ L \in Nat /\ O \in Nat /\ R \in {0, 1}
    BY <1>3, <2>1, Counted
  <2>3. L2 \in Nat /\ L2 <= L + 1
    <3>1. IsFiniteSet(Unacked)
      BY <1>3, Counted DEF Unacked
    <3>2. L2 \in Nat
      BY <2>1, <3>1, AskingType
    <3>3. CASE Answered(run) = {}
      <4>1. Ahead(log, acked, run) = Unacked
        BY <3>3 DEF Ahead, Unacked
      <4>. QED BY <2>1, <2>2, <3>2, <4>1
    <3>4. CASE Answered(run) # {}
      <4>1. PICK i, I : i = run.i /\ I = Unacked
        OBVIOUS
      <4>2. i \in I
        BY <3>4, <4>1, Taken DEF Answered
      <4>3. Ahead(log, acked, run) = I \ {i}
        BY <3>4, <4>1 DEF Ahead, Answered, Unacked
      <4>4. HowMany(log, I \ {i}, c, n, p) + One(log[i], c, n, p) = HowMany(log, I, c, n, p)
        BY <3>1, <4>1, <4>2, AskingLess
      <4>5. One(log[i], c, n, p) \in {0, 1}
        BY DEF One
      <4>. QED BY <2>1, <2>2, <3>2, <4>1, <4>3, <4>4, <4>5
    <3>. QED BY <3>2, <3>3, <3>4
  <2>4. HowMany(out', DOMAIN out', c, n, p) = 0 /\ InHand(run', c, n, p) = 0
    <3>1. Asking(out', DOMAIN out', c, n, p) = {}
      BY <1>1 DEF Asking
    <3>. QED BY <1>1, <3>1, FS_EmptySet DEF HowMany, InHand
  <2>5. PICK a, b : a = MaxFaults["crash"] /\ b = faults["crash"]
    OBVIOUS
  <2>6. a \in Nat /\ b \in Nat
    BY <2>5, ProbeAssumption DEF IInv, Types, FaultKind
  <2>7. /\ Load(host', log', acked', out', run', c, n, p) = H + L2 + 0 + 0
        /\ Load(host, log, acked, out, run, c, n, p) = H + L + O + R
    BY <1>1, <1>4, <2>1, <2>4 DEF Load
  <2>8. H + L + O + R <= 1 + a - b
    BY <2>1, <2>5, <2>7 DEF Few
  <2>9. H + L2 + 0 + 0 <= 1 + a - (b - 1)
    BY <2>2, <2>3, <2>6, <2>8
  <2>. QED BY <1>2, <2>1, <2>5, <2>7, <2>9
<1>. QED BY <1>1, <1>2, <1>5 DEF Few

LEMMA StartFew ==
  ASSUME IInv, IInv', Few, faults["crash"] <= MaxFaults["crash"], NEW d \in Config, Start(d)
  PROVE  Few'
<1>1. PICK m, e : /\ m = Len(started) + 1
                  /\ e = [st |-> "next", cfg |-> [n |-> m, system |-> d.system, services |-> d.services]]
  OBVIOUS
<1>2. /\ started' = Append(started, d) /\ out' = Append(out, e)
      /\ UNCHANGED <<log, acked, inbox, run, host, faults>> /\ e.cfg.n = m
  BY <1>1 DEF Start
<1>3. /\ started \in Seq(Config) /\ Len(started) \in Nat /\ DOMAIN started = 1 .. Len(started)
      /\ DOMAIN started' = 1 .. Len(started) + 1
      /\ \A n \in DOMAIN started : started'[n] = started[n]
  <2>1. started \in Seq(Config)
    BY DEF IInv, Types
  <2>. QED BY <1>2, <2>1, AppendFacts
<1>4. m \notin DOMAIN started /\ DOMAIN started' = DOMAIN started \cup {m}
  <2>1. m = Len(started) + 1
    BY <1>1
  <2>. QED BY ONLY <1>3, <2>1
<1>5. /\ host \in HostType /\ log \in Seq(Event) /\ out \in Seq(Event) /\ out' \in Seq(Event)
  BY DEF IInv, Types, HostType
<1>6. PICK o, k : o = out' /\ k = Len(out) + 1
  OBVIOUS
<1>7. /\ k \notin DOMAIN out /\ DOMAIN o = DOMAIN out \cup {k} /\ IsFiniteSet(DOMAIN out)
      /\ o[k] = e /\ \A i \in DOMAIN out : out[i] = o[i]
  <2>1. out \in Seq(Event) /\ Len(out) \in Nat /\ DOMAIN out = 1 .. Len(out)
    BY <1>5
  <2>2. o = Append(out, e)
    BY <1>2, <1>6
  <2>3. /\ DOMAIN o = 1 .. Len(out) + 1 /\ o[Len(out) + 1] = e /\ \A i \in 1 .. Len(out) : o[i] = out[i]
    BY ONLY <2>1, <2>2
  <2>4. k = Len(out) + 1
    BY <1>6
  <2>5. k \notin DOMAIN out /\ DOMAIN o = DOMAIN out \cup {k}
    BY ONLY <2>1, <2>3, <2>4
  <2>6. IsFiniteSet(DOMAIN out)
    BY <2>1, FS_Interval
  <2>7. o[k] = e /\ \A i \in DOMAIN out : out[i] = o[i]
    BY ONLY <2>1, <2>3, <2>4
  <2>. QED BY <2>5, <2>6, <2>7
<1>8. ASSUME NEW c, NEW n, NEW p
      PROVE  HowMany(out', DOMAIN out', c, n, p) = HowMany(out, DOMAIN out, c, n, p) + One(e, c, n, p)
  <2>1. HowMany(o, DOMAIN out \cup {k}, c, n, p) = HowMany(out, DOMAIN out, c, n, p) + One(o[k], c, n, p)
    BY <1>7, AskingMore
  <2>. QED BY <1>6, <1>7, <2>1
<1>9. PICK a, b : a = MaxFaults["crash"] /\ b = faults["crash"]
  OBVIOUS
<1>10. a \in Nat /\ b \in Nat /\ b <= a
  BY <1>9, ProbeAssumption DEF IInv, Types, FaultKind
<1>11. ASSUME NEW n \in DOMAIN started, NEW p \in Places(started[n])
       PROVE  Load(host', log', acked', out', run', started'[n], n, p) <= 1 + a - b
  <2>1. PICK c : c = started[n] /\ c = started'[n]
    BY <1>3
  <2>2. One(e, c, n, p) = 0
    BY <1>2, <1>4 DEF One, AsksFor
  <2>3. HowMany(out, DOMAIN out, c, n, p) \in Nat
    BY <1>5, Counted
  <2>4. HowMany(out', DOMAIN out', c, n, p) = HowMany(out, DOMAIN out, c, n, p)
    BY <1>8, <2>2, <2>3
  <2>5. Load(host', log', acked', out', run', c, n, p) = Load(host, log, acked, out, run, c, n, p)
    BY <1>2, <2>4 DEF Load
  <2>. QED BY <1>9, <2>1, <2>5 DEF Few
<1>12. ASSUME NEW c, NEW p
       PROVE  Load(host', log', acked', out', run', c, m, p) <= 1 + a - b
  <2>1. Times(host, Record(c, m, p)) = 0
    <3>1. {i \in DOMAIN host : host[i] = Record(c, m, p)} = {}
      BY <1>4 DEF Record, IInv, HostKnown
    <3>. QED BY <3>1, FS_EmptySet DEF Times
  <2>2. HowMany(log, Ahead(log, acked, run), c, m, p) = 0
    <3>1. Asking(log, Ahead(log, acked, run), c, m, p) = {}
      BY <1>4 DEF Asking, AsksFor, Ahead, IInv, EventsSound, Sound
    <3>. QED BY <3>1, FS_EmptySet DEF HowMany
  <2>3. HowMany(out, DOMAIN out, c, m, p) = 0
    <3>1. Asking(out, DOMAIN out, c, m, p) = {}
      BY <1>4 DEF Asking, AsksFor, IInv, EventsSound, Sound
    <3>. QED BY <3>1, FS_EmptySet DEF HowMany
  <2>4. InHand(run, c, m, p) = 0
    <3>1. run.pc = "write" => ~AsksFor(run.next, c, m, p)
      BY <1>4 DEF AsksFor, IInv, EventsSound, Sound
    <3>. QED BY <3>1 DEF InHand, One
  <2>5. One(e, c, m, p) \in {0, 1}
    BY DEF One
  <2>6. HowMany(out', DOMAIN out', c, m, p) = One(e, c, m, p)
    BY <1>8, <2>3, <2>5
  <2>7. Load(host', log', acked', out', run', c, m, p) = 0 + 0 + One(e, c, m, p) + 0
    BY <1>2, <2>1, <2>2, <2>4, <2>6 DEF Load
  <2>8. 0 + 0 + One(e, c, m, p) + 0 <= 1 + a - b
    BY <1>10, <2>5
  <2>. QED BY <2>7, <2>8
<1>13. ASSUME NEW n \in DOMAIN started', NEW p \in Places(started'[n])
       PROVE  Load(host', log', acked', out', run', started'[n], n, p)
                <= 1 + MaxFaults["crash"] - faults'["crash"]
  <2>1. CASE n \in DOMAIN started
    <3>1. p \in Places(started[n])
      BY <1>3, <2>1
    <3>. QED BY <1>2, <1>9, <1>11, <2>1, <3>1
  <2>2. CASE n = m
    BY <1>2, <1>9, <1>12, <2>2
  <2>. QED BY <1>4, <2>1, <2>2
<1>. QED BY <1>13 DEF Few


Spent == faults["crash"] <= MaxFaults["crash"]

LEMMA FewNext ==
  ASSUME IInv, Few, Spent, [Next]_vars
  PROVE  Few' /\ Spent'
<1>0. IInv'
  BY NextInv
<1>t. faults \in [FaultKind -> Nat]
  BY DEF IInv, Types
<1>1. CASE \E d \in Config : Start(d)
  <2>1. PICK d \in Config : Start(d)
    BY <1>1
  <2>2. Few'
    BY <1>0, <2>1, StartFew DEF Spent
  <2>. QED BY <2>1, <2>2 DEF Start, Spent
<1>2. CASE Store \/ StoreFails
  <2>1. Few'
    BY <1>0, <1>2, StoreFew
  <2>2. faults'["crash"] = faults["crash"]
    BY <1>t, <1>2 DEF Store, StoreFails, Spend, FaultKind
  <2>. QED BY <2>1, <2>2 DEF Spent
<1>3. CASE RunTake \/ RunNotFound \/ RunTaskFails
  <2>1. Few'
    BY <1>0, <1>3, RunTakesFew
  <2>2. faults'["crash"] = faults["crash"]
    BY <1>t, <1>3 DEF RunTake, RunNotFound, RunTaskFails, Spend, FaultKind
  <2>. QED BY <2>1, <2>2 DEF Spent
<1>4. CASE RunNext
  <2>1. Few'
    BY <1>0, <1>4, RunNextFew
  <2>. QED BY <1>4, <2>1 DEF RunNext, Spent
<1>5. CASE RunTask
  <2>1. Few'
    BY <1>0, <1>5, RunTaskFew
  <2>. QED BY <1>5, <2>1 DEF RunTask, Spent
<1>6. CASE RunWrite
  <2>1. Few'
    BY <1>0, <1>6, RunWriteFew
  <2>. QED BY <1>6, <2>1 DEF RunWrite, Spent
<1>7. CASE RunAck
  <2>1. Few'
    BY <1>0, <1>7, RunAckFew
  <2>. QED BY <1>7, <2>1 DEF RunAck, Spent
<1>8. CASE Crash
  <2>1. Few' /\ faults'["crash"] = faults["crash"] - 1
    BY <1>0, <1>8, CrashFew
  <2>2. PICK a, b : a = faults["crash"] /\ b = MaxFaults["crash"]
    OBVIOUS
  <2>3. a \in Nat /\ b \in Nat
    BY <1>t, <2>2, ProbeAssumption DEF FaultKind
  <2>4. a <= b => a - 1 <= b
    BY <2>3
  <2>. QED BY <2>1, <2>2, <2>4 DEF Spent
<1>9. CASE UNCHANGED vars
  BY <1>9 DEF vars, streamVars, Few, Spent
<1>. QED
  BY <1>1, <1>2, <1>3, <1>4, <1>5, <1>6, <1>7, <1>8, <1>9 DEF Next, RunStep

LEMMA FewInit ==
  ASSUME Init
  PROVE  Few /\ Spent
<1>1. DOMAIN started = {} /\ faults = MaxFaults
  BY DEF Init
<1>2. MaxFaults["crash"] \in Nat
  BY ProbeAssumption DEF FaultKind
<1>. QED BY <1>1, <1>2 DEF Few, Spent

(* What has been executed twice had one place, so it is counted at it.     *)
LEMMA FewMeans ==
  ASSUME IInv, Few
  PROVE  BoundedRepeats
<1>1. ASSUME NEW i \in DOMAIN host
      PROVE  Cardinality({j \in DOMAIN host : host[j] = host[i]})
               <= 1 + MaxFaults["crash"] - faults["crash"]
  <2>1. PICK n, c : n = host[i].n /\ c = started[n]
    OBVIOUS
  <2>2. n \in DOMAIN started /\ c \in ConfigType
    <3>1. n \in DOMAIN started /\ started \in Seq(Config)
      BY <2>1 DEF IInv, HostKnown, Types
    <3>. QED BY <2>1, <3>1, Configured
  <2>3. PICK p \in Places(c) : TaskAt(c, p) = host[i].task
    BY <2>1 DEF IInv, NoTaskSkipped
  <2>4. /\ host \in HostType /\ log \in Seq(Event) /\ out \in Seq(Event)
    BY DEF IInv, Types, HostType
  <2>5. host[i] = Record(c, n, p)
    <3>1. host[i] \in [n : Nat, task : Task]
      BY <2>4, SeqFacts DEF HostType
    <3>. QED BY <2>1, <2>3, <3>1 DEF Record
  <2>6. PICK H, L, O, R, a, b :
          /\ H = Times(host, Record(c, n, p)) /\ R = InHand(run, c, n, p)
          /\ L = HowMany(log, Ahead(log, acked, run), c, n, p)
          /\ O = HowMany(out, DOMAIN out, c, n, p)
          /\ a = MaxFaults["crash"] /\ b = faults["crash"]
    OBVIOUS
  <2>7. H \in Nat /\ L \in Nat /\ O \in Nat /\ R \in {0, 1}
    BY <2>4, <2>6, Counted
  <2>8. a \in Nat /\ b \in Nat
    BY <2>6, ProbeAssumption DEF IInv, Types, FaultKind
  <2>9. H + L + O + R <= 1 + a - b
    BY <2>1, <2>2, <2>6 DEF Few, Load
  <2>10. H <= 1 + a - b
    BY <2>7, <2>8, <2>9
  <2>11. H = Cardinality({j \in DOMAIN host : host[j] = host[i]})
    BY <2>5, <2>6 DEF Times
  <2>. QED BY <2>6, <2>10, <2>11
<1>. QED BY <1>1 DEF BoundedRepeats

(* Between the execution of a task and the acknowledgement of its event a  *)
(* crash makes one more event of the same configuration (sm.go:120-138):   *)
(* however many there are, a task is executed once more per crash at most. *)
THEOREM FewRepeats == Spec => []BoundedRepeats
<1>1. Init => IInv /\ Few /\ Spent
  BY InitInv, FewInit
<1>2. IInv /\ Few /\ Spent /\ [Next]_vars => (IInv /\ Few /\ Spent)'
  BY NextInv, FewNext
<1>3. IInv /\ Few /\ Spent => BoundedRepeats
  BY FewMeans
<1>. QED BY <1>1, <1>2, <1>3, PTL DEF Spec


=============================================================================
