-------------------------- MODULE HostTasksProofs --------------------------
(***************************************************************************)
(* Proofs about the system that the parser makes of a configuration and    *)
(* what the agent then does on its host, for every configuration, whatever *)
(* tasks it is turned into, every depth of the stack that is more than the *)
(* features there are, every set of functions the agent has and every      *)
(* bound on the faults.                                                    *)
(*                                                                         *)
(* The parser comes first.  Its invariant, FInv, speaks of a World: what   *)
(* ParseSystem has collected of one cluster.  Every call of                *)
(* featureToFeature on the stack is described by itself (FrameInv) and     *)
(* together with the call above it (LinkInv): what is still missing of     *)
(* what a feature requires is what the call it made has still to visit.    *)
(* From this the order of the lists (ListsRight), the services             *)
(* (ServicesRight) and the clusters that are built (BuiltRight) follow.    *)
(* The invariant of the host, IInv, is in the second part.                 *)
(***************************************************************************)
EXTENDS HostTasks, FiniteSetTheorems, SequenceTheorems, WellFoundedInduction,
        NaturalsInduction, TLAPS

-----------------------------------------------------------------------------
(* The parser: sequences.                                                  *)

(* A sequence of whatever. *)
Sequence(s) == \E S : s \in Seq(S)

LEMMA SeqFacts ==
  ASSUME NEW s, Sequence(s)
  PROVE  Len(s) \in Nat /\ DOMAIN s = 1 .. Len(s) /\ (s = <<>> <=> Len(s) = 0)
BY DEF Sequence

LEMMA EmptySequence == Sequence(<<>>) /\ DOMAIN <<>> = {} /\ Names(<<>>) = {} /\ ToSet(<<>>) = {}
<1>1. << >> \in Seq({})
  OBVIOUS
<1>2. DOMAIN << >> = {}
  OBVIOUS
<1>3. QED
  BY <1>1, <1>2 DEF Sequence, Names, ToSet

LEMMA Appended ==
  ASSUME NEW s, NEW e, Sequence(s)
  PROVE  /\ Sequence(Append(s, e)) /\ Len(Append(s, e)) = Len(s) + 1
         /\ \A i \in DOMAIN s : Append(s, e)[i] = s[i]
         /\ Append(s, e)[Len(s) + 1] = e
<1>1. PICK S : s \in Seq(S)
  BY DEF Sequence
<1>2. s \in Seq(S \cup {e})
  BY <1>1
<1>3. Append(s, e) \in Seq(S \cup {e})
  BY <1>2
<1>4. QED
  BY <1>2, <1>3 DEF Sequence

LEMMA FrontFacts ==
  ASSUME NEW s, Sequence(s), s # <<>>
  PROVE  /\ Sequence(Front(s)) /\ Len(Front(s)) = Len(s) - 1
         /\ \A i \in 1 .. Len(s) - 1 : Front(s)[i] = s[i]
         /\ Last(s) = s[Len(s)] /\ Len(s) \in DOMAIN s
<1>1. PICK S : s \in Seq(S)
  BY DEF Sequence
<1>2. Len(s) \in Nat \ {0} /\ DOMAIN s = 1 .. Len(s)
  BY <1>1
<1>3. /\ SubSeq(s, 1, Len(s) - 1) \in Seq(S) /\ Len(SubSeq(s, 1, Len(s) - 1)) = Len(s) - 1
      /\ \A i \in 1 .. Len(s) - 1 : SubSeq(s, 1, Len(s) - 1)[i] = s[i]
  BY <1>1, <1>2
<1>4. Len(s) \in DOMAIN s
  BY <1>2
<1>5. QED
  BY <1>3, <1>4 DEF Front, Last, Sequence

(* The stack with another frame on top. *)
LEMMA Replaced ==
  ASSUME NEW s, NEW f, Sequence(s), s # <<>>
  PROVE  /\ /\ Sequence(Append(Front(s), f)) /\ Len(Append(Front(s), f)) = Len(s)
            /\ DOMAIN Append(Front(s), f) = DOMAIN s
         /\ \A i \in 1 .. Len(s) - 1 : Append(Front(s), f)[i] = s[i]
         /\ Append(Front(s), f)[Len(s)] = f /\ Append(Front(s), f) # <<>>
         /\ Last(Append(Front(s), f)) = f
<1> DEFINE t == Append(Front(s), f)
<1>1. Len(s) \in Nat \ {0} /\ DOMAIN s = 1 .. Len(s)
  BY SeqFacts
<1>2. /\ Sequence(t) /\ Len(t) = Len(s) /\ t[Len(s)] = f
      /\ \A i \in 1 .. Len(s) - 1 : t[i] = Front(s)[i]
  <2>1. Len(Front(s)) = Len(s) - 1 /\ Sequence(Front(s))
    BY FrontFacts
  <2>2. DOMAIN Front(s) = 1 .. Len(s) - 1
    BY <2>1, SeqFacts
  <2>3. Len(Front(s)) + 1 = Len(s)
    BY <1>1, <2>1
  <2>4. /\ Sequence(t) /\ Len(t) = Len(Front(s)) + 1
        /\ \A i \in DOMAIN Front(s) : t[i] = Front(s)[i]
        /\ t[Len(Front(s)) + 1] = f
    <3>1. Sequence(Front(s))
      BY <2>1
    <3>2. QED
      BY <3>1, Appended, Zenon
  <2> HIDE DEF t
  <2>5. QED
    BY <2>2, <2>3, <2>4
<1>3. DOMAIN t = DOMAIN s
  BY <1>1, <1>2, SeqFacts, Zenon
<1>4. t # <<>>
  <2> HIDE DEF t
  <2>1. QED
    BY <1>1, <1>2, SeqFacts
<1>5. QED
  BY <1>2, <1>3, <1>4, FrontFacts DEF Last

(* The last of a sequence, and what is before it. *)
LEMMA TopFacts ==
  ASSUME NEW s, Sequence(s), s # <<>>
  PROVE  /\ Len(s) \in Nat \ {0} /\ DOMAIN s = 1 .. Len(s) /\ Last(s) = s[Len(s)]
         /\ Len(s) \in DOMAIN s
BY SeqFacts, FrontFacts

LEMMA BelowFacts ==
  ASSUME NEW s, Sequence(s), s # <<>>
  PROVE  /\ Sequence(Front(s)) /\ Len(Front(s)) = Len(s) - 1
         /\ DOMAIN Front(s) = 1 .. Len(s) - 1
         /\ \A i \in 1 .. Len(s) - 1 : Front(s)[i] = s[i]
         /\ Front(s) = <<>> <=> Len(s) = 1
<1>1. /\ Sequence(Front(s)) /\ Len(Front(s)) = Len(s) - 1
      /\ \A i \in 1 .. Len(s) - 1 : Front(s)[i] = s[i]
  BY FrontFacts
<1> DEFINE k == Len(s)
<1>2. k \in Nat \ {0}
  BY SeqFacts
<1>3. /\ DOMAIN Front(s) = 1 .. Len(Front(s)) /\ Len(Front(s)) = k - 1
      /\ Front(s) = <<>> <=> Len(Front(s)) = 0
  BY <1>1, SeqFacts
<1> HIDE DEF k
<1>4. /\ DOMAIN Front(s) = 1 .. k - 1
      /\ Front(s) = <<>> <=> k = 1
  BY <1>2, <1>3
<1>5. QED
  BY <1>1, <1>4 DEF k

LEMMA TailFacts ==
  ASSUME NEW s, Sequence(s), s # <<>>
  PROVE  /\ Sequence(Tail(s)) /\ Head(s) = s[1] /\ 1 \in DOMAIN s
         /\ ToSet(s) = {Head(s)} \cup ToSet(Tail(s))
<1>1. PICK S : s \in Seq(S)
  BY DEF Sequence
<1>2. Tail(s) \in Seq(S) /\ Len(Tail(s)) = Len(s) - 1 /\ Len(s) \in Nat \ {0}
  BY <1>1
<1>3. \A i \in 1 .. Len(s) - 1 : Tail(s)[i] = s[i + 1]
  BY <1>1
<1>4. \A i \in DOMAIN s : i = 1 \/ i - 1 \in DOMAIN Tail(s)
  BY <1>1, <1>2
<1>5. \A x \in ToSet(s) : x = s[1] \/ x \in ToSet(Tail(s))
  <2> SUFFICES ASSUME NEW i \in DOMAIN s PROVE s[i] = s[1] \/ s[i] \in ToSet(Tail(s))
    BY DEF ToSet
  <2>1. CASE i # 1
    <3>1. i - 1 \in DOMAIN Tail(s) /\ i - 1 \in 1 .. Len(s) - 1 /\ i - 1 + 1 = i
      BY <1>1, <1>4, <2>1
    <3>2. Tail(s)[i - 1] = s[i]
      BY <1>3, <3>1
    <3>3. QED
      BY <3>1, <3>2 DEF ToSet
  <2>2. QED
    BY <2>1
<1>6. \A x \in ToSet(Tail(s)) : x \in ToSet(s)
  <2> SUFFICES ASSUME NEW i \in DOMAIN Tail(s) PROVE Tail(s)[i] \in ToSet(s)
    BY DEF ToSet
  <2>1. i \in 1 .. Len(s) - 1 /\ i + 1 \in DOMAIN s
    BY <1>1, <1>2
  <2>2. QED
    BY <1>3, <2>1 DEF ToSet
<1>7. Head(s) = s[1] /\ 1 \in DOMAIN s /\ s[1] \in ToSet(s)
  BY <1>1, <1>2 DEF ToSet
<1>8. QED
  BY <1>2, <1>5, <1>6, <1>7 DEF Sequence

LEMMA NamesAppended ==
  ASSUME NEW fs, NEW f, Sequence(fs)
  PROVE  Names(Append(fs, f)) = Names(fs) \cup {f.name}
<1>1. /\ DOMAIN fs = 1 .. Len(fs) /\ Len(fs) \in Nat
      /\ DOMAIN Append(fs, f) = 1 .. Len(fs) + 1
  BY Appended, SeqFacts
<1>2. /\ \A i \in DOMAIN fs : i \in DOMAIN Append(fs, f) /\ Append(fs, f)[i] = fs[i]
      /\ Append(fs, f)[Len(fs) + 1] = f
  BY <1>1, Appended
<1>3. \A i \in DOMAIN Append(fs, f) : i \in DOMAIN fs \/ i = Len(fs) + 1
  BY <1>1
<1>4. Len(fs) + 1 \in DOMAIN Append(fs, f)
  BY <1>1
<1>5. QED
  BY <1>2, <1>3, <1>4 DEF Names

LEMMA PresentNames == \A fs, n : Present(fs, n) <=> n \in Names(fs)
BY DEF Present, Names

LEMMA AppendedSet ==
  ASSUME NEW s, NEW e, Sequence(s)
  PROVE  ToSet(Append(s, e)) = ToSet(s) \cup {e}
<1>1. DOMAIN s = 1 .. Len(s) /\ Len(s) \in Nat
  BY SeqFacts
<1>2. DOMAIN Append(s, e) = 1 .. Len(s) + 1
  BY Appended, SeqFacts
<1>3. /\ \A i \in DOMAIN s : i \in DOMAIN Append(s, e) /\ Append(s, e)[i] = s[i]
      /\ Append(s, e)[Len(s) + 1] = e /\ Len(s) + 1 \in DOMAIN Append(s, e)
  BY <1>1, <1>2, Appended
<1>4. \A i \in DOMAIN Append(s, e) : i \in DOMAIN s \/ i = Len(s) + 1
  BY <1>1, <1>2
<1>5. QED
  BY <1>3, <1>4 DEF ToSet

-----------------------------------------------------------------------------
(* A feature of the map, or its copy for a service, but for its texts.     *)
SameTasks(ts, us) ==
  /\ Sequence(ts) /\ DOMAIN ts = DOMAIN us
  /\ \A i \in DOMAIN ts :
       /\ IsTask(ts[i])
       /\ ts[i].type = us[i].type /\ ts[i].priv = us[i].priv
       /\ ts[i].package = us[i].package

Alike(f, g) ==
  /\ f = [requires |-> g.requires, tasks |-> f.tasks, custom |-> f.custom,
          packages |-> g.packages]
  /\ SameTasks(f.tasks, g.tasks)
  /\ DOMAIN f.custom = DOMAIN g.custom
  /\ \A o \in DOMAIN g.custom : SameTasks(f.custom[o], g.custom[o])

LEMMA ListSequence == \A s : IsList(s) => Sequence(s)
BY DEF IsList, Sequence

LEMMA SelfAlike ==
  ASSUME NEW g, IsFeature(g)
  PROVE  Alike(g, g)
BY ListSequence DEF IsFeature, Alike, SameTasks

LEMMA FillTask ==
  ASSUME NEW t, NEW s, IsTask(t)
  PROVE  /\ IsTask(Fill(t, s)) /\ Fill(t, s).type = t.type
         /\ Fill(t, s).priv = t.priv /\ Fill(t, s).package = t.package
<1>1. CASE Fill(t, s) = t
  BY <1>1
<1>2. CASE Fill(t, s) = [t EXCEPT !.of = s]
  <2>1. [t EXCEPT !.of = s] = [type |-> t.type, priv |-> t.priv, package |-> t.package,
                               what |-> t.what, of |-> s]
    BY DEF IsTask
  <2>2. QED
    BY <1>2, <2>1 DEF IsTask
<1>3. QED
  BY <1>1, <1>2 DEF Fill

LEMMA FillAllSame ==
  ASSUME NEW ts, NEW us, NEW s, SameTasks(ts, us)
  PROVE  SameTasks(FillAll(ts, s), us) /\ SameTasks(FillCommands(ts, s), us)
<1>1. \A i \in DOMAIN ts : IsTask(ts[i])
  BY DEF SameTasks
<1>2. Sequence(FillAll(ts, s)) /\ Sequence(FillCommands(ts, s))
  <2>1. PICK n \in Nat : DOMAIN ts = 1 .. n
    BY SeqFacts DEF SameTasks
  <2>2. /\ FillAll(ts, s) \in Seq({Fill(ts[i], s) : i \in 1 .. n})
        /\ FillCommands(ts, s) \in Seq({ts[i] : i \in 1 .. n} \cup {Fill(ts[i], s) : i \in 1 .. n})
    BY <2>1 DEF FillAll, FillCommands
  <2>3. QED
    BY <2>2 DEF Sequence
<1>3. DOMAIN FillAll(ts, s) = DOMAIN ts /\ DOMAIN FillCommands(ts, s) = DOMAIN ts
  BY DEF FillAll, FillCommands
<1>4. \A i \in DOMAIN ts :
        /\ FillAll(ts, s)[i] = Fill(ts[i], s)
        /\ FillCommands(ts, s)[i] \in {ts[i], Fill(ts[i], s)}
  BY DEF FillAll, FillCommands
<1>5. \A i \in DOMAIN ts :
        /\ IsTask(Fill(ts[i], s)) /\ Fill(ts[i], s).type = ts[i].type
        /\ Fill(ts[i], s).priv = ts[i].priv /\ Fill(ts[i], s).package = ts[i].package
  BY <1>1, FillTask
<1>6. SameTasks(FillAll(ts, s), us)
  BY <1>2, <1>3, <1>4, <1>5 DEF SameTasks
<1>7. SameTasks(FillCommands(ts, s), us)
  <2>1. ASSUME NEW i \in DOMAIN ts
        PROVE  /\ IsTask(FillCommands(ts, s)[i])
               /\ FillCommands(ts, s)[i].type = us[i].type
               /\ FillCommands(ts, s)[i].priv = us[i].priv
               /\ FillCommands(ts, s)[i].package = us[i].package
    BY <1>4, <1>5 DEF SameTasks
  <2>2. QED
    BY <1>2, <1>3, <2>1 DEF SameTasks
<1>8. QED
  BY <1>6, <1>7

LEMMA Copied ==
  ASSUME NEW r, NEW t, NEW c, NEW p, NEW ts, NEW cs
  PROVE  [[requires |-> r, tasks |-> t, custom |-> c, packages |-> p]
            EXCEPT !.tasks = ts, !.custom = cs]
           = [requires |-> r, tasks |-> ts, custom |-> cs, packages |-> p]
<1>1. [[requires |-> r, tasks |-> t, custom |-> c, packages |-> p] EXCEPT !.tasks = ts]
        = [requires |-> r, tasks |-> ts, custom |-> c, packages |-> p]
  OBVIOUS
<1>2. [[requires |-> r, tasks |-> ts, custom |-> c, packages |-> p] EXCEPT !.custom = cs]
        = [requires |-> r, tasks |-> ts, custom |-> cs, packages |-> p]
  OBVIOUS
<1>3. QED
  BY <1>1, <1>2, Zenon

LEMMA CopiesAlike ==
  ASSUME NEW f, NEW g, NEW s, Alike(f, g)
  PROVE  Alike(Specialised(f, s), g) /\ Alike(Rewritten(f, s), g)
<1>1. /\ f = [requires |-> f.requires, tasks |-> f.tasks, custom |-> f.custom,
              packages |-> f.packages]
      /\ f.requires = g.requires /\ f.packages = g.packages
      /\ DOMAIN f.custom = DOMAIN g.custom
  BY DEF Alike
<1>2. SameTasks(FillAll(f.tasks, s), g.tasks) /\ SameTasks(FillCommands(f.tasks, s), g.tasks)
  BY FillAllSame DEF Alike
<1>3. \A o \in DOMAIN g.custom : /\ SameTasks(FillAll(f.custom[o], s), g.custom[o])
                                 /\ SameTasks(FillCommands(f.custom[o], s), g.custom[o])
  BY FillAllSame DEF Alike
<1>4. Alike(Specialised(f, s), g)
  <2> DEFINE cs == [o \in DOMAIN f.custom |-> FillAll(f.custom[o], s)]
             h  == [requires |-> g.requires, tasks |-> FillAll(f.tasks, s), custom |-> cs,
                    packages |-> g.packages]
  <2>1. Specialised(f, s) = h
    <3>1. Specialised(f, s) = [f EXCEPT !.tasks = FillAll(f.tasks, s), !.custom = cs]
      BY DEF Specialised
    <3> HIDE DEF cs
    <3>2. QED
      BY <1>1, <3>1, Copied
  <2>2. Alike(h, g)
    BY <1>1, <1>2, <1>3 DEF Alike
  <2>3. QED
    BY <2>1, <2>2
<1>5. Alike(Rewritten(f, s), g)
  <2> DEFINE cs == [o \in DOMAIN f.custom |-> FillCommands(f.custom[o], s)]
             h  == [requires |-> g.requires, tasks |-> FillCommands(f.tasks, s), custom |-> cs,
                    packages |-> g.packages]
  <2>1. Rewritten(f, s) = h
    <3>1. Rewritten(f, s) = [f EXCEPT !.tasks = FillCommands(f.tasks, s), !.custom = cs]
      BY DEF Rewritten
    <3> HIDE DEF cs
    <3>2. QED
      BY <1>1, <3>1, Copied
  <2>2. Alike(h, g)
    BY <1>1, <1>2, <1>3 DEF Alike
  <2>3. QED
    BY <2>1, <2>2
<1>6. QED
  BY <1>4, <1>5

LEMMA AlikeTasks ==
  ASSUME NEW f, NEW g, NEW os, Alike(f, g)
  PROVE  /\ SameTasks(TasksFor(f, os), TasksFor(g, os))
         /\ OwnOf(f, os) <=> OwnOf(g, os)
<1>1. SameTasks(TasksFor(f, os), TasksFor(g, os))
  BY DEF Alike, TasksFor
<1>2. QED
  BY <1>1 DEF OwnOf, SameTasks

-----------------------------------------------------------------------------
(* What ParseSystem has collected of a cluster, w: the configuration r,    *)
(* the cluster's os, the features each may need, the packages offered, the *)
(* lists, and which of the facts about the configuration hold: flags.      *)

IsOwnOf(r, os, n) == OwnOf(r.features[n[1]], os)
NeedsOf(r, n)     == ToSet(r.features[n[1]].requires)

FirstIn(r, managers) ==
  LET known == {i \in DOMAIN managers : managers[i] \in DOMAIN r.pms}
  IN  {managers[i] : i \in {j \in known : \A k \in known : j <= k}}

ListIn(w, own)  == IF own THEN w.feats ELSE w.system
Have(w)         == Names(w.system) \cup Names(w.feats)
ManagersIn(w)   == {m.name : m \in ToSet(w.managers)}
KnownIn(r, n)    == n[1] \in DOMAIN r.features

(* A manager is the system's own, or all it requires is there or goes to   *)
(* a service.                                                              *)
Ready(w, m, there) ==
  \/ m \in ToSet(w.r.os[w.os])
  \/ \A n \in ToSet(w.r.pms[m].requires) : IsOwnOf(w.r, w.os, n) \/ n \in there

Can(w, t, there) ==
  \/ \A m \in FirstIn(w.r, t.managers) : w.r.pms[m].requires = <<>>
  \/ \E m \in ManagersIn(w) \cap ToSet(t.managers) : Ready(w, m, there)

Lost(r, name, package) ==
  /\ package \notin DOMAIN r.packages
  /\ \A n \in NeedsOf(r, name) : package \notin DOMAIN r.features[n[1]].packages

TasksPossible(w, name, tasks, there) ==
  \A k \in DOMAIN tasks :
    /\ tasks[k].type = "install" => Can(w, tasks[k], there)
    /\ tasks[k].type = "" =>
         Lost(w.r, name, TasksFor(w.r.features[name[1]], w.os)[k].package)

(* A call, by itself. *)
FrameTyped(fr) ==
  /\ fr = [todo |-> fr.todo, pc |-> fr.pc, name |-> fr.name, feat |-> fr.feat,
           own |-> fr.own, org |-> fr.org, tasks |-> fr.tasks, manager |-> fr.manager]
  /\ Sequence(fr.todo)
  /\ fr.pc \in {"loop", "required", "tasks", "manager"}
  /\ Sequence(fr.tasks)
  /\ fr.pc \in {"loop", "required"} => fr.tasks = <<>>

FrameAt(w, fr) ==
  /\ fr.todo # <<>> /\ fr.name = Head(fr.todo) /\ KnownIn(w.r, fr.name)
  /\ Alike(fr.feat, w.r.features[fr.name[1]])
  /\ fr.own \in BOOLEAN /\ (fr.own <=> IsOwnOf(w.r, w.os, fr.name))
  /\ fr.org \in Nat

FrameManager(w, fr) ==
  LET src == TasksFor(fr.feat, w.os)
      p   == src[Len(fr.tasks) + 1].package
  IN  /\ Len(fr.tasks) < Len(src)
      /\ src[Len(fr.tasks) + 1].type = "install"
      /\ fr.manager \in DOMAIN w.r.pms
      /\ p \in DOMAIN w.packages
      /\ \E o \in w.offers : p \in DOMAIN o /\ fr.manager \in ToSet(o[p])
      /\ "plain" \in w.flags => fr.manager \in ToSet(w.packages[p])

FrameKnown(w, fr) ==
  /\ \A n \in ToSet(fr.todo) : KnownIn(w.r, n)
  /\ fr.pc # "loop" =>
       /\ fr.org <= Len(ListIn(w, fr.own))
       /\ \A k \in 1 .. fr.org : ListIn(w, fr.own)[k].name # fr.name
  /\ fr.pc \in {"tasks", "manager"} =>
       /\ NeedsOf(w.r, fr.name) \subseteq Have(w)
       /\ "simple" \in w.flags => fr.name \notin Names(ListIn(w, fr.own))
       /\ "plain" \in w.flags =>
            TasksPossible(w, fr.name, fr.tasks, Names(w.system))

FrameInv(w, fr) ==
  /\ FrameTyped(fr)
  /\ fr.pc # "loop" => FrameAt(w, fr)
  /\ fr.pc \in {"tasks", "manager"} => Len(fr.tasks) <= Len(TasksFor(fr.feat, w.os))
  /\ fr.pc = "manager" => FrameManager(w, fr)
  /\ "known" \in w.flags => FrameKnown(w, fr)

(* A call, and what the call it makes is still to go through. *)
LinkInv(w, fr, rest) ==
  /\ \A n \in rest : KnownIn(w.r, n) => n[1] \in w.need[fr.name[1]]
  /\ "known" \in w.flags =>
       /\ fr.pc = "required" => NeedsOf(w.r, fr.name) \subseteq Have(w) \cup rest
       /\ fr.pc = "manager" =>
            ToSet(w.r.pms[fr.manager].requires) \subseteq Have(w) \cup rest

(* What the first call is still to go through. *)
First(st) == IF st = <<>> THEN {} ELSE ToSet(st[1].todo)

Distinct(st) ==
  \A i, j \in DOMAIN st :
    st[i].pc # "loop" /\ st[j].pc # "loop" /\ st[i].name[1] = st[j].name[1] => i = j

(* The calls; rest is what the call that the last one makes is to visit.   *)
CallsTo(w, st, rest) ==
  /\ Sequence(st)
  /\ \A i \in DOMAIN st :
       /\ FrameInv(w, st[i])
       /\ i # Len(st) => /\ st[i].pc \in {"required", "manager"}
                         /\ LinkInv(w, st[i], ToSet(st[i + 1].todo))
       /\ i = Len(st) => LinkInv(w, st[i], rest)
  /\ "simple" \in w.flags => Distinct(st)

Calls(w, st) == CallsTo(w, st, {})

(* The lists. *)
ListRight(w, fs, own) ==
  /\ \A i \in DOMAIN fs :
       /\ KnownIn(w.r, fs[i].name)
       /\ IsOwnOf(w.r, w.os, fs[i].name) <=> own
       /\ \A n \in NeedsOf(w.r, fs[i].name) :
            (IsOwnOf(w.r, w.os, n) <=> own) => \E j \in 1 .. i - 1 : fs[j].name = n
  /\ "simple" \in w.flags => \A i, j \in DOMAIN fs : fs[i].name = fs[j].name => i = j

NamesBefore(fs, i) == {fs[j].name : j \in 1 .. i - 1}

ListsRight(w) ==
  /\ Sequence(w.system) /\ Sequence(w.feats) /\ Sequence(w.managers)
  /\ "known" \in w.flags =>
       /\ ListRight(w, w.system, FALSE) /\ ListRight(w, w.feats, TRUE)
       /\ \A n \in Names(w.feats) : NeedsOf(w.r, n) \subseteq Have(w)
       /\ \A m \in ManagersIn(w) : Ready(w, m, Names(w.system))
       /\ "plain" \in w.flags =>
            \A i \in DOMAIN w.system :
              TasksPossible(w, w.system[i].name, w.system[i].tasks, NamesBefore(w.system, i))

PackagesRight(w) ==
  /\ \A p \in DOMAIN w.packages : \E o \in w.offers : p \in DOMAIN o /\ o[p] = w.packages[p]
  /\ DOMAIN w.r.packages \subseteq DOMAIN w.packages
  /\ "known" \in w.flags => \A n \in Have(w) :
       DOMAIN w.r.features[n[1]].packages \subseteq DOMAIN w.packages

(* The services. *)
PortRight(conf, serv) ==
  LET given == LinesOf(conf.props, conf.key)
  IN  conf.artifact /\ conf.propsName # "" /\ conf.key # <<>> =>
        /\ serv.port >= FirstPort
        /\ serv.monitored \in {0, serv.port}
        /\ \E more \in {0, 1} :
             /\ Len(serv.text) = Len(conf.props) + more
             /\ \A i \in DOMAIN conf.props \ given : serv.text[i + more] = conf.props[i]
        /\ (\A i, j \in given : i = j /\ conf.props[i].key = conf.key) =>
             \E i \in DOMAIN serv.text :
               /\ LinesOf(serv.text, conf.key) = {i}
               /\ serv.text[i] = [key |-> conf.key, value |-> serv.port]

AskedBy(conf) == ToSet(conf.features) \cup ToSet(Builtin) \cup {<<"service", conf.machine>>}

FeatsRight(w, fs) ==
  /\ \A i \in DOMAIN fs : fs[i].name # RunName =>
       \A n \in NeedsOf(w.r, fs[i].name) :
         IsOwnOf(w.r, w.os, n) => \E j \in 1 .. i - 1 : fs[j].name = n
  /\ "simple" \in w.flags =>
       \A i, j \in DOMAIN fs : fs[i].name = fs[j].name => i = j \/ fs[i].name = RunName
  /\ \A n \in Names(fs) \ {RunName} : NeedsOf(w.r, n) \subseteq Names(w.system) \cup Names(fs)

ServiceRight(w, conf, serv) ==
  serv # NoService =>
    /\ PortRight(conf, serv)
    /\ "known" \in w.flags =>
         /\ FeatsRight(w, serv.feats)
         /\ AskedBy(conf) \subseteq Names(w.system) \cup Names(serv.feats)

ServicesRight(w, confs, servs) ==
  /\ \A s \in DOMAIN servs : ServiceRight(w, confs[s], servs[s])
  /\ "known" \in w.flags /\ (\A s \in DOMAIN servs : servs[s] # NoService) =>
       \A n \in Names(w.system) : NeedsOf(w.r, n) \subseteq
         Have(w) \cup UNION {Names(servs[s].feats) : s \in DOMAIN servs}

(* The state. *)
Flags == {x \in {"known", "simple", "plain"} :
            /\ x = "known" => NoneMissing
            /\ x = "simple" => ~Circular
            /\ x = "plain" => Unambiguous}

Net == [f \in DOMAIN input.features |-> MayNeed(f)]

WorldOf(r, flags, need, offers, os, cl, fs) ==
  [r |-> r, flags |-> flags, need |-> need, offers |-> offers, os |-> os,
   system |-> cl.system, managers |-> cl.managers, packages |-> cl.packages,
   feats |-> fs]

InService == at.pc \in {"builtin", "finish"}

World == WorldOf(input, Flags, Net, Offers, Os, cluster, IF InService THEN feats ELSE <<>>)

WorldAt(c) == WorldOf(input, Flags, Net, Offers, OsOf(c), built[c], <<>>)

Confs(c) == input.clusters[c].services

Typed ==
  /\ input \in Inputs
  /\ DOMAIN features = DOMAIN input.features
  /\ \A f \in DOMAIN features : Alike(features[f], input.features[f])
  /\ at = [c |-> at.c, s |-> at.s, pc |-> at.pc]
  /\ at.c \in Nat \ {0} /\ at.pc \in {"cluster", "service", "builtin", "finish"}
  /\ Sequence(built) /\ Len(built) = at.c - 1 /\ at.c <= Len(input.clusters) + 1
  /\ stack # <<>> => InService
  /\ at.pc # "cluster" =>
       /\ at.c <= Len(input.clusters)
       /\ at.s \in Nat \ {0}
       /\ cluster = [managers |-> cluster.managers, packages |-> cluster.packages,
                     system |-> cluster.system, services |-> cluster.services]
       /\ Sequence(cluster.services) /\ Len(cluster.services) = at.s - 1
       /\ at.s <= Len(Confs(at.c)) + 1
  /\ InService => at.s <= Len(Confs(at.c))

Going ==
  /\ ListsRight(World) /\ PackagesRight(World)
  /\ ServicesRight(World, Confs(at.c), cluster.services)
  /\ Calls(World, stack)
  /\ InService /\ "known" \in Flags =>
       (IF at.pc = "builtin" THEN ToSet(Serv.features) ELSE AskedBy(Serv))
         \subseteq Have(World) \cup First(stack)

BuiltRight ==
  \A c \in DOMAIN built :
    /\ ListsRight(WorldAt(c))
    /\ ServicesRight(WorldAt(c), Confs(c), built[c].services)
    /\ Len(built[c].services) = Len(Confs(c))

FInv ==
  /\ Typed
  /\ result = "" /\ at.pc # "cluster" => Going
  /\ BuiltRight
  /\ ResultRight

-----------------------------------------------------------------------------
(* What is collected grows.                                                *)

Longer(s, t) ==
  /\ Sequence(s) /\ Sequence(t) /\ Len(s) <= Len(t)
  /\ \A i \in DOMAIN s : t[i] = s[i]

Grows(w, v) ==
  /\ v.r = w.r /\ v.flags = w.flags /\ v.need = w.need /\ v.offers = w.offers
  /\ v.os = w.os
  /\ "known" \in w.flags =>
       Longer(w.system, v.system) /\ Longer(w.feats, v.feats) /\ Longer(w.managers, v.managers)
  /\ DOMAIN w.packages \subseteq DOMAIN v.packages
  /\ "plain" \in w.flags => \A p \in DOMAIN w.packages : v.packages[p] = w.packages[p]

LEMMA NamesGrow ==
  ASSUME NEW s, NEW t, Longer(s, t)
  PROVE  Names(s) \subseteq Names(t) /\ ToSet(s) \subseteq ToSet(t)
<1>1. \A i \in DOMAIN s : i \in DOMAIN t /\ t[i] = s[i]
  BY SeqFacts DEF Longer
<1>2. QED
  BY <1>1 DEF Names, ToSet

LEMMA HaveGrows ==
  ASSUME NEW w, NEW v, Grows(w, v), "known" \in w.flags
  PROVE  /\ Have(w) \subseteq Have(v)
         /\ Names(w.system) \subseteq Names(v.system)
         /\ ManagersIn(w) \subseteq ManagersIn(v)
BY NamesGrow DEF Grows, Have, ManagersIn

LEMMA CanGrows ==
  ASSUME NEW w, NEW v, NEW t, NEW some, NEW more, Grows(w, v), "known" \in w.flags,
         some \subseteq more, Can(w, t, some)
  PROVE  Can(v, t, more)
<1>1. v.r = w.r /\ v.os = w.os /\ ManagersIn(w) \subseteq ManagersIn(v)
  BY HaveGrows DEF Grows
<1>2. \A m : Ready(w, m, some) => Ready(v, m, more)
  BY <1>1 DEF Ready
<1>3. QED
  BY <1>1, <1>2 DEF Can

LEMMA PossibleGrows ==
  ASSUME NEW w, NEW v, NEW name, NEW tasks, NEW some, NEW more, Grows(w, v),
         "known" \in w.flags, some \subseteq more, TasksPossible(w, name, tasks, some)
  PROVE  TasksPossible(v, name, tasks, more)
<1>1. v.r = w.r /\ v.os = w.os
  BY DEF Grows
<1>2. QED
  BY <1>1, CanGrows DEF TasksPossible

LEMMA FrameGrows ==
  ASSUME NEW w, NEW v, NEW fr, Grows(w, v), FrameInv(w, fr),
         "known" \in w.flags /\ "simple" \in w.flags /\ fr.pc \in {"tasks", "manager"} =>
           fr.name \notin Names(ListIn(v, fr.own))
  PROVE  FrameInv(v, fr)
<1>1. v.r = w.r /\ v.os = w.os /\ v.flags = w.flags /\ v.offers = w.offers
  BY DEF Grows
<1>2. /\ FrameTyped(fr)
      /\ fr.pc # "loop" => FrameAt(v, fr)
      /\ fr.pc \in {"tasks", "manager"} => Len(fr.tasks) <= Len(TasksFor(fr.feat, v.os))
  BY <1>1 DEF FrameInv, FrameTyped, FrameAt
<1>3. fr.pc = "manager" => FrameManager(v, fr)
  BY <1>1 DEF FrameInv, FrameManager, Grows
<1>4. ASSUME "known" \in w.flags PROVE FrameKnown(v, fr)
  <2>1. FrameKnown(w, fr)
    BY <1>4 DEF FrameInv
  <2>2. Longer(w.system, v.system) /\ Longer(w.feats, v.feats)
    BY <1>4 DEF Grows
  <2>3. Have(w) \subseteq Have(v) /\ Names(w.system) \subseteq Names(v.system)
    BY <1>4, HaveGrows
  <2>4. ASSUME fr.pc # "loop"
        PROVE  /\ fr.org <= Len(ListIn(v, fr.own))
               /\ \A k \in 1 .. fr.org : ListIn(v, fr.own)[k].name # fr.name
    <3>1. fr.org \in Nat /\ Longer(ListIn(w, fr.own), ListIn(v, fr.own))
      BY <2>2, <2>4 DEF FrameInv, FrameAt, ListIn
    <3>2. /\ fr.org <= Len(ListIn(w, fr.own))
          /\ \A k \in 1 .. fr.org : ListIn(w, fr.own)[k].name # fr.name
      BY <2>1, <2>4 DEF FrameKnown
    <3> DEFINE l == ListIn(w, fr.own)
               m == ListIn(v, fr.own)
    <3> HIDE DEF l, m
    <3>3. Len(l) \in Nat /\ DOMAIN l = 1 .. Len(l) /\ Len(m) \in Nat /\ Len(l) <= Len(m)
      BY <3>1, SeqFacts DEF Longer, l, m
    <3>4. \A k \in 1 .. fr.org : k \in DOMAIN l /\ m[k] = l[k]
      BY <3>1, <3>2, <3>3 DEF Longer, l, m
    <3>5. QED
      BY <3>1, <3>2, <3>3, <3>4 DEF l, m
  <2>5. "plain" \in w.flags /\ fr.pc \in {"tasks", "manager"} =>
          TasksPossible(v, fr.name, fr.tasks, Names(v.system))
    BY <1>4, <2>1, <2>3, PossibleGrows DEF FrameKnown
  <2>6. QED
    BY <1>1, <1>4, <2>1, <2>3, <2>4, <2>5 DEF FrameKnown
<1>5. QED
  BY <1>1, <1>2, <1>3, <1>4 DEF FrameInv

LEMMA LinkGrows ==
  ASSUME NEW w, NEW v, NEW fr, NEW rest, NEW more, Grows(w, v), LinkInv(w, fr, rest),
         more \subseteq rest, "known" \in w.flags => rest \subseteq more \cup Have(v)
  PROVE  LinkInv(v, fr, more)
<1>1. v.r = w.r /\ v.flags = w.flags /\ v.need = w.need
  BY DEF Grows
<1>2. "known" \in w.flags => Have(w) \subseteq Have(v)
  BY HaveGrows
<1>3. QED
  BY <1>1, <1>2 DEF LinkInv

LEMMA GrowsItself ==
  ASSUME NEW w, ListsRight(w)
  PROVE  Grows(w, w)
<1>1. Longer(w.system, w.system) /\ Longer(w.feats, w.feats) /\ Longer(w.managers, w.managers)
  BY SeqFacts DEF ListsRight, Longer
<1>2. QED
  BY <1>1 DEF Grows

-----------------------------------------------------------------------------
(* The stack of calls.                                                     *)

(* The last call goes on. *)
LEMMA Swapped ==
  ASSUME NEW w, NEW v, NEW st, NEW old, NEW g, NEW rest,
         CallsTo(w, st, old), st # <<>>, Grows(w, v),
         FrameInv(v, g), LinkInv(v, g, rest),
         ToSet(g.todo) \subseteq ToSet(Last(st).todo),
         "known" \in w.flags => ToSet(Last(st).todo) \subseteq ToSet(g.todo) \cup Have(v),
         "simple" \in w.flags => Distinct(Append(Front(st), g)),
         "known" \in w.flags /\ "simple" \in w.flags =>
           \A i \in 1 .. Len(st) - 1 : st[i].pc = "manager" =>
             st[i].name \notin Names(ListIn(v, st[i].own))
  PROVE  /\ CallsTo(v, Append(Front(st), g), rest)
         /\ "known" \in w.flags =>
              First(st) \subseteq First(Append(Front(st), g)) \cup Have(v)
<1> DEFINE t == Append(Front(st), g)
<1>1. /\ Sequence(st) /\ Len(st) \in Nat \ {0} /\ DOMAIN st = 1 .. Len(st)
      /\ Last(st) = st[Len(st)]
  <2>1. Sequence(st)
    BY DEF CallsTo
  <2>2. QED
    BY <2>1, TopFacts, Zenon
<1>2. /\ Sequence(t) /\ Len(t) = Len(st) /\ DOMAIN t = DOMAIN st
      /\ \A i \in 1 .. Len(st) - 1 : t[i] = st[i]
      /\ t[Len(st)] = g /\ t # <<>>
  BY <1>1, Replaced, Zenon
<1> HIDE DEF t
<1>3. v.flags = w.flags
  BY DEF Grows
<1>4. ASSUME NEW i \in DOMAIN t, i # Len(t)
      PROVE  /\ FrameInv(v, t[i]) /\ t[i].pc \in {"required", "manager"}
             /\ LinkInv(v, t[i], ToSet(t[i + 1].todo))
  <2>1. /\ i \in 1 .. Len(st) - 1 /\ i \in DOMAIN st /\ i # Len(st) /\ t[i] = st[i]
        /\ i + 1 \in DOMAIN st
    BY <1>1, <1>2, <1>4
  <2>2. /\ FrameInv(w, st[i]) /\ st[i].pc \in {"required", "manager"}
        /\ LinkInv(w, st[i], ToSet(st[i + 1].todo))
    BY <2>1 DEF CallsTo
  <2>3. FrameInv(v, st[i])
    BY <2>1, <2>2, FrameGrows
  <2>4. LinkInv(v, st[i], ToSet(t[i + 1].todo))
    <3>1. CASE i + 1 = Len(st)
      BY <1>1, <1>2, <2>2, <3>1, LinkGrows
    <3>2. CASE i + 1 # Len(st)
      <4>1. t[i + 1] = st[i + 1]
        BY <1>1, <1>2, <2>1, <3>2
      <4>2. QED
        BY <2>2, <4>1, LinkGrows
    <3>3. QED
      BY <3>1, <3>2
  <2>5. QED
    BY <2>1, <2>2, <2>3, <2>4
<1>5. CallsTo(v, t, rest)
  <2>1. \A i \in DOMAIN t : i = Len(t) => FrameInv(v, t[i]) /\ LinkInv(v, t[i], rest)
    BY <1>2
  <2>2. "simple" \in v.flags => Distinct(t)
    BY <1>3 DEF t
  <2>3. QED
    BY <1>2, <1>4, <2>1, <2>2 DEF CallsTo
<1>6. ASSUME "known" \in w.flags PROVE First(st) \subseteq First(t) \cup Have(v)
  <2>1. CASE Len(st) = 1
    BY <1>1, <1>2, <1>6, <2>1 DEF First
  <2>2. CASE Len(st) # 1
    <3>1. t[1] = st[1]
      BY <1>1, <1>2, <2>2
    <3>2. QED
      BY <1>2, <3>1 DEF First
  <2>3. QED
    BY <2>1, <2>2
<1>7. QED
  BY <1>5, <1>6 DEF t

(* It makes another call. *)
LEMMA Pushed ==
  ASSUME NEW w, NEW st, NEW names, CallsTo(w, st, ToSet(names)), st # <<>>,
         Last(st).pc \in {"required", "manager"}, Sequence(names),
         "known" \in w.flags => \A n \in ToSet(names) : KnownIn(w.r, n)
  PROVE  /\ Calls(w, Append(st, Frame(names)))
         /\ First(Append(st, Frame(names))) = First(st)
<1> DEFINE t == Append(st, Frame(names))
<1>1. /\ Sequence(st) /\ Len(st) \in Nat \ {0} /\ DOMAIN st = 1 .. Len(st)
      /\ Last(st) = st[Len(st)]
  <2>1. Sequence(st)
    BY DEF CallsTo
  <2>2. QED
    BY <2>1, TopFacts, Zenon
<1>2. /\ Sequence(t) /\ Len(t) = Len(st) + 1 /\ DOMAIN t = 1 .. Len(st) + 1
      /\ \A i \in DOMAIN st : t[i] = st[i]
      /\ t[Len(st) + 1] = Frame(names) /\ t # <<>>
  <2>1. /\ Sequence(t) /\ Len(t) = Len(st) + 1
        /\ \A i \in DOMAIN st : t[i] = st[i]
        /\ t[Len(st) + 1] = Frame(names)
    BY <1>1, Appended
  <2>2. QED
    BY <1>1, <2>1, SeqFacts
<1> HIDE DEF t
<1>3. Frame(names).pc = "loop" /\ Frame(names).todo = names
  BY DEF Frame
<1>4. FrameInv(w, Frame(names)) /\ LinkInv(w, Frame(names), {})
  BY EmptySequence DEF FrameInv, FrameTyped, FrameKnown, LinkInv, Frame
<1>5. ASSUME NEW i \in DOMAIN t, i # Len(t)
      PROVE  /\ FrameInv(w, t[i]) /\ t[i].pc \in {"required", "manager"}
             /\ LinkInv(w, t[i], ToSet(t[i + 1].todo))
  <2>1. i \in DOMAIN st /\ t[i] = st[i]
    BY <1>1, <1>2, <1>5
  <2>2. CASE i = Len(st)
    <3>1. t[i + 1].todo = names
      BY <1>2, <1>3, <2>2
    <3>2. QED
      BY <1>1, <2>1, <2>2, <3>1 DEF CallsTo
  <2>3. CASE i # Len(st)
    <3>1. t[i + 1] = st[i + 1]
      BY <1>1, <1>2, <2>1, <2>3
    <3>2. QED
      BY <2>1, <2>3, <3>1 DEF CallsTo
  <2>4. QED
    BY <2>2, <2>3
<1>6. ASSUME "simple" \in w.flags PROVE Distinct(t)
  <2>1. Distinct(st)
    BY <1>6 DEF CallsTo
  <2>2. \A i \in DOMAIN t : t[i].pc # "loop" => i \in DOMAIN st /\ t[i] = st[i]
    BY <1>1, <1>2, <1>3
  <2>3. QED
    BY <2>1, <2>2 DEF Distinct
<1>7. Calls(w, t)
  <2>1. \A i \in DOMAIN t : i = Len(t) => FrameInv(w, t[i]) /\ LinkInv(w, t[i], {})
    BY <1>2, <1>4
  <2>2. QED
    BY <1>2, <1>5, <1>6, <2>1 DEF Calls, CallsTo
<1>8. First(t) = First(st)
  BY <1>1, <1>2 DEF First
<1>9. QED
  BY <1>7, <1>8 DEF t

(* It returns. *)
LEMMA Popped ==
  ASSUME NEW w, NEW v, NEW st, Calls(w, st), st # <<>>, Grows(w, v),
         "known" \in w.flags => w = v /\ ToSet(Last(st).todo) \subseteq Have(v)
  PROVE  /\ Calls(v, Front(st))
         /\ "known" \in w.flags => First(st) \subseteq First(Front(st)) \cup Have(v)
<1> DEFINE t == Front(st)
<1>1. /\ Sequence(st) /\ Len(st) \in Nat \ {0} /\ DOMAIN st = 1 .. Len(st)
      /\ Last(st) = st[Len(st)]
  <2>1. Sequence(st)
    BY DEF Calls, CallsTo
  <2>2. QED
    BY <2>1, TopFacts, Zenon
<1>2. /\ Sequence(t) /\ Len(t) = Len(st) - 1 /\ DOMAIN t = 1 .. Len(st) - 1
      /\ \A i \in 1 .. Len(st) - 1 : t[i] = st[i]
      /\ t = <<>> <=> Len(st) = 1
  BY <1>1, BelowFacts, Zenon
<1> HIDE DEF t
<1>3. v.flags = w.flags
  BY DEF Grows
<1>4. ASSUME NEW i \in DOMAIN t
      PROVE  /\ FrameInv(v, t[i])
             /\ t[i].pc \in {"required", "manager"}
             /\ LinkInv(w, t[i], ToSet(st[i + 1].todo))
             /\ t[i] = st[i] /\ i + 1 \in DOMAIN st
  <2>1. i \in DOMAIN st /\ i # Len(st) /\ t[i] = st[i] /\ i + 1 \in DOMAIN st
    BY <1>1, <1>2
  <2>2. FrameInv(w, st[i]) /\ st[i].pc \in {"required", "manager"}
        /\ LinkInv(w, st[i], ToSet(st[i + 1].todo))
    BY <2>1 DEF Calls, CallsTo
  <2>3. FrameInv(v, st[i])
    <3>1. CASE "known" \in w.flags
      BY <2>2, <3>1
    <3>2. CASE "known" \notin w.flags
      BY <2>2, <3>2, FrameGrows
    <3>3. QED
      BY <3>1, <3>2
  <2>4. QED
    BY <2>1, <2>2, <2>3
<1>5. Calls(v, t)
  <2>1. ASSUME NEW i \in DOMAIN t, i # Len(t) PROVE LinkInv(v, t[i], ToSet(t[i + 1].todo))
    <3>1. t[i + 1] = st[i + 1]
      BY <1>1, <1>2, <2>1
    <3>2. QED
      BY <1>4, <3>1, LinkGrows
  <2>2. ASSUME NEW i \in DOMAIN t, i = Len(t) PROVE LinkInv(v, t[i], {})
    <3>1. i + 1 = Len(st)
      BY <1>1, <1>2, <2>2
    <3>2. QED
      BY <1>1, <1>4, <3>1, LinkGrows
  <2>3. "simple" \in v.flags => Distinct(t)
    <3>1. "simple" \in w.flags => Distinct(st)
      BY DEF Calls, CallsTo
    <3>2. \A i \in DOMAIN t : i \in DOMAIN st /\ t[i] = st[i]
      BY <1>1, <1>2
    <3>3. QED
      BY <1>3, <3>1, <3>2 DEF Distinct
  <2>4. QED
    BY <1>2, <1>4, <2>1, <2>2, <2>3 DEF Calls, CallsTo
<1>6. ASSUME "known" \in w.flags PROVE First(st) \subseteq First(t) \cup Have(v)
  <2>1. CASE Len(st) = 1
    BY <1>1, <1>6, <2>1 DEF First
  <2>2. CASE Len(st) # 1
    BY <1>1, <1>2, <2>2 DEF First
  <2>3. QED
    BY <2>1, <2>2
<1>7. QED
  BY <1>5, <1>6 DEF t

LEMMA DistinctKept ==
  ASSUME NEW st, NEW g, Sequence(st), st # <<>>, Distinct(st),
         \/ g.pc = "loop"
         \/ Last(st).pc # "loop" /\ g.name = Last(st).name
         \/ \A i \in 1 .. Len(st) - 1 : st[i].name[1] # g.name[1]
  PROVE  Distinct(Append(Front(st), g))
<1> DEFINE t == Append(Front(st), g)
<1>1. Len(st) \in Nat \ {0} /\ DOMAIN st = 1 .. Len(st) /\ Last(st) = st[Len(st)]
  BY SeqFacts, FrontFacts
<1>2. /\ DOMAIN t = DOMAIN st /\ t[Len(st)] = g
      /\ \A i \in 1 .. Len(st) - 1 : t[i] = st[i]
  BY Replaced
<1> HIDE DEF t
<1>3. \A i \in DOMAIN t : i = Len(st) \/ (i \in 1 .. Len(st) - 1 /\ t[i] = st[i])
  BY <1>1, <1>2
<1>4. ASSUME NEW i \in DOMAIN t, NEW j \in DOMAIN t, t[i].pc # "loop", t[j].pc # "loop",
             t[i].name[1] = t[j].name[1]
      PROVE  i = j
  <2>1. CASE i = Len(st) /\ j = Len(st)
    BY <2>1
  <2>2. CASE i # Len(st) /\ j # Len(st)
    BY <1>2, <1>3, <1>4, <2>2 DEF Distinct
  <2>3. CASE i = Len(st) /\ j # Len(st)
    BY <1>1, <1>2, <1>3, <1>4, <2>3 DEF Distinct
  <2>4. CASE i # Len(st) /\ j = Len(st)
    BY <1>1, <1>2, <1>3, <1>4, <2>4 DEF Distinct
  <2>5. QED
    BY <2>1, <2>2, <2>3, <2>4
<1>5. QED
  BY <1>4 DEF Distinct, t

(* Calls that are at different features are no more than there are.        *)
LEMMA DepthBound ==
  ASSUME NEW w, NEW st, NEW rest, CallsTo(w, st, rest), st # <<>>, Distinct(st),
         Last(st).pc # "loop", IsFiniteSet(DOMAIN w.r.features)
  PROVE  Len(st) <= Cardinality(DOMAIN w.r.features)
<1> DEFINE S == 1 .. Len(st)
           T == DOMAIN w.r.features
           f == [i \in S |-> st[i].name[1]]
<1>1. Len(st) \in Nat \ {0} /\ DOMAIN st = S /\ Last(st) = st[Len(st)]
  BY SeqFacts, FrontFacts DEF CallsTo
<1>2. \A i \in S : st[i].pc # "loop"
  BY <1>1 DEF CallsTo
<1>3. \A i \in S : st[i].name[1] \in T
  BY <1>1, <1>2 DEF CallsTo, FrameInv, FrameAt, KnownIn
<1>4. \A i, j \in S : st[i].name[1] = st[j].name[1] => i = j
  BY <1>1, <1>2 DEF Distinct
<1>5. IsFiniteSet(S) /\ Cardinality(S) = Len(st)
  BY <1>1, FS_Interval
<1>6. IsFiniteSet(T) /\ Cardinality(T) \in Nat
  BY FS_CardinalityType
<1>7. f \in [S -> T]
  BY <1>3
<1>8. \A i, j \in S : i # j => f[i] # f[j]
  BY <1>4
<1> HIDE DEF S, T, f
<1>9. ~(Cardinality(T) < Cardinality(S))
  BY <1>5, <1>6, <1>7, <1>8, FS_PigeonHole
<1>10. QED
  BY <1>1, <1>5, <1>6, <1>9 DEF T

(* A call that comes to a feature another call is at has gone in a circle. *)
LEMMA RingMade ==
  ASSUME NEW w, NEW st, Calls(w, st), st # <<>>, w.need = Net, w.r = input,
         Last(st).todo # <<>>, KnownIn(w.r, Head(Last(st).todo)),
         NEW j \in 1 .. Len(st) - 1, st[j].name[1] = Head(Last(st).todo)[1]
  PROVE  Circular
<1> DEFINE ring == {st[i].name[1] : i \in j .. Len(st) - 1}
           n == Head(Last(st).todo)
<1>1. Len(st) \in Nat \ {0} /\ DOMAIN st = 1 .. Len(st) /\ Last(st) = st[Len(st)]
  BY SeqFacts, FrontFacts DEF Calls, CallsTo
<1>2. ASSUME NEW i \in 1 .. Len(st) - 1
      PROVE  /\ FrameAt(w, st[i]) /\ LinkInv(w, st[i], ToSet(st[i + 1].todo))
             /\ i \in DOMAIN st /\ i + 1 \in DOMAIN st
  <2>1. i \in DOMAIN st /\ i # Len(st) /\ i + 1 \in DOMAIN st
    <3> DEFINE k == Len(st)
    <3>1. k \in Nat \ {0} /\ DOMAIN st = 1 .. k /\ i \in 1 .. k - 1
      BY <1>1
    <3> HIDE DEF k
    <3>2. i \in 1 .. k /\ i # k /\ i + 1 \in 1 .. k
      BY <3>1
    <3>3. QED
      BY <3>1, <3>2 DEF k
  <2>2. QED
    BY <2>1 DEF Calls, CallsTo, FrameInv
<1>3. \A i \in 1 .. Len(st) - 1 : st[i].name[1] \in DOMAIN input.features
  BY <1>2 DEF FrameAt, KnownIn
<1>4. \A i \in 1 .. Len(st) - 1 : \A m \in ToSet(st[i + 1].todo) :
        m[1] \in DOMAIN input.features => m[1] \in MayNeed(st[i].name[1])
  BY <1>2, <1>3 DEF LinkInv, Net, KnownIn
<1>5. ASSUME NEW i \in j .. Len(st) - 1
      PROVE  MayNeed(st[i].name[1]) \cap ring # {}
  <2>1. i \in 1 .. Len(st) - 1
    BY <1>1
  <2>2. CASE i = Len(st) - 1
    <3>1. i + 1 = Len(st)
      BY <1>1, <2>2
    <3>2. n \in ToSet(st[i + 1].todo)
      <4>1. Sequence(Last(st).todo)
        BY <1>1 DEF Calls, CallsTo, FrameInv, FrameTyped
      <4>2. QED
        BY <1>1, <3>1, <4>1, TailFacts
    <3>3. n[1] \in MayNeed(st[i].name[1])
      BY <1>4, <2>1, <3>2, Zenon DEF KnownIn
    <3>4. st[j].name[1] \in ring
      BY <1>1
    <3>5. QED
      BY <3>3, <3>4
  <2>3. CASE i # Len(st) - 1
    <3>1. i + 1 \in j .. Len(st) - 1 /\ i + 1 \in 1 .. Len(st) - 1 /\ i + 1 \in DOMAIN st
      <4> DEFINE k == Len(st)
      <4>1. k \in Nat \ {0} /\ j \in 1 .. k - 1 /\ i \in j .. k - 1 /\ i # k - 1
            /\ DOMAIN st = 1 .. k
        BY <1>1, <2>3, Zenon
      <4> HIDE DEF k
      <4>2. i + 1 \in j .. k - 1 /\ i + 1 \in 1 .. k - 1 /\ i + 1 \in 1 .. k
        BY <4>1
      <4>3. i + 1 \in DOMAIN st
        BY <4>1, <4>2, Zenon
      <4>4. QED
        BY <4>2, <4>3, Zenon DEF k
    <3>2. st[i + 1].name \in ToSet(st[i + 1].todo)
      <4>1. st[i + 1].name = Head(st[i + 1].todo) /\ st[i + 1].todo # <<>>
        BY <1>2, <3>1 DEF FrameAt
      <4>2. Sequence(st[i + 1].todo)
        BY <3>1 DEF Calls, CallsTo, FrameInv, FrameTyped
      <4>3. QED
        BY <4>1, <4>2, TailFacts
    <3>3. st[i + 1].name[1] \in MayNeed(st[i].name[1])
      BY <1>3, <1>4, <2>1, <3>1, <3>2
    <3>4. st[i + 1].name[1] \in ring
      BY <3>1
    <3> HIDE DEF ring
    <3>5. st[i + 1].name[1] \in MayNeed(st[i].name[1]) \cap ring
      BY <3>3, <3>4
    <3>6. QED
      BY <3>5, Zenon
  <2>4. QED
    BY <2>2, <2>3
<1>6. ring \in SUBSET DOMAIN input.features /\ st[j].name[1] \in ring
  BY <1>1, <1>3
<1>7. \A f \in ring : MayNeed(f) \cap ring # {}
  BY <1>5
<1> HIDE DEF ring
<1>8. QED
  BY <1>6, <1>7 DEF Circular

-----------------------------------------------------------------------------
(* Facts about the configuration.                                          *)

LEMMA FirstSame == \A managers : FirstKnown(managers) = FirstIn(input, managers)
BY DEF FirstKnown, FirstIn

LEMMA MayNeedRequired ==
  ASSUME NEW f \in DOMAIN input.features,
         NEW n \in ToSet(input.features[f].requires), n[1] \in DOMAIN input.features
  PROVE  n[1] \in MayNeed(f)
BY Zenon DEF MayNeed

(* What a manager requires, of a package that a task of f installs. *)
LEMMA MayNeedManager ==
  ASSUME NEW f \in DOMAIN input.features, NEW os,
         NEW i \in DOMAIN TasksFor(input.features[f], os),
         TasksFor(input.features[f], os)[i].type = "install",
         NEW m \in ManagersFor(TasksFor(input.features[f], os)[i].package),
         NEW n \in ToSet(input.pms[m].requires), n[1] \in DOMAIN input.features
  PROVE  n[1] \in MayNeed(f)
<1> DEFINE feature  == input.features[f]
           tasks    == UNION {ToSet(ts) : ts \in {feature.tasks} \cup Range(feature.custom)}
           managers == UNION {ManagersFor(t.package) : t \in {u \in tasks : u.type = "install"}}
           t        == TasksFor(feature, os)[i]
<1>1. t \in tasks
  <2>1. t \in ToSet(TasksFor(feature, os))
    BY DEF ToSet
  <2>2. TasksFor(feature, os) \in {feature.tasks} \cup Range(feature.custom)
    BY DEF TasksFor, Range
  <2>3. QED
    BY <2>1, <2>2
<1>2. m \in managers
  <2> HIDE DEF tasks
  <2>1. t \in {u \in tasks : u.type = "install"}
    BY <1>1
  <2>2. QED
    BY <2>1
<1>3. n \in ToSet(feature.requires) \cup UNION {ToSet(input.pms[p].requires) : p \in managers}
  <2> HIDE DEF managers
  <2>1. QED
    BY <1>2
<1>4. MayNeed(f) = {k[1] : k \in ToSet(feature.requires)
                             \cup UNION {ToSet(input.pms[p].requires) : p \in managers}}
                     \cap DOMAIN input.features
  BY DEF MayNeed
<1> HIDE DEF managers, feature
<1>5. QED
  BY <1>3, <1>4

LEMMA OffersOf ==
  ASSUME NEW package, NEW o \in Offers, package \in DOMAIN o,
         NEW m \in ToSet(o[package]), m \in DOMAIN input.pms
  PROVE  m \in ManagersFor(package)
<1>1. o \in {q \in Offers : package \in DOMAIN q}
  OBVIOUS
<1>2. QED
  BY <1>1 DEF ManagersFor

LEMMA OfferedBy == \A f \in DOMAIN input.features : input.features[f].packages \in Offers
BY DEF Offers, Range

LEMMA OfferedFirst == input.packages \in Offers
BY DEF Offers

LEMMA FlagFacts ==
  /\ "known" \in Flags <=> NoneMissing
  /\ "simple" \in Flags <=> ~Circular
  /\ "plain" \in Flags <=> Unambiguous
BY DEF Flags

-----------------------------------------------------------------------------
(* What a step of featureToFeature starts from.                            *)

LEMMA SameConfig ==
  ASSUME UNCHANGED input
  PROVE  Net' = Net /\ Flags' = Flags /\ Offers' = Offers
<1>1. Offers' = Offers
  BY DEF Offers
<1>2. \A p : ManagersFor(p)' = ManagersFor(p)
  BY <1>1 DEF ManagersFor
<1>3. \A f : MayNeed(f)' = MayNeed(f)
  BY <1>2 DEF MayNeed
<1>4. NoneMissing' <=> NoneMissing
  BY DEF NoneMissing, Needs, ConfOf
<1>5. Circular' <=> Circular
  BY <1>3 DEF Circular
<1>6. Unambiguous' <=> Unambiguous
  BY <1>1 DEF Unambiguous
<1>7. QED
  BY <1>1, <1>3, <1>4, <1>5, <1>6 DEF Net, Flags

LEMMA WorldFacts ==
  /\ World.r = input /\ World.flags = Flags /\ World.need = Net /\ World.offers = Offers
  /\ World.os = Os /\ World.system = cluster.system /\ World.managers = cluster.managers
  /\ World.packages = cluster.packages
  /\ World.feats = IF InService THEN feats ELSE <<>>
BY DEF World, WorldOf

LEMMA ConfigFacts ==
  ASSUME Typed
  PROVE  /\ IsFiniteSet(DOMAIN input.features)
         /\ Cardinality(DOMAIN input.features) < MaxDepth /\ MaxDepth \in Nat
         /\ \A f \in DOMAIN input.features : IsFeature(input.features[f])
         /\ \A m \in DOMAIN input.pms : Sequence(input.pms[m].requires)
         /\ \A o \in DOMAIN input.os : Sequence(input.os[o])
         /\ Sequence(Builtin)
         /\ Sequence(input.clusters)
         /\ \A c \in DOMAIN input.clusters :
              /\ Sequence(Confs(c))
              /\ \A s \in DOMAIN Confs(c) : IsService(Confs(c)[s])
BY FeaturesAssumption, ListSequence DEF Typed, Confs

LEMMA AtCall ==
  ASSUME FInv, result = "", stack # <<>>
  PROVE  /\ Going /\ Typed /\ InService /\ at.pc # "cluster"
         /\ Calls(World, stack) /\ ListsRight(World) /\ PackagesRight(World)
         /\ FrameInv(World, Top) /\ LinkInv(World, Top, {})
         /\ Sequence(stack) /\ Top = stack[Len(stack)]
         /\ Grows(World, World)
         /\ World.feats = feats
         /\ \A own \in BOOLEAN : ListIn(World, own) = List(own)
<1>1. Typed /\ InService /\ at.pc # "cluster"
  BY DEF FInv, Typed, InService
<1>2. Going /\ Calls(World, stack) /\ ListsRight(World) /\ PackagesRight(World)
  BY <1>1 DEF FInv, Going
<1>3. Sequence(stack) /\ Top = stack[Len(stack)] /\ Len(stack) \in DOMAIN stack
  BY <1>2, FrontFacts DEF Calls, CallsTo, Top
<1>4. FrameInv(World, Top) /\ LinkInv(World, Top, {})
  BY <1>2, <1>3 DEF Calls, CallsTo
<1>5. World.feats = feats /\ World.system = cluster.system
  BY <1>1, WorldFacts
<1>6. \A own \in BOOLEAN : ListIn(World, own) = List(own)
  BY <1>5 DEF ListIn, List
<1>7. QED
  BY <1>1, <1>2, <1>3, <1>4, <1>5, <1>6, GrowsItself

(* The calls below the last one do not make a feature that is there.       *)
LEMMA LowerFresh ==
  ASSUME NEW w, NEW st, NEW rest, CallsTo(w, st, rest),
         "known" \in w.flags, "simple" \in w.flags,
         NEW i \in 1 .. Len(st) - 1, st[i].pc = "manager"
  PROVE  st[i].name \notin Names(ListIn(w, st[i].own))
<1>1. Len(st) \in Nat /\ DOMAIN st = 1 .. Len(st)
  BY SeqFacts DEF CallsTo
<1>2. i \in DOMAIN st
  BY <1>1
<1>3. FrameInv(w, st[i])
  BY <1>2 DEF CallsTo
<1>4. QED
  BY <1>3 DEF FrameInv, FrameKnown

(* The last call goes on with its next feature.                            *)
LEMMA Skipped ==
  ASSUME NEW w, NEW v, NEW st, Calls(w, st), st # <<>>, Last(st).todo # <<>>, Grows(w, v),
         "known" \in w.flags => Head(Last(st).todo) \in Have(v),
         "known" \in w.flags /\ "simple" \in w.flags =>
           \A i \in 1 .. Len(st) - 1 : st[i].pc = "manager" =>
             st[i].name \notin Names(ListIn(v, st[i].own))
  PROVE  /\ Calls(v, Append(Front(st), Skip(Last(st))))
         /\ "known" \in w.flags =>
              First(st) \subseteq First(Append(Front(st), Skip(Last(st)))) \cup Have(v)
<1> DEFINE g == Skip(Last(st))
<1>1. CallsTo(w, st, {}) /\ Sequence(st) /\ Len(st) \in DOMAIN st /\ Last(st) = st[Len(st)]
  BY FrontFacts DEF Calls, CallsTo
<1>2. FrameInv(w, Last(st)) /\ Sequence(Last(st).todo)
  BY <1>1 DEF CallsTo, FrameInv, FrameTyped
<1>3. /\ Sequence(Tail(Last(st).todo))
      /\ ToSet(Last(st).todo) = {Head(Last(st).todo)} \cup ToSet(Tail(Last(st).todo))
  BY <1>2, TailFacts
<1>4. g.pc = "loop" /\ g.todo = Tail(Last(st).todo)
  BY DEF Skip, Frame
<1>5. v.r = w.r /\ v.flags = w.flags
  BY DEF Grows
<1>6. FrameInv(v, g) /\ LinkInv(v, g, {})
  <2>1. "known" \in v.flags => \A n \in ToSet(g.todo) : KnownIn(v.r, n)
    BY <1>2, <1>3, <1>4, <1>5 DEF FrameInv, FrameKnown
  <2>2. FrameTyped(g)
    BY <1>3, EmptySequence DEF FrameTyped, Skip, Frame
  <2>3. QED
    BY <1>4, <2>1, <2>2 DEF FrameInv, FrameKnown, LinkInv
<1>7. "simple" \in w.flags => Distinct(Append(Front(st), g))
  BY <1>1, <1>4, DistinctKept DEF CallsTo
<1> HIDE DEF g
<1>8. QED
  BY <1>1, <1>3, <1>4, <1>6, <1>7, Swapped DEF Calls, g

(* A call that goes on at the same feature, or at one that no other call   *)
(* is at.                                                                  *)
LEMMA WentOn ==
  ASSUME NEW w, NEW st, NEW g, NEW rest, Calls(w, st), st # <<>>, ListsRight(w),
         FrameInv(w, g), LinkInv(w, g, rest), g.todo = Last(st).todo,
         "simple" \in w.flags =>
           \/ Last(st).pc # "loop" /\ g.name = Last(st).name
           \/ \A i \in 1 .. Len(st) - 1 : st[i].name[1] # g.name[1]
  PROVE  /\ CallsTo(w, Append(Front(st), g), rest)
         /\ "known" \in w.flags => First(st) \subseteq First(Append(Front(st), g)) \cup Have(w)
<1>1. CallsTo(w, st, {}) /\ Sequence(st)
  BY DEF Calls, CallsTo
<1>2. "simple" \in w.flags => Distinct(Append(Front(st), g))
  BY <1>1, DistinctKept DEF CallsTo
<1>3. QED
  BY <1>1, <1>2, Swapped, LowerFresh, GrowsItself

(* Enter adds a call, or there are more calls than features.               *)
LEMMA Entered ==
  ASSUME NEW w, NEW st, NEW names, CallsTo(w, st, ToSet(names)), st # <<>>,
         Last(st).pc \in {"required", "manager"}, Sequence(names),
         "known" \in w.flags => \A n \in ToSet(names) : KnownIn(w.r, n),
         IsFiniteSet(DOMAIN w.r.features), Cardinality(DOMAIN w.r.features) < MaxDepth,
         MaxDepth \in Nat, Enter(st, names)
  PROVE  \/ Calls(w, stack') /\ First(stack') = First(st) /\ result' = result /\ stack' # <<>>
         \/ stack' = st /\ result' = "overflow" /\ "simple" \notin w.flags
<1>1. Sequence(st) /\ Len(st) \in Nat
  BY SeqFacts DEF CallsTo
<1>2. CASE Len(st) < MaxDepth
  <2>1. stack' = Append(st, Frame(names)) /\ result' = result
    BY <1>2 DEF Enter
  <2>2. Append(st, Frame(names)) # <<>>
    <3> DEFINE t == Append(st, Frame(names))
    <3>1. Sequence(t) /\ Len(t) = Len(st) + 1
      BY <1>1, Appended
    <3> HIDE DEF t
    <3>2. Len(t) # 0
      BY <1>1, <3>1
    <3>3. t # <<>>
      BY <3>1, <3>2, SeqFacts
    <3>4. QED
      BY <3>3 DEF t
  <2>3. QED
    BY <2>1, <2>2, Pushed
<1>3. CASE ~(Len(st) < MaxDepth)
  <2>1. stack' = st /\ result' = "overflow"
    BY <1>3 DEF Enter
  <2>2. "simple" \notin w.flags
    <3>1. SUFFICES ASSUME "simple" \in w.flags PROVE FALSE
      OBVIOUS
    <3>2. Distinct(st)
      BY <3>1 DEF CallsTo
    <3>3. Len(st) <= Cardinality(DOMAIN w.r.features)
      BY <3>2, DepthBound
    <3>4. Cardinality(DOMAIN w.r.features) \in Nat
      BY FS_CardinalityType
    <3>5. QED
      BY <1>1, <1>3, <3>3, <3>4
  <2>3. QED
    BY <2>1, <2>2
<1>4. QED
  BY <1>2, <1>3

-----------------------------------------------------------------------------
(* What a step of featureToFeature leaves behind.                          *)

LEMMA BuiltSame ==
  ASSUME UNCHANGED <<input, built>>, BuiltRight
  PROVE  BuiltRight'
<1>1. Flags' = Flags /\ Net' = Net /\ Offers' = Offers
  BY SameConfig
<1>2. \A c : WorldAt(c)' = WorldAt(c)
  BY <1>1 DEF WorldAt, OsOf
<1>3. \A c : Confs(c)' = Confs(c)
  BY DEF Confs
<1>4. QED
  BY <1>2, <1>3 DEF BuiltRight

LEMMA NextWorld ==
  ASSUME UNCHANGED <<input, at>>
  PROVE  /\ World'.r = World.r /\ World'.flags = World.flags /\ World'.need = World.need
         /\ World'.offers = World.offers /\ World'.os = World.os
         /\ World'.system = cluster'.system /\ World'.managers = cluster'.managers
         /\ World'.packages = cluster'.packages
         /\ World'.feats = IF InService THEN feats' ELSE <<>>
<1>1. Flags' = Flags /\ Net' = Net /\ Offers' = Offers
  BY SameConfig
<1>2. Os' = Os
  BY DEF Os
<1>3. QED
  BY <1>1, <1>2 DEF World, WorldOf, InService

LEMMA SameWorld ==
  ASSUME UNCHANGED <<input, at, cluster, feats>>
  PROVE  World' = World
<1>1. Flags' = Flags /\ Net' = Net /\ Offers' = Offers
  BY SameConfig
<1>2. QED
  BY <1>1 DEF World, Os, InService

(* The services stay right as the system's list grows. *)
LEMMA ServiceStays ==
  ASSUME NEW w, NEW v, NEW conf, NEW serv, ServiceRight(w, conf, serv),
         v.r = w.r, v.os = w.os, v.flags = w.flags,
         "known" \in w.flags => Names(w.system) \subseteq Names(v.system)
  PROVE  ServiceRight(v, conf, serv)
BY DEF ServiceRight, FeatsRight

LEMMA ServicesStay ==
  ASSUME NEW w, NEW v, NEW confs, NEW servs, ServicesRight(w, confs, servs),
         v.r = w.r, v.os = w.os, v.flags = w.flags,
         "known" \in w.flags =>
           /\ Names(w.system) \subseteq Names(v.system) /\ Have(w) \subseteq Have(v)
           /\ \A n \in Names(v.system) \ Names(w.system) : NeedsOf(w.r, n) \subseteq Have(v)
  PROVE  ServicesRight(v, confs, servs)
<1>1. \A s \in DOMAIN servs : ServiceRight(v, confs[s], servs[s])
  BY ServiceStays DEF ServicesRight
<1>2. ASSUME "known" \in v.flags, \A s \in DOMAIN servs : servs[s] # NoService,
             NEW n \in Names(v.system)
      PROVE  NeedsOf(v.r, n) \subseteq
               Have(v) \cup UNION {Names(servs[s].feats) : s \in DOMAIN servs}
  <2>1. CASE n \in Names(w.system)
    BY <1>2, <2>1 DEF ServicesRight
  <2>2. CASE n \notin Names(w.system)
    BY <1>2, <2>2
  <2>3. QED
    BY <2>1, <2>2
<1>3. QED
  BY <1>1, <1>2 DEF ServicesRight

LEMMA CallStep ==
  ASSUME FInv, result = "", stack # <<>>, UNCHANGED <<input, at, built, result>>,
         DOMAIN features' = DOMAIN features,
         \A f \in DOMAIN features' : Alike(features'[f], input.features[f]),
         cluster' = [managers |-> cluster'.managers, packages |-> cluster'.packages,
                     system |-> cluster'.system, services |-> cluster'.services],
         cluster'.services = cluster.services,
         "known" \in Flags =>
           /\ Names(cluster.system) \subseteq Names(cluster'.system)
           /\ Have(World) \subseteq Have(World')
           /\ \A n \in Names(cluster'.system) \ Names(cluster.system) :
                NeedsOf(input, n) \subseteq Have(World'),
         ListsRight(World'), PackagesRight(World'), Calls(World', stack'),
         "known" \in Flags => First(stack) \subseteq First(stack') \cup Have(World')
  PROVE  FInv'
<1>1. /\ Going /\ Typed /\ InService /\ at.pc # "cluster"
  BY AtCall
<1>2. BuiltRight'
  BY BuiltSame DEF FInv
<1>3. ResultRight'
  BY DEF ResultRight
<1>5. Typed'
  BY <1>1 DEF Typed, InService, Confs
<1>6. Flags' = Flags
  BY SameConfig
<1>7. ServicesRight(World, Confs(at.c), cluster.services)
  BY <1>1 DEF Going
<1>8. ServicesRight(World', Confs(at.c), cluster.services)
  <2>1. /\ World'.r = World.r /\ World'.flags = World.flags /\ World'.os = World.os
        /\ World'.system = cluster'.system /\ World.system = cluster.system
        /\ World.r = input /\ World.flags = Flags
    BY NextWorld, WorldFacts
  <2>2. QED
    BY <1>7, <2>1, ServicesStay
<1>9. ServicesRight(World', Confs(at.c)', cluster'.services)
  BY <1>8 DEF Confs
<1>10. Serv' = Serv
  BY DEF Serv, Conf
<1>11. Going'
  <2>1. ASSUME InService', "known" \in Flags'
        PROVE  (IF at'.pc = "builtin" THEN ToSet(Serv'.features) ELSE AskedBy(Serv'))
                  \subseteq Have(World') \cup First(stack')
    BY <1>1, <1>6, <1>10, <2>1 DEF Going
  <2>2. QED
    BY <1>9, <2>1 DEF Going
<1>12. QED
  BY <1>2, <1>3, <1>5, <1>11 DEF FInv

(* The attempt ends in a call. *)
LEMMA CallEnds ==
  ASSUME FInv, result = "", stack # <<>>, UNCHANGED <<input, at, built, cluster>>,
         result' \in {"panic", "overflow"},
         result' = "panic" => ~NoneMissing, result' = "overflow" => Circular,
         DOMAIN features' = DOMAIN features,
         \A f \in DOMAIN features' : Alike(features'[f], input.features[f])
  PROVE  FInv'
<1>1. Typed /\ InService
  BY AtCall
<1>2. BuiltRight'
  BY BuiltSame DEF FInv
<1>3. "known" \in Flags' <=> "known" \in Flags
  BY SameConfig
<1>4. ("known" \in Flags)' <=> NoneMissing'
  BY DEF Flags
<1>5. ("simple" \in Flags)' <=> ~Circular'
  BY DEF Flags
<1>6. ResultRight'
  BY <1>4, <1>5, SameConfig, FlagFacts DEF ResultRight
<1>7. Typed'
  BY <1>1 DEF Typed, InService, Confs
<1>8. QED
  BY <1>2, <1>6, <1>7 DEF FInv

-----------------------------------------------------------------------------
(* The steps of featureToFeature.                                          *)

LEMMA HeadKnown ==
  ASSUME NEW w, NEW fr, FrameInv(w, fr), fr.todo # <<>>, "known" \in w.flags
  PROVE  KnownIn(w.r, Head(fr.todo))
<1>1. Head(fr.todo) \in ToSet(fr.todo)
  BY TailFacts DEF FrameInv, FrameTyped
<1>2. QED
  BY <1>1 DEF FrameInv, FrameKnown

LEMMA SameCluster ==
  ASSUME Typed, at.pc # "cluster", UNCHANGED cluster
  PROVE  /\ cluster' = [managers |-> cluster'.managers, packages |-> cluster'.packages,
                        system |-> cluster'.system, services |-> cluster'.services]
         /\ cluster'.services = cluster.services
BY DEF Typed

(* Steps that leave the lists alone. *)
LEMMA QuietCall ==
  ASSUME FInv, result = "", stack # <<>>,
         UNCHANGED <<input, at, built, result, cluster, feats>>,
         DOMAIN features' = DOMAIN features,
         \A f \in DOMAIN features' : Alike(features'[f], input.features[f]),
         Calls(World, stack'),
         "known" \in Flags => First(stack) \subseteq First(stack') \cup Have(World)
  PROVE  FInv'
<1>1. World' = World
  BY SameWorld
<1>2. Typed /\ at.pc # "cluster" /\ ListsRight(World) /\ PackagesRight(World)
  BY AtCall
<1>3. QED
  BY <1>1, <1>2, SameCluster, CallStep

LEMMA SameFeatures ==
  ASSUME Typed, UNCHANGED <<input, features>>
  PROVE  /\ DOMAIN features' = DOMAIN features
         /\ \A f \in DOMAIN features' : Alike(features'[f], input.features[f])
BY DEF Typed

LEMMA ReturnStep ==
  ASSUME FInv, Return
  PROVE  FInv'
<1>1. /\ result = "" /\ stack # <<>> /\ Top.todo = <<>> /\ stack' = Front(stack)
      /\ UNCHANGED <<input, at, built, result, cluster, feats, features>>
  BY DEF Return, Running
<1>2. Calls(World, stack) /\ Grows(World, World) /\ Typed
  BY <1>1, AtCall
<1>3. ToSet(Last(stack).todo) = {}
  BY <1>1, EmptySequence DEF Top
<1>4. /\ Calls(World, Front(stack))
      /\ "known" \in World.flags => First(stack) \subseteq First(Front(stack)) \cup Have(World)
  BY <1>1, <1>2, <1>3, Popped
<1>5. QED
  BY <1>1, <1>2, <1>4, WorldFacts, SameFeatures, QuietCall

LEMMA MissingStep ==
  ASSUME FInv, Missing
  PROVE  FInv'
<1>1. /\ result = "" /\ stack # <<>> /\ Top.todo # <<>> /\ ~Known(Head(Top.todo))
      /\ feats' = <<>> /\ stack' = Front(stack)
      /\ UNCHANGED <<input, at, built, result, cluster, features>>
  BY DEF Missing, Running
<1>2. /\ Calls(World, stack) /\ Typed /\ InService /\ FrameInv(World, Top)
      /\ at.pc # "cluster" /\ ListsRight(World) /\ PackagesRight(World)
  BY <1>1, AtCall
<1>3. World.r = input /\ World.flags = Flags /\ World.system = cluster.system
      /\ World.managers = cluster.managers /\ World.packages = cluster.packages
  BY WorldFacts
<1>4. "known" \notin Flags
  BY <1>1, <1>2, <1>3, HeadKnown DEF Known, KnownIn, Typed
<1>5. /\ World'.r = World.r /\ World'.flags = World.flags /\ World'.need = World.need
      /\ World'.offers = World.offers /\ World'.os = World.os
      /\ World'.system = World.system /\ World'.managers = World.managers
      /\ World'.packages = World.packages /\ World'.feats = <<>>
  BY <1>1, <1>2, <1>3, NextWorld
<1>6. Grows(World, World')
  BY <1>3, <1>4, <1>5 DEF Grows
<1>7. Calls(World', Front(stack))
  BY <1>1, <1>2, <1>3, <1>4, <1>6, Popped
<1>8. ListsRight(World')
  BY <1>2, <1>3, <1>4, <1>5, EmptySequence DEF ListsRight
<1>9. PackagesRight(World')
  BY <1>2, <1>3, <1>4, <1>5 DEF PackagesRight
<1>10. QED
  BY <1>1, <1>2, <1>4, <1>7, <1>8, <1>9, SameFeatures, SameCluster, CallStep

(* A feature that is there already is passed over.                         *)
LEMMA PassStep ==
  ASSUME FInv, result = "", stack # <<>>, Top.todo # <<>>,
         "known" \in Flags => Head(Top.todo) \in Have(World),
         stack' = Replace(Skip(Top)),
         UNCHANGED <<input, at, built, result, cluster, feats>>,
         DOMAIN features' = DOMAIN features,
         \A f \in DOMAIN features' : Alike(features'[f], input.features[f])
  PROVE  FInv'
<1>1. Calls(World, stack) /\ Grows(World, World) /\ Typed
  BY AtCall
<1>2. /\ Calls(World, Append(Front(stack), Skip(Last(stack))))
      /\ "known" \in World.flags =>
           First(stack) \subseteq First(Append(Front(stack), Skip(Last(stack)))) \cup Have(World)
  BY <1>1, WorldFacts, LowerFresh, Skipped DEF Top, Calls
<1>3. QED
  BY <1>2, WorldFacts, QuietCall DEF Replace, Top

LEMMA RewrittenAlike ==
  ASSUME Typed, NEW name, Known(name), UNCHANGED input,
         features' = IF name[2] = "" THEN features
                     ELSE [features EXCEPT ![name[1]] = Rewritten(@, name[2])]
  PROVE  /\ DOMAIN features' = DOMAIN features
         /\ \A f \in DOMAIN features' : Alike(features'[f], input.features[f])
<1>1. \A f \in DOMAIN features : Alike(features[f], input.features[f])
  BY DEF Typed
<1>2. Alike(Rewritten(features[name[1]], name[2]), input.features[name[1]])
  BY <1>1, CopiesAlike DEF Known
<1>3. QED
  BY <1>1, <1>2 DEF Known

LEMMA VisitStep ==
  ASSUME FInv, Visit
  PROVE  FInv'
<1> DEFINE name == Head(Top.todo)
           f    == features[name[1]]
           feat == IF name[2] = "" THEN f ELSE Specialised(f, name[2])
           own  == OwnOf(feat, Os)
           org  == Len(List(own))
           g    == [Top EXCEPT !.pc = "required", !.name = name, !.feat = feat, !.own = own,
                               !.org = org]
           st   == Replace(g)
<1>0. FrameTyped(Top) =>
        g = [todo |-> Top.todo, pc |-> "required", name |-> name, feat |-> feat, own |-> own,
             org |-> org, tasks |-> Top.tasks, manager |-> Top.manager]
  <2> SUFFICES ASSUME FrameTyped(Top) PROVE g =
        [todo |-> Top.todo, pc |-> "required", name |-> name, feat |-> feat, own |-> own,
         org |-> org, tasks |-> Top.tasks, manager |-> Top.manager]
    OBVIOUS
  <2> HIDE DEF name, feat, own, org
  <2> DEFINE a == [todo |-> Top.todo, pc |-> "required", name |-> Top.name, feat |-> Top.feat,
                   own |-> Top.own, org |-> Top.org, tasks |-> Top.tasks,
                   manager |-> Top.manager]
             b == [todo |-> Top.todo, pc |-> "required", name |-> name, feat |-> Top.feat,
                   own |-> Top.own, org |-> Top.org, tasks |-> Top.tasks,
                   manager |-> Top.manager]
             c == [todo |-> Top.todo, pc |-> "required", name |-> name, feat |-> feat,
                   own |-> Top.own, org |-> Top.org, tasks |-> Top.tasks,
                   manager |-> Top.manager]
             d == [todo |-> Top.todo, pc |-> "required", name |-> name, feat |-> feat,
                   own |-> own, org |-> Top.org, tasks |-> Top.tasks,
                   manager |-> Top.manager]
             e == [todo |-> Top.todo, pc |-> "required", name |-> name, feat |-> feat,
                   own |-> own, org |-> org, tasks |-> Top.tasks, manager |-> Top.manager]
  <2>1. [Top EXCEPT !.pc = "required"] = a
    BY DEF FrameTyped
  <2>2. [a EXCEPT !.name = name] = b
    OBVIOUS
  <2>3. [b EXCEPT !.feat = feat] = c
    OBVIOUS
  <2>4. [c EXCEPT !.own = own] = d
    OBVIOUS
  <2>5. [d EXCEPT !.org = org] = e
    OBVIOUS
  <2> HIDE DEF a, b, c, d, e
  <2>6. g = e
    BY <2>1, <2>2, <2>3, <2>4, <2>5, Zenon
  <2>7. QED
    BY <2>6, Zenon DEF e
<1>1. /\ result = "" /\ stack # <<>> /\ Top.todo # <<>> /\ Known(name) /\ Top.pc = "loop"
      /\ features' = IF name[2] = "" THEN features
                     ELSE [features EXCEPT ![name[1]] = Rewritten(@, name[2])]
      /\ UNCHANGED <<input, at, built, cluster, feats>>
  BY DEF Visit, Running
<1>2. \/ Present(List(own), name) /\ stack' = Replace(Skip(Top)) /\ result' = result
      \/ ~Present(List(own), name) /\ Enter(st, feat.requires)
  BY DEF Visit
<1>3. /\ Calls(World, stack) /\ Typed /\ FrameInv(World, Top) /\ ListsRight(World)
      /\ \A b \in BOOLEAN : ListIn(World, b) = List(b)
  BY <1>1, AtCall
<1>4. /\ DOMAIN features' = DOMAIN features
      /\ \A k \in DOMAIN features' : Alike(features'[k], input.features[k])
  BY <1>1, <1>3, RewrittenAlike
<1>5. /\ World.r = input /\ World.flags = Flags /\ World.need = Net /\ World.os = Os
      /\ DOMAIN features = DOMAIN input.features /\ name[1] \in DOMAIN input.features
  BY <1>1, <1>3, WorldFacts DEF Typed, Known
<1>6. Alike(feat, input.features[name[1]])
  <2>1. Alike(f, input.features[name[1]])
    BY <1>3, <1>5 DEF Typed
  <2>2. Alike(Specialised(f, name[2]), input.features[name[1]])
    BY <2>1, CopiesAlike
  <2>3. QED
    BY <2>1, <2>2
<1>7. own \in BOOLEAN /\ (own <=> IsOwnOf(input, Os, name))
  <2>1. OwnOf(feat, Os) <=> OwnOf(input.features[name[1]], Os)
    <3> HIDE DEF feat, name
    <3>1. QED
      BY <1>6, AlikeTasks, Zenon
  <2>2. own \in BOOLEAN
    BY DEF OwnOf
  <2>3. QED
    BY <2>1, <2>2 DEF IsOwnOf
<1> HIDE DEF own, feat, name
<1>8. CASE Present(List(own), name) /\ stack' = Replace(Skip(Top)) /\ result' = result
  <2>1. name \in Have(World)
    <3>1. name \in Names(ListIn(World, own))
      BY <1>3, <1>7, <1>8, PresentNames
    <3>2. QED
      BY <1>7, <3>1 DEF ListIn, Have
  <2>2. QED
    BY <1>1, <1>4, <1>8, <2>1, PassStep DEF name
<1>9. CASE ~Present(List(own), name) /\ Enter(st, feat.requires)
  <2> DEFINE rest == ToSet(feat.requires)
  <2>1. g = [todo |-> Top.todo, pc |-> "required", name |-> name, feat |-> feat, own |-> own,
             org |-> org, tasks |-> Top.tasks, manager |-> Top.manager]
    <3>1. FrameTyped(Top)
      BY <1>3 DEF FrameInv
    <3> HIDE DEF org
    <3> HIDE DEF g
    <3>2. QED
      BY <3>1, <1>0
  <2>2. org \in Nat /\ org = Len(ListIn(World, own))
        /\ \A k \in 1 .. org : ListIn(World, own)[k].name # name
    <3>1. ListIn(World, own) = List(own) /\ Sequence(ListIn(World, own))
      BY <1>3, <1>7 DEF ListsRight, ListIn
    <3>2. org \in Nat /\ DOMAIN List(own) = 1 .. org
      BY <3>1, SeqFacts
    <3>3. QED
      BY <1>9, <3>1, <3>2 DEF Present
  <2> HIDE DEF org, g
  <2>3. feat.requires = input.features[name[1]].requires
    BY <1>6 DEF Alike
  <2>4. Sequence(feat.requires)
    BY <1>3, <1>5, <2>3, ConfigFacts, ListSequence DEF IsFeature
  <2>5. /\ FrameTyped(Top) /\ ("known" \in Flags => FrameKnown(World, Top))
    BY <1>3, <1>5 DEF FrameInv
  <2>6. FrameTyped(g)
    BY <1>1, <2>1, <2>5 DEF FrameTyped
  <2>7. FrameAt(World, g)
    BY <1>1, <1>5, <1>6, <1>7, <2>1, <2>2 DEF FrameAt, KnownIn, name
  <2>8. "known" \in Flags => FrameKnown(World, g)
    <3>1. SUFFICES ASSUME "known" \in Flags PROVE FrameKnown(World, g)
      OBVIOUS
    <3>2. g.todo = Top.todo /\ g.pc = "required" /\ g.own = own /\ g.org = org /\ g.name = name
      BY <2>1
    <3>3. QED
      BY <2>2, <2>5, <3>1, <3>2 DEF FrameKnown
  <2>9. FrameInv(World, g)
    <3>1. g.pc = "required"
      BY <2>1
    <3>2. QED
      BY <1>5, <2>6, <2>7, <2>8, <3>1 DEF FrameInv
  <2>10. LinkInv(World, g, rest)
    <3>1. g.pc = "required" /\ g.name = name
      BY <2>1
    <3>2. \A n \in rest : KnownIn(input, n) => n[1] \in Net[name[1]]
      BY <1>5, <2>3, MayNeedRequired DEF KnownIn, Net
    <3>3. NeedsOf(input, name) = rest
      BY <2>3 DEF NeedsOf
    <3>4. QED
      BY <1>5, <3>1, <3>2, <3>3 DEF LinkInv
  <2>11. "simple" \in Flags => \A i \in 1 .. Len(stack) - 1 : stack[i].name[1] # name[1]
    BY <1>1, <1>3, <1>5, RingMade, FlagFacts DEF name, KnownIn, Top
  <2>12. /\ CallsTo(World, st, rest)
         /\ "known" \in Flags => First(stack) \subseteq First(st) \cup Have(World)
    <3>1. g.todo = Last(stack).todo /\ g.name = name
      BY <2>1 DEF Top
    <3>2. QED
      BY <1>1, <1>3, <1>5, <2>9, <2>10, <2>11, <3>1, WentOn DEF Replace
  <2>13. st # <<>> /\ Last(st).pc = "required"
    <3>1. Sequence(stack)
      BY <1>3 DEF Calls, CallsTo
    <3>2. Last(st) = g /\ Len(st) = Len(stack) /\ Sequence(st)
      BY <1>1, <3>1, Replaced DEF Replace
    <3>3. st # <<>>
      BY <1>1, <3>1, <3>2, SeqFacts
    <3>4. QED
      BY <2>1, <3>2, <3>3
  <2>14. "known" \in Flags => \A n \in rest : KnownIn(input, n)
    BY <1>5, <2>3, FlagFacts DEF NoneMissing, Needs, KnownIn
  <2> HIDE DEF st
  <2>15. \/ Calls(World, stack') /\ First(stack') = First(st) /\ result' = result
         \/ stack' = st /\ result' = "overflow" /\ "simple" \notin Flags
    <3>1. /\ IsFiniteSet(DOMAIN input.features) /\ MaxDepth \in Nat
          /\ Cardinality(DOMAIN input.features) < MaxDepth
      BY <1>3, ConfigFacts
    <3>2. QED
      BY <1>5, <1>9, <2>4, <2>12, <2>13, <2>14, <3>1, Entered
  <2>16. CASE Calls(World, stack') /\ First(stack') = First(st) /\ result' = result
    BY <1>1, <1>4, <2>12, <2>16, QuietCall
  <2>17. CASE stack' = st /\ result' = "overflow" /\ "simple" \notin Flags
    BY <1>1, <1>4, <2>17, FlagFacts, CallEnds
  <2>18. QED
    BY <2>15, <2>16, <2>17
<1>10. QED
  BY <1>2, <1>8, <1>9

(* The last call stays at its feature. *)
LEMMA StayStep ==
  ASSUME FInv, result = "", stack # <<>>, Top.pc # "loop", NEW g,
         FrameInv(World, g), LinkInv(World, g, {}), g.todo = Top.todo, g.name = Top.name,
         stack' = Replace(g),
         UNCHANGED <<input, at, built, result, cluster, feats, features>>
  PROVE  FInv'
<1>1. Calls(World, stack) /\ ListsRight(World) /\ Typed
  BY AtCall
<1>2. /\ CallsTo(World, Append(Front(stack), g), {})
      /\ "known" \in World.flags =>
           First(stack) \subseteq First(Append(Front(stack), g)) \cup Have(World)
  BY <1>1, WentOn DEF Top
<1>3. QED
  BY <1>1, <1>2, WorldFacts, SameFeatures, QuietCall DEF Replace, Calls

LEMMA PartNames ==
  ASSUME NEW l, Sequence(l), NEW k \in Nat, k <= Len(l), NEW n
  PROVE  Present(SubSeq(l, k + 1, Len(l)), n) <=> \E i \in k + 1 .. Len(l) : l[i].name = n
<1> DEFINE p == SubSeq(l, k + 1, Len(l))
<1>1. PICK S : l \in Seq(S)
  BY DEF Sequence
<1>2. Len(l) \in Nat /\ DOMAIN l = 1 .. Len(l)
  BY <1>1
<1>3. /\ p \in Seq(S) /\ Len(p) = Len(l) - k
      /\ \A i \in 1 .. Len(l) - k : p[i] = l[k + i]
  <2> DEFINE from == k + 1
             to == Len(l)
  <2>1. from \in Int /\ to \in Int /\ \A i \in from .. to : l[i] \in S
    BY <1>1, <1>2
  <2> HIDE DEF from, to
  <2>2. /\ SubSeq(l, from, to) \in Seq(S)
        /\ Len(SubSeq(l, from, to)) = IF from <= to THEN to - from + 1 ELSE 0
        /\ \A i \in 1 .. to - from + 1 : SubSeq(l, from, to)[i] = l[from + i - 1]
    BY <2>1, SubSeqProperties
  <2>3. /\ (IF from <= to THEN to - from + 1 ELSE 0) = Len(l) - k
        /\ to - from + 1 = Len(l) - k
    <3>1. from = k + 1 /\ to = Len(l) /\ to \in Nat /\ k <= to
      BY <1>2 DEF from, to
    <3>2. to - from + 1 = to - k
      BY <3>1
    <3>3. CASE k = to
      BY <3>1, <3>2, <3>3
    <3>4. CASE k < to
      BY <3>1, <3>2, <3>4
    <3>5. QED
      BY <3>1, <3>3, <3>4
  <2>4. \A i \in 1 .. Len(l) - k : from + i - 1 = k + i
    BY <1>2 DEF from
  <2>5. p = SubSeq(l, from, to)
    BY DEF from, to
  <2> HIDE DEF p
  <2>6. /\ p \in Seq(S) /\ Len(p) = Len(l) - k
        /\ \A i \in 1 .. Len(l) - k : p[i] = l[from + i - 1]
    BY <2>2, <2>3, <2>5
  <2>7. QED
    BY <2>4, <2>6
<1>4. DOMAIN p = 1 .. Len(l) - k
  BY <1>3
<1> HIDE DEF p
<1>5. ASSUME Present(p, n) PROVE \E i \in k + 1 .. Len(l) : l[i].name = n
  <2>1. PICK i \in 1 .. Len(l) - k : p[i].name = n
    BY <1>4, <1>5 DEF Present
  <2>2. k + i \in k + 1 .. Len(l)
    BY <1>2
  <2>3. QED
    BY <1>3, <2>1, <2>2
<1>6. ASSUME NEW i \in k + 1 .. Len(l), l[i].name = n PROVE Present(p, n)
  <2>1. i - k \in 1 .. Len(l) - k /\ k + (i - k) = i
    BY <1>2
  <2>2. p[i - k] = l[i]
    BY <1>3, <2>1
  <2>3. QED
    BY <1>4, <1>6, <2>1, <2>2 DEF Present
<1>7. QED
  BY <1>5, <1>6 DEF p

LEMMA RequiredStep ==
  ASSUME FInv, Required
  PROVE  FInv'
<1> DEFINE l == List(Top.own)
           g == [Top EXCEPT !.pc = "tasks"]
<1>1. /\ result = "" /\ stack # <<>> /\ Top.pc = "required"
      /\ UNCHANGED <<input, features, cluster, feats, at, built>>
  BY DEF Required, Running
<1>2. \/ Top.org > Len(l) /\ result' = "panic" /\ stack' = stack
      \/ /\ ~(Top.org > Len(l)) /\ result' = result
         /\ stack' = Replace(IF Present(SubSeq(l, Top.org + 1, Len(l)), Top.name)
                             THEN Skip(Top) ELSE g)
  BY DEF Required
<1>3. /\ Typed /\ ListsRight(World) /\ FrameInv(World, Top) /\ LinkInv(World, Top, {})
      /\ \A own \in BOOLEAN : ListIn(World, own) = List(own)
  BY <1>1, AtCall
<1>4. World.r = input /\ World.flags = Flags /\ World.os = Os
  BY WorldFacts
<1>5. FrameTyped(Top) /\ FrameAt(World, Top)
  BY <1>1, <1>3 DEF FrameInv
<1>6. /\ Top.own \in BOOLEAN /\ l = ListIn(World, Top.own) /\ Sequence(l) /\ Top.org \in Nat
      /\ Top.name = Head(Top.todo) /\ Top.todo # <<>>
  BY <1>3, <1>5 DEF FrameAt, ListsRight, ListIn
<1>7. "known" \in Flags => FrameKnown(World, Top)
  BY <1>3, <1>4 DEF FrameInv
<1>8. Names(l) \subseteq Have(World)
  BY <1>6 DEF ListIn, Have
<1>9. Len(l) \in Nat /\ DOMAIN l = 1 .. Len(l)
  BY <1>6, SeqFacts
<1>10. CASE Top.org > Len(l) /\ result' = "panic" /\ stack' = stack
  <2>1. "known" \notin Flags
    <3> HIDE DEF l
    <3>1. "known" \in Flags => Top.org <= Len(l)
      BY <1>1, <1>6, <1>7 DEF FrameKnown
    <3>2. QED
      BY <1>6, <1>9, <1>10, <3>1
  <2>2. QED
    BY <1>1, <1>3, <1>10, <2>1, FlagFacts, SameFeatures, CallEnds
<1> HIDE DEF l, g
<1>11. CASE /\ ~(Top.org > Len(l)) /\ result' = result
            /\ stack' = Replace(IF Present(SubSeq(l, Top.org + 1, Len(l)), Top.name)
                                THEN Skip(Top) ELSE g)
  <2>1. Top.org <= Len(l)
    BY <1>6, <1>9, <1>11
  <2>2. CASE Present(SubSeq(l, Top.org + 1, Len(l)), Top.name)
    <3>1. PICK i \in Top.org + 1 .. Len(l) : l[i].name = Top.name
      BY <1>6, <2>1, <2>2, PartNames
    <3>2. i \in DOMAIN l
      BY <1>6, <1>9
    <3>3. Top.name \in Have(World)
      BY <1>8, <3>1, <3>2 DEF Names
    <3>4. stack' = Replace(Skip(Top))
      BY <1>11, <2>2
    <3>5. QED
      BY <1>1, <1>3, <1>6, <1>11, <3>3, <3>4, SameFeatures, PassStep
  <2>3. CASE ~Present(SubSeq(l, Top.org + 1, Len(l)), Top.name)
    <3>1. stack' = Replace(g)
      BY <1>11, <2>3
    <3>2. g = [todo |-> Top.todo, pc |-> "tasks", name |-> Top.name, feat |-> Top.feat,
               own |-> Top.own, org |-> Top.org, tasks |-> Top.tasks, manager |-> Top.manager]
      BY <1>5 DEF FrameTyped, g
    <3>3. FrameTyped(g) /\ FrameAt(World, g) /\ g.tasks = <<>>
      BY <1>1, <1>5, <3>2 DEF FrameTyped, FrameAt
    <3>4. ASSUME "known" \in Flags PROVE FrameKnown(World, g)
      <4>1. FrameKnown(World, Top) /\ NeedsOf(input, Top.name) \subseteq Have(World)
        BY <1>1, <1>3, <1>4, <1>7, <3>4 DEF LinkInv
      <4>2. Top.name \notin Names(l)
        <5>1. \A i \in 1 .. Top.org : l[i].name # Top.name
          BY <1>1, <1>6, <4>1 DEF FrameKnown
        <5>2. \A i \in Top.org + 1 .. Len(l) : l[i].name # Top.name
          BY <1>6, <2>1, <2>3, PartNames
        <5>3. \A i \in DOMAIN l : i \in 1 .. Top.org \/ i \in Top.org + 1 .. Len(l)
          BY <1>6, <1>9, <2>1
        <5>4. QED
          BY <5>1, <5>2, <5>3 DEF Names
      <4>3. TasksPossible(World, g.name, g.tasks, Names(World.system))
        BY <3>3, EmptySequence DEF TasksPossible
      <4>4. /\ g.pc = "tasks" /\ g.todo = Top.todo /\ g.name = Top.name /\ g.own = Top.own
            /\ g.org = Top.org
        BY <3>2
      <4>5. g.org <= Len(ListIn(World, g.own))
            /\ \A k \in 1 .. g.org : ListIn(World, g.own)[k].name # g.name
        BY <1>1, <4>1, <4>4 DEF FrameKnown
      <4>6. QED
        BY <1>4, <1>6, <4>1, <4>2, <4>3, <4>4, <4>5 DEF FrameKnown
    <3>5. g.pc = "tasks"
      BY <3>2
    <3>6. Len(g.tasks) <= Len(TasksFor(g.feat, World.os))
      <4>1. Len(<< >>) = 0
        OBVIOUS
      <4>2. SameTasks(TasksFor(g.feat, World.os), TasksFor(input.features[g.name[1]], World.os))
        BY <1>4, <3>3, AlikeTasks DEF FrameAt
      <4>3. Len(TasksFor(g.feat, World.os)) \in Nat
        BY <4>2, SeqFacts DEF SameTasks
      <4>4. QED
        BY <3>3, <4>1, <4>3
    <3>7. FrameInv(World, g)
      BY <1>4, <3>3, <3>4, <3>5, <3>6 DEF FrameInv
    <3>8. LinkInv(World, g, {})
      BY <3>5 DEF LinkInv
    <3>9. g.todo = Top.todo /\ g.name = Top.name
      BY <3>2
    <3>10. QED
      BY <1>1, <1>11, <3>1, <3>7, <3>8, <3>9, StayStep
  <2>4. QED
    BY <2>2, <2>3
<1>12. QED
  BY <1>2, <1>10, <1>11 DEF l, g

-----------------------------------------------------------------------------
(* The tasks of a feature.                                                 *)

LEMMA ConvertFacts ==
  ASSUME NEW t, IsTask(t), NEW packages
  PROVE  LET u == Convert(t, packages) IN
         /\ u.type = "" => t.type = "install" /\ t.package \notin DOMAIN packages
         /\ u.type = "install" => /\ t.type = "install" /\ t.package \in DOMAIN packages
                                  /\ u.managers = packages[t.package]
<1> DEFINE root == t.priv = "root"
           u    == Convert(t, packages)
           task(package, managers) ==
             [type |-> t.type, root |-> root, package |-> package, managers |-> managers,
              what |-> t.what, of |-> t.of]
<1>1. t.type \in TaskTypes
  BY DEF IsTask
<1>2. \A p, ms : task(p, ms).type = t.type /\ task(p, ms).managers = ms
  <2> HIDE DEF root
  <2>1. QED
    OBVIOUS
<1>3. CASE t.type = "install" /\ t.package \notin DOMAIN packages
  <2>1. u = Blank
    BY <1>3 DEF Convert
  <2> HIDE DEF u
  <2>2. u.type = ""
    BY <2>1 DEF Blank
  <2>3. QED
    BY <1>3, <2>2 DEF u
<1>4. CASE t.type = "install" /\ t.package \in DOMAIN packages
  <2>1. u = task(t.package, packages[t.package])
    BY <1>4 DEF Convert
  <2> HIDE DEF u, task
  <2>2. u.type = "install" /\ u.managers = packages[t.package]
    BY <1>2, <1>4, <2>1
  <2>3. QED
    BY <1>4, <2>2 DEF u
<1>5. CASE t.type = "delete"
  <2>1. u = [task("", <<>>) EXCEPT !.root = FALSE]
    BY <1>5 DEF Convert
  <2>2. u.type = "delete"
    BY <1>5, <2>1
  <2>3. QED
    BY <2>2
<1>6. CASE t.type = "schedule"
  <2>1. u = [task("", <<>>) EXCEPT !.what = "", !.of = ""]
    BY <1>6 DEF Convert
  <2>2. u.type = "schedule"
    BY <1>6, <2>1
  <2>3. QED
    BY <2>2
<1>7. CASE t.type \in {"install_local", "install_external", "download", "link",
                       "enable", "file_string", "file_bytes", "user", "command"}
  <2>1. u = task("", <<>>)
    BY <1>7 DEF Convert
  <2> HIDE DEF u, task
  <2>2. u.type = t.type
    BY <1>2, <2>1
  <2>3. QED
    BY <1>7, <2>2 DEF u
<1>8. QED
  BY <1>1, <1>3, <1>4, <1>5, <1>6, <1>7 DEF TaskTypes

LEMMA OneMore == \A n \in Nat : \A k \in 1 .. n + 1 : k \in 1 .. n \/ k = n + 1
OBVIOUS

LEMMA OneMoreTask ==
  ASSUME NEW w, NEW name, NEW tasks, NEW there, Sequence(tasks),
         TasksPossible(w, name, tasks, there), NEW t,
         t.type = "install" => Can(w, t, there),
         t.type = "" =>
           Lost(w.r, name, TasksFor(w.r.features[name[1]], w.os)[Len(tasks) + 1].package)
  PROVE  TasksPossible(w, name, Append(tasks, t), there)
<1> DEFINE us == Append(tasks, t)
           n  == Len(tasks)
<1>1. n \in Nat /\ DOMAIN tasks = 1 .. n
  BY SeqFacts
<1>2. /\ Sequence(us) /\ Len(us) = n + 1
      /\ \A i \in DOMAIN tasks : us[i] = tasks[i]
      /\ us[n + 1] = t
  BY Appended, Zenon
<1> HIDE DEF us, n
<1>3. DOMAIN us = 1 .. n + 1
  BY <1>2, SeqFacts
<1>4. \A k \in 1 .. n + 1 : k \in 1 .. n \/ k = n + 1
  BY <1>1, OneMore
<1>5. \A k \in DOMAIN us : k \in DOMAIN tasks \/ k = n + 1
  BY <1>1, <1>3, <1>4
<1>6. QED
  BY <1>2, <1>5 DEF TasksPossible, us, n

(* What the call at its tasks knows. *)
LEMMA TaskFacts ==
  ASSUME NEW w, NEW fr, FrameInv(w, fr), fr.pc \in {"tasks", "manager"}
  PROVE  LET src == TasksFor(fr.feat, w.os)
             own == TasksFor(w.r.features[fr.name[1]], w.os)
         IN  /\ Sequence(src) /\ Sequence(fr.tasks) /\ DOMAIN own = DOMAIN src
             /\ Len(fr.tasks) \in Nat /\ Len(src) \in Nat /\ Len(fr.tasks) <= Len(src)
             /\ Len(fr.tasks) < Len(src) =>
                  LET k == Len(fr.tasks) + 1 IN
                  /\ k \in DOMAIN src /\ k <= Len(src) /\ IsTask(src[k])
                  /\ own[k].type = src[k].type /\ own[k].package = src[k].package
             /\ FrameTyped(fr) /\ FrameAt(w, fr)
<1> DEFINE src == TasksFor(fr.feat, w.os)
           own == TasksFor(w.r.features[fr.name[1]], w.os)
<1>1. FrameTyped(fr) /\ FrameAt(w, fr) /\ Len(fr.tasks) <= Len(src)
  BY DEF FrameInv
<1>2. SameTasks(src, own)
  BY <1>1, AlikeTasks DEF FrameAt
<1> HIDE DEF src, own
<1>3. Sequence(src) /\ DOMAIN own = DOMAIN src /\ Len(src) \in Nat /\ DOMAIN src = 1 .. Len(src)
  BY <1>2, SeqFacts DEF SameTasks
<1>4. Sequence(fr.tasks) /\ Len(fr.tasks) \in Nat
  BY <1>1, SeqFacts DEF FrameTyped
<1>5. ASSUME Len(fr.tasks) < Len(src)
      PROVE  Len(fr.tasks) + 1 \in DOMAIN src /\ Len(fr.tasks) + 1 <= Len(src)
  BY <1>3, <1>4, <1>5
<1>6. \A k \in DOMAIN src :
        IsTask(src[k]) /\ own[k].type = src[k].type /\ own[k].package = src[k].package
  BY <1>2 DEF SameTasks
<1>7. QED
  BY <1>1, <1>3, <1>4, <1>5, <1>6 DEF src, own

LEMMA LostFacts ==
  ASSUME NEW w, NEW fr, FrameInv(w, fr), fr.pc \in {"tasks", "manager"}, PackagesRight(w),
         "known" \in w.flags, NEW p, p \notin DOMAIN w.packages
  PROVE  Lost(w.r, fr.name, p)
<1>1. NeedsOf(w.r, fr.name) \subseteq Have(w)
  BY DEF FrameInv, FrameKnown
<1>2. QED
  BY <1>1 DEF Lost, PackagesRight

LEMMA TaskPlainStep ==
  ASSUME FInv, TaskPlain
  PROVE  FInv'
<1> DEFINE g == [Top EXCEPT !.tasks = Converted]
           k == Len(Top.tasks) + 1
           c == Convert(NextTask, cluster.packages)
<1>1. /\ result = "" /\ stack # <<>> /\ Top.pc = "tasks" /\ stack' = Replace(g)
      /\ Len(Top.tasks) < Len(Source) /\ ToAdd(ManagersOf(NextTask)) = {}
      /\ UNCHANGED <<input, features, cluster, feats, at, built, result>>
  BY DEF TaskPlain, AtTask, Running
<1>2. /\ Typed /\ ListsRight(World) /\ PackagesRight(World)
      /\ FrameInv(World, Top) /\ LinkInv(World, Top, {})
  BY <1>1, AtCall
<1>3. /\ World.r = input /\ World.flags = Flags /\ World.os = Os
      /\ World.packages = cluster.packages /\ World.managers = cluster.managers
      /\ World.system = cluster.system
  BY WorldFacts
<1>4. /\ Source = TasksFor(Top.feat, World.os) /\ NextTask = Source[k]
      /\ Converted = Append(Top.tasks, c)
  BY <1>3, Zenon DEF Source, NextTask, Converted
<1>5. /\ Sequence(Top.tasks) /\ Len(Top.tasks) \in Nat /\ Len(Source) \in Nat
      /\ k \in DOMAIN Source /\ k <= Len(Source) /\ IsTask(NextTask) /\ FrameTyped(Top)
      /\ FrameAt(World, Top)
      /\ TasksFor(input.features[Top.name[1]], Os)[k].package = NextTask.package
  BY <1>1, <1>2, <1>3, <1>4, TaskFacts, Zenon
<1>6. g = [todo |-> Top.todo, pc |-> "tasks", name |-> Top.name, feat |-> Top.feat,
           own |-> Top.own, org |-> Top.org, tasks |-> Converted, manager |-> Top.manager]
  <2>1. Top = [todo |-> Top.todo, pc |-> "tasks", name |-> Top.name, feat |-> Top.feat,
               own |-> Top.own, org |-> Top.org, tasks |-> Top.tasks, manager |-> Top.manager]
    BY <1>1, <1>5 DEF FrameTyped
  <2> HIDE DEF k, c
  <2>2. QED
    BY <2>1
<1> HIDE DEF g, c
<1>7. Sequence(Converted) /\ Len(Converted) = k
  BY <1>4, <1>5, Appended, Zenon
<1>8. FrameTyped(g) /\ FrameAt(World, g)
  BY <1>1, <1>5, <1>6, <1>7 DEF FrameTyped, FrameAt
<1>9. Len(g.tasks) <= Len(TasksFor(g.feat, World.os))
  <2>1. g.tasks = Converted /\ g.feat = Top.feat
    BY <1>6
  <2>2. QED
    BY <1>4, <1>5, <1>7, <2>1
<1>10. ASSUME "known" \in Flags PROVE FrameKnown(World, g)
  <2>1. FrameKnown(World, Top)
    BY <1>2, <1>3, <1>10 DEF FrameInv
  <2>2. ASSUME "plain" \in Flags
        PROVE  TasksPossible(World, Top.name, Converted, Names(World.system))
    <3>1. TasksPossible(World, Top.name, Top.tasks, Names(World.system))
      BY <1>1, <1>3, <2>1, <2>2 DEF FrameKnown
    <3>2. /\ c.type = "" => NextTask.package \notin DOMAIN cluster.packages
          /\ c.type = "install" => /\ NextTask.type = "install"
                                   /\ NextTask.package \in DOMAIN cluster.packages
                                   /\ c.managers = cluster.packages[NextTask.package]
      BY <1>5, ConvertFacts DEF c
    <3>3. ASSUME c.type = "install" PROVE Can(World, c, Names(World.system))
      <4>1. c.managers = ManagersOf(NextTask)
        BY <3>2, <3>3 DEF ManagersOf
      <4>2. ManagersIn(World) = {m.name : m \in ToSet(cluster.managers)}
        BY <1>3 DEF ManagersIn
      <4>3. CASE ManagersIn(World) \cap ToSet(c.managers) # {}
        <5>1. PICK m \in ManagersIn(World) \cap ToSet(c.managers) : TRUE
          BY <4>3
        <5>2. Ready(World, m, Names(World.system))
          BY <1>2, <1>3, <1>10, <5>1 DEF ListsRight
        <5>3. QED
          BY <5>1, <5>2 DEF Can
      <4>4. CASE ManagersIn(World) \cap ToSet(c.managers) = {}
        <5>1. {m \in FirstKnown(c.managers) : input.pms[m].requires # <<>>} = {}
          BY <1>1, <4>1, <4>2, <4>4 DEF ToAdd
        <5>2. \A m \in FirstIn(World.r, c.managers) : World.r.pms[m].requires = <<>>
          BY <1>3, <5>1, FirstSame
        <5>3. QED
          BY <5>2 DEF Can
      <4>5. QED
        BY <4>3, <4>4
    <3>4. ASSUME c.type = "" PROVE Lost(input, Top.name, NextTask.package)
      BY <1>1, <1>2, <1>3, <1>10, <3>2, <3>4, LostFacts
    <3>5. QED
      BY <1>3, <1>4, <1>5, <3>1, <3>3, <3>4, OneMoreTask
  <2>3. /\ g.pc = "tasks" /\ g.todo = Top.todo /\ g.name = Top.name /\ g.own = Top.own
        /\ g.org = Top.org /\ g.tasks = Converted
    BY <1>6
  <2>4. QED
    BY <1>1, <1>3, <2>1, <2>2, <2>3 DEF FrameKnown
<1>11. FrameInv(World, g) /\ LinkInv(World, g, {})
  <2>1. g.pc = "tasks"
    BY <1>6
  <2>2. QED
    BY <1>3, <1>8, <1>9, <1>10, <2>1 DEF FrameInv, LinkInv
<1>12. g.todo = Top.todo /\ g.name = Top.name
  BY <1>6
<1>13. QED
  BY <1>1, <1>11, <1>12, StayStep DEF g

LEMMA ToAddFacts ==
  ASSUME NEW t, NEW m \in ToAdd(ManagersOf(t))
  PROVE  /\ t.type = "install" /\ t.package \in DOMAIN cluster.packages
         /\ m \in DOMAIN input.pms /\ m \in ToSet(cluster.packages[t.package])
<1>1. m \in FirstKnown(ManagersOf(t))
  BY DEF ToAdd
<1>2. PICK i \in DOMAIN ManagersOf(t) : m = ManagersOf(t)[i] /\ m \in DOMAIN input.pms
  BY <1>1 DEF FirstKnown
<1>3. CASE t.type = "install" /\ t.package \in DOMAIN cluster.packages
  <2>1. ManagersOf(t) = cluster.packages[t.package]
    BY <1>3 DEF ManagersOf
  <2>2. QED
    BY <1>2, <1>3, <2>1 DEF ToSet
<1>4. CASE ~(t.type = "install" /\ t.package \in DOMAIN cluster.packages)
  <2>1. ManagersOf(t) = <<>>
    BY <1>4 DEF ManagersOf
  <2>2. QED
    BY <1>2, <2>1, EmptySequence
<1>5. QED
  BY <1>3, <1>4

LEMMA TaskManagerStep ==
  ASSUME FInv, TaskManager
  PROVE  FInv'
<1>1. /\ result = "" /\ stack # <<>> /\ Top.pc = "tasks" /\ Len(Top.tasks) < Len(Source)
      /\ UNCHANGED <<input, features, cluster, feats, at, built>>
  BY DEF TaskManager, AtTask, Running
<1>2. PICK m \in ToAdd(ManagersOf(NextTask)) :
        Enter(Replace([Top EXCEPT !.pc = "manager", !.manager = m]), input.pms[m].requires)
  BY DEF TaskManager
<1> DEFINE g     == [Top EXCEPT !.pc = "manager", !.manager = m]
           st    == Replace(g)
           names == input.pms[m].requires
           k     == Len(Top.tasks) + 1
           p     == NextTask.package
           own   == TasksFor(input.features[Top.name[1]], Os)
<1>3. /\ Typed /\ ListsRight(World) /\ PackagesRight(World) /\ Calls(World, stack)
      /\ FrameInv(World, Top) /\ LinkInv(World, Top, {})
  BY <1>1, AtCall
<1>4. /\ World.r = input /\ World.flags = Flags /\ World.os = Os /\ World.need = Net
      /\ World.packages = cluster.packages /\ World.offers = Offers
  BY WorldFacts, Zenon
<1>5. Source = TasksFor(Top.feat, World.os) /\ NextTask = Source[k]
  BY <1>4 DEF Source, NextTask
<1>6. /\ FrameTyped(Top) /\ FrameAt(World, Top)
      /\ k \in DOMAIN own /\ own[k].type = NextTask.type /\ own[k].package = p
  BY <1>1, <1>3, <1>4, <1>5, TaskFacts
<1>7. /\ NextTask.type = "install" /\ p \in DOMAIN cluster.packages
      /\ m \in DOMAIN input.pms /\ m \in ToSet(cluster.packages[p])
  BY ToAddFacts
<1>8. PICK o \in Offers : p \in DOMAIN o /\ o[p] = cluster.packages[p]
  BY <1>3, <1>4, <1>7 DEF PackagesRight
<1>9. m \in ManagersFor(p)
  BY <1>7, <1>8, OffersOf
<1>10. g = [todo |-> Top.todo, pc |-> "manager", name |-> Top.name, feat |-> Top.feat,
            own |-> Top.own, org |-> Top.org, tasks |-> Top.tasks, manager |-> m]
  <2>1. Top = [todo |-> Top.todo, pc |-> "tasks", name |-> Top.name, feat |-> Top.feat,
               own |-> Top.own, org |-> Top.org, tasks |-> Top.tasks, manager |-> Top.manager]
    BY <1>1, <1>6 DEF FrameTyped
  <2>2. [Top EXCEPT !.pc = "manager"]
          = [todo |-> Top.todo, pc |-> "manager", name |-> Top.name, feat |-> Top.feat,
             own |-> Top.own, org |-> Top.org, tasks |-> Top.tasks, manager |-> Top.manager]
    BY <2>1
  <2>3. [[todo |-> Top.todo, pc |-> "manager", name |-> Top.name, feat |-> Top.feat,
          own |-> Top.own, org |-> Top.org, tasks |-> Top.tasks, manager |-> Top.manager]
          EXCEPT !.manager = m]
          = [todo |-> Top.todo, pc |-> "manager", name |-> Top.name, feat |-> Top.feat,
             own |-> Top.own, org |-> Top.org, tasks |-> Top.tasks, manager |-> m]
    OBVIOUS
  <2>4. QED
    BY <2>2, <2>3, Zenon
<1>11. Enter(st, names)
  BY <1>2
<1> HIDE DEF g, own, p, k
<1>12. /\ g.todo = Top.todo /\ g.pc = "manager" /\ g.name = Top.name /\ g.feat = Top.feat
       /\ g.own = Top.own /\ g.org = Top.org /\ g.tasks = Top.tasks /\ g.manager = m
  BY <1>10
<1>13. FrameInv(World, g)
  <2>1. FrameTyped(g) /\ FrameAt(World, g)
    BY <1>1, <1>6, <1>10 DEF FrameTyped, FrameAt
  <2>2. Len(g.tasks) <= Len(TasksFor(g.feat, World.os))
    BY <1>1, <1>3, <1>12 DEF FrameInv
  <2>3. FrameManager(World, g)
    BY <1>1, <1>4, <1>5, <1>7, <1>8, <1>12 DEF FrameManager, k, p
  <2>4. "known" \in Flags => FrameKnown(World, g)
    <3>1. "known" \in Flags => FrameKnown(World, Top)
      BY <1>3, <1>4 DEF FrameInv
    <3>2. QED
      BY <1>1, <1>4, <1>12, <3>1 DEF FrameKnown
  <2>5. QED
    BY <1>4, <1>12, <2>1, <2>2, <2>3, <2>4 DEF FrameInv
<1>14. Top.name[1] \in DOMAIN input.features
  BY <1>4, <1>6 DEF FrameAt, KnownIn
<1>15. LinkInv(World, g, ToSet(names))
  <2>1. \A n \in ToSet(names) : n[1] \in DOMAIN input.features => n[1] \in MayNeed(Top.name[1])
    <3>1. SUFFICES ASSUME NEW n \in ToSet(names), n[1] \in DOMAIN input.features
                   PROVE  n[1] \in MayNeed(Top.name[1])
      OBVIOUS
    <3>2. QED
      BY <1>6, <1>7, <1>9, <1>14, <3>1, MayNeedManager DEF own
  <2>2. QED
    BY <1>4, <1>12, <1>14, <2>1 DEF LinkInv, Net, KnownIn
<1>16. /\ CallsTo(World, st, ToSet(names))
       /\ "known" \in Flags => First(stack) \subseteq First(st) \cup Have(World)
  <2>1. g.todo = Last(stack).todo /\ g.name = Last(stack).name /\ Last(stack).pc # "loop"
    BY <1>1, <1>12 DEF Top
  <2>2. QED
    BY <1>1, <1>3, <1>4, <1>13, <1>15, <2>1, WentOn DEF Replace
<1>17. st # <<>> /\ Last(st).pc = "manager"
  <2>1. Sequence(stack)
    BY <1>3 DEF Calls, CallsTo
  <2>2. Last(st) = g /\ Len(st) = Len(stack) /\ Sequence(st)
    BY <1>1, <2>1, Replaced DEF Replace
  <2>3. st # <<>>
    BY <1>1, <2>1, <2>2, SeqFacts
  <2>4. QED
    BY <1>12, <2>2, <2>3
<1>18. "known" \in Flags => \A n \in ToSet(names) : KnownIn(input, n)
  BY <1>7, FlagFacts DEF NoneMissing, KnownIn
<1> HIDE DEF st
<1>19. \/ Calls(World, stack') /\ First(stack') = First(st) /\ result' = result
       \/ stack' = st /\ result' = "overflow" /\ "simple" \notin Flags
  <2>1. /\ IsFiniteSet(DOMAIN input.features) /\ MaxDepth \in Nat
        /\ Cardinality(DOMAIN input.features) < MaxDepth /\ Sequence(names)
    BY <1>3, <1>7, ConfigFacts
  <2>2. QED
    BY <1>4, <1>11, <1>16, <1>17, <1>18, <2>1, Entered
<1>20. CASE Calls(World, stack') /\ First(stack') = First(st) /\ result' = result
  BY <1>1, <1>3, <1>16, <1>20, SameFeatures, QuietCall
<1>21. CASE stack' = st /\ result' = "overflow" /\ "simple" \notin Flags
  BY <1>1, <1>3, <1>21, FlagFacts, SameFeatures, CallEnds
<1>22. QED
  BY <1>19, <1>20, <1>21

LEMMA ManagerAddedStep ==
  ASSUME FInv, ManagerAdded
  PROVE  FInv'
<1> DEFINE g == [Top EXCEPT !.pc = "tasks", !.tasks = Converted]
           k == Len(Top.tasks) + 1
           c == Convert(NextTask, cluster.packages)
           m == [name |-> Top.manager, root |-> FALSE]
           w == World
           v == World'
<1>1. /\ result = "" /\ stack # <<>> /\ Top.pc = "manager" /\ stack' = Replace(g)
      /\ cluster' = [cluster EXCEPT !.managers = Append(@, m)]
      /\ UNCHANGED <<input, features, feats, at, built, result>>
  BY DEF ManagerAdded, Running
<1>2. /\ Typed /\ ListsRight(w) /\ PackagesRight(w) /\ Calls(w, stack)
      /\ FrameInv(w, Top) /\ LinkInv(w, Top, {}) /\ InService /\ at.pc # "cluster"
      /\ w.feats = feats
  BY <1>1, AtCall
<1>3. /\ w.r = input /\ w.flags = Flags /\ w.os = Os
      /\ w.packages = cluster.packages /\ w.managers = cluster.managers
      /\ w.system = cluster.system
  BY WorldFacts, Zenon
<1>4. /\ cluster'.managers = Append(cluster.managers, m)
      /\ cluster'.packages = cluster.packages /\ cluster'.system = cluster.system
      /\ cluster'.services = cluster.services
      /\ cluster' = [managers |-> cluster'.managers, packages |-> cluster'.packages,
                     system |-> cluster'.system, services |-> cluster'.services]
  <2>1. cluster = [managers |-> cluster.managers, packages |-> cluster.packages,
                   system |-> cluster.system, services |-> cluster.services]
    BY <1>2 DEF Typed
  <2> HIDE DEF m
  <2>2. cluster' = [managers |-> Append(cluster.managers, m), packages |-> cluster.packages,
                    system |-> cluster.system, services |-> cluster.services]
    BY <1>1, <2>1
  <2>3. QED
    BY <2>2
<1>5. /\ v.r = w.r /\ v.flags = w.flags /\ v.need = w.need /\ v.offers = w.offers
      /\ v.os = w.os /\ v.system = w.system /\ v.packages = w.packages /\ v.feats = w.feats
      /\ v.managers = Append(w.managers, m)
  BY <1>1, <1>2, <1>3, <1>4, NextWorld
<1> HIDE DEF w, v
<1>6. Grows(w, v) /\ Sequence(v.managers)
  <2>1. Sequence(w.system) /\ Sequence(w.feats) /\ Sequence(w.managers)
    BY <1>2 DEF ListsRight
  <2>2. Longer(w.system, v.system) /\ Longer(w.feats, v.feats)
    BY <1>5, <2>1, SeqFacts DEF Longer
  <2>3. Longer(w.managers, v.managers)
    <3> HIDE DEF m
    <3>1. /\ Sequence(v.managers) /\ Len(v.managers) = Len(w.managers) + 1
          /\ \A i \in DOMAIN w.managers : v.managers[i] = w.managers[i]
      BY <1>5, <2>1, Appended
    <3>2. Len(w.managers) \in Nat
      BY <2>1, SeqFacts
    <3>3. QED
      BY <2>1, <3>1, <3>2 DEF Longer
  <2>4. QED
    BY <1>5, <2>2, <2>3 DEF Grows, Longer
<1>7. ManagersIn(v) = ManagersIn(w) \cup {Top.manager}
  <2>1. ToSet(v.managers) = ToSet(w.managers) \cup {m}
    <3> HIDE DEF m
    <3>1. Sequence(w.managers)
      BY <1>2 DEF ListsRight
    <3>2. QED
      BY <1>5, <3>1, AppendedSet
  <2>2. m.name = Top.manager
    OBVIOUS
  <2> HIDE DEF m
  <2>3. ManagersIn(v) = {x.name : x \in ToSet(w.managers) \cup {m}}
    BY <2>1 DEF ManagersIn
  <2>4. ManagersIn(w) = {x.name : x \in ToSet(w.managers)}
    BY DEF ManagersIn
  <2>5. QED
    BY <2>2, <2>3, <2>4
<1>8. Have(v) = Have(w)
  BY <1>5 DEF Have
<1>9. /\ Source = TasksFor(Top.feat, w.os) /\ NextTask = Source[k]
      /\ Converted = Append(Top.tasks, c)
  BY <1>3, Zenon DEF Source, NextTask, Converted
<1>10. FrameManager(w, Top)
  BY <1>1, <1>2 DEF FrameInv
<1>11. /\ Len(Top.tasks) < Len(Source) /\ NextTask.type = "install"
       /\ NextTask.package \in DOMAIN cluster.packages
       /\ "plain" \in Flags => Top.manager \in ToSet(cluster.packages[NextTask.package])
  <2>1. LET src == TasksFor(Top.feat, w.os)
            p   == src[k].package
        IN  /\ Len(Top.tasks) < Len(src) /\ src[k].type = "install"
            /\ p \in DOMAIN w.packages
            /\ "plain" \in w.flags => Top.manager \in ToSet(w.packages[p])
    BY <1>10, Zenon DEF FrameManager
  <2> HIDE DEF k
  <2>2. QED
    BY <1>3, <1>9, <2>1
<1>12. /\ Sequence(Top.tasks) /\ Len(Top.tasks) \in Nat /\ Len(Source) \in Nat
       /\ k <= Len(Source) /\ IsTask(NextTask) /\ FrameTyped(Top) /\ FrameAt(w, Top)
       /\ TasksFor(input.features[Top.name[1]], Os)[k].package = NextTask.package
  BY <1>1, <1>2, <1>3, <1>9, <1>11, TaskFacts, Zenon
<1>13. g = [todo |-> Top.todo, pc |-> "tasks", name |-> Top.name, feat |-> Top.feat,
            own |-> Top.own, org |-> Top.org, tasks |-> Converted, manager |-> Top.manager]
  <2> HIDE DEF k, c
  <2>1. Top = [todo |-> Top.todo, pc |-> "manager", name |-> Top.name, feat |-> Top.feat,
               own |-> Top.own, org |-> Top.org, tasks |-> Top.tasks, manager |-> Top.manager]
    BY <1>1, <1>12 DEF FrameTyped
  <2>2. [Top EXCEPT !.pc = "tasks"]
          = [todo |-> Top.todo, pc |-> "tasks", name |-> Top.name, feat |-> Top.feat,
             own |-> Top.own, org |-> Top.org, tasks |-> Top.tasks, manager |-> Top.manager]
    BY <2>1
  <2>3. [[todo |-> Top.todo, pc |-> "tasks", name |-> Top.name, feat |-> Top.feat,
          own |-> Top.own, org |-> Top.org, tasks |-> Top.tasks, manager |-> Top.manager]
          EXCEPT !.tasks = Converted]
          = [todo |-> Top.todo, pc |-> "tasks", name |-> Top.name, feat |-> Top.feat,
             own |-> Top.own, org |-> Top.org, tasks |-> Converted, manager |-> Top.manager]
    OBVIOUS
  <2>4. QED
    BY <2>2, <2>3, Zenon
<1> HIDE DEF g, c
<1>14. /\ g.todo = Top.todo /\ g.pc = "tasks" /\ g.name = Top.name /\ g.feat = Top.feat
       /\ g.own = Top.own /\ g.org = Top.org /\ g.tasks = Converted
  BY <1>13
<1>15. Sequence(Converted) /\ Len(Converted) = k
  BY <1>9, <1>12, Appended
<1>16. ASSUME "known" \in Flags
       PROVE  Ready(v, Top.manager, Names(v.system))
  <2>1. ToSet(w.r.pms[Top.manager].requires) \subseteq Have(w)
    BY <1>1, <1>2, <1>3, <1>16 DEF LinkInv
  <2>2. \A n \in Names(w.feats) : IsOwnOf(w.r, w.os, n)
    BY <1>2, <1>3, <1>16 DEF ListsRight, ListRight, Names
  <2>3. QED
    BY <1>5, <2>1, <2>2 DEF Ready, Have
<1>17. ASSUME "known" \in Flags PROVE FrameKnown(v, g)
  <2>1. FrameKnown(w, Top)
    BY <1>2, <1>3, <1>17 DEF FrameInv
  <2>2. ASSUME "plain" \in Flags
        PROVE  TasksPossible(v, Top.name, Converted, Names(v.system))
    <3>1. TasksPossible(w, Top.name, Top.tasks, Names(w.system))
      BY <1>1, <1>3, <2>1, <2>2 DEF FrameKnown
    <3>2. TasksPossible(v, Top.name, Top.tasks, Names(v.system))
      BY <1>3, <1>5, <1>6, <1>17, <3>1, PossibleGrows
    <3>3. /\ c.type = "" => NextTask.package \notin DOMAIN cluster.packages
          /\ c.type = "install" => c.managers = cluster.packages[NextTask.package]
      BY <1>12, ConvertFacts DEF c
    <3>4. c.type = "install" => Can(v, c, Names(v.system))
      BY <1>7, <1>11, <1>16, <1>17, <2>2, <3>3 DEF Can
    <3>5. c.type # ""
      BY <1>11, <3>3
    <3>6. QED
      BY <1>9, <1>12, <3>2, <3>4, <3>5, OneMoreTask
  <2>3. QED
    BY <1>1, <1>3, <1>5, <1>8, <1>14, <2>1, <2>2 DEF FrameKnown, ListIn
<1>18. FrameInv(v, g) /\ LinkInv(v, g, {})
  <2>1. FrameTyped(g) /\ FrameAt(v, g)
    BY <1>1, <1>5, <1>12, <1>13, <1>15 DEF FrameTyped, FrameAt
  <2>2. Len(g.tasks) <= Len(TasksFor(g.feat, v.os))
    BY <1>5, <1>9, <1>12, <1>14, <1>15
  <2>3. QED
    BY <1>3, <1>5, <1>14, <1>17, <2>1, <2>2 DEF FrameInv, LinkInv
<1>19. /\ Calls(v, Replace(g))
       /\ "known" \in Flags => First(stack) \subseteq First(Replace(g)) \cup Have(v)
  <2>1. CallsTo(w, stack, {}) /\ Sequence(stack)
    BY <1>2 DEF Calls, CallsTo
  <2>2. g.todo = Last(stack).todo /\ g.name = Last(stack).name /\ Last(stack).pc # "loop"
    BY <1>1, <1>14 DEF Top
  <2>3. "simple" \in w.flags => Distinct(Append(Front(stack), g))
    BY <1>1, <2>1, <2>2, DistinctKept DEF CallsTo
  <2>4. "known" \in w.flags /\ "simple" \in w.flags =>
          \A i \in 1 .. Len(stack) - 1 : stack[i].pc = "manager" =>
            stack[i].name \notin Names(ListIn(v, stack[i].own))
    BY <1>5, <2>1, LowerFresh DEF ListIn
  <2>5. ToSet(g.todo) \subseteq ToSet(Last(stack).todo)
        /\ ToSet(Last(stack).todo) \subseteq ToSet(g.todo) \cup Have(v)
    BY <2>2
  <2>6. QED
    BY <1>1, <1>3, <1>6, <1>18, <2>1, <2>3, <2>4, <2>5, Swapped DEF Replace, Calls
<1>20. ListsRight(v)
  <2>1. ASSUME "known" \in Flags
        PROVE  /\ ListRight(v, v.system, FALSE) /\ ListRight(v, v.feats, TRUE)
               /\ \A n \in Names(v.feats) : NeedsOf(v.r, n) \subseteq Have(v)
               /\ \A n \in ManagersIn(v) : Ready(v, n, Names(v.system))
    <3>1. /\ ListRight(w, w.system, FALSE) /\ ListRight(w, w.feats, TRUE)
          /\ \A n \in Names(w.feats) : NeedsOf(w.r, n) \subseteq Have(w)
          /\ \A n \in ManagersIn(w) : Ready(w, n, Names(w.system))
      BY <1>2, <1>3, <2>1 DEF ListsRight
    <3>2. ListRight(v, v.system, FALSE) /\ ListRight(v, v.feats, TRUE)
      BY <1>5, <3>1 DEF ListRight
    <3>3. ASSUME NEW x \in ManagersIn(w) PROVE Ready(v, x, Names(v.system))
      <4>1. Ready(w, x, Names(w.system))
        BY <3>1
      <4>2. QED
        BY <1>5, <4>1 DEF Ready
    <3>4. QED
      BY <1>5, <1>7, <1>8, <1>16, <2>1, <3>1, <3>2, <3>3
  <2>2. ASSUME "known" \in Flags, "plain" \in Flags, NEW i \in DOMAIN v.system
        PROVE  TasksPossible(v, v.system[i].name, v.system[i].tasks, NamesBefore(v.system, i))
    <3>1. TasksPossible(w, w.system[i].name, w.system[i].tasks, NamesBefore(w.system, i))
      BY <1>2, <1>3, <1>5, <2>2 DEF ListsRight
    <3>2. QED
      BY <1>3, <1>5, <1>6, <2>2, <3>1, PossibleGrows
  <2>3. Sequence(v.system) /\ Sequence(v.feats) /\ Sequence(v.managers)
    BY <1>2, <1>5, <1>6 DEF ListsRight
  <2>4. QED
    BY <1>3, <1>5, <2>1, <2>2, <2>3 DEF ListsRight
<1>21. PackagesRight(v)
  BY <1>2, <1>5, <1>8 DEF PackagesRight
<1>22. QED
  BY <1>1, <1>2, <1>3, <1>4, <1>8, <1>19, <1>20, <1>21, SameFeatures, CallStep DEF w, v

-----------------------------------------------------------------------------
(* A feature is put at the end of its list.                                *)

LEMMA LongerAppended ==
  ASSUME NEW l, Sequence(l), NEW f
  PROVE  Longer(l, l) /\ Longer(l, Append(l, f))
<1> DEFINE t == Append(l, f)
<1>1. /\ Sequence(t) /\ Len(t) = Len(l) + 1 /\ \A i \in DOMAIN l : t[i] = l[i]
  BY Appended
<1>2. Len(l) \in Nat
  BY SeqFacts
<1> HIDE DEF t
<1>3. Longer(l, t)
  BY <1>1, <1>2 DEF Longer
<1>4. Longer(l, l)
  BY <1>2 DEF Longer
<1>5. QED
  BY <1>3, <1>4 DEF t

LEMMA BeforeSame ==
  ASSUME NEW l, Sequence(l), NEW f
  PROVE  /\ \A i \in DOMAIN l : NamesBefore(Append(l, f), i) = NamesBefore(l, i)
         /\ NamesBefore(Append(l, f), Len(l) + 1) = Names(l)
<1> DEFINE t == Append(l, f)
           n == Len(l)
<1>1. n \in Nat /\ DOMAIN l = 1 .. n /\ \A i \in DOMAIN l : t[i] = l[i]
  BY SeqFacts, Appended
<1> HIDE DEF t, n
<1>2. ASSUME NEW i \in DOMAIN l PROVE NamesBefore(t, i) = NamesBefore(l, i)
  <2>1. \A j \in 1 .. i - 1 : j \in DOMAIN l
    BY <1>1
  <2>2. \A j \in 1 .. i - 1 : t[j].name = l[j].name
    BY <1>1, <2>1
  <2>3. QED
    BY <2>2 DEF NamesBefore
<1>3. NamesBefore(t, n + 1) = Names(l)
  <2> DEFINE k == n + 1
  <2>1. 1 .. k - 1 = DOMAIN l
    BY <1>1
  <2>2. \A j \in DOMAIN l : t[j].name = l[j].name
    BY <1>1
  <2> HIDE DEF k
  <2>3. NamesBefore(t, k) = {t[j].name : j \in DOMAIN l}
    BY <2>1 DEF NamesBefore
  <2>4. NamesBefore(t, k) = Names(l)
    BY <2>2, <2>3 DEF Names
  <2>5. QED
    BY <2>4 DEF k
<1>4. QED
  BY <1>2, <1>3 DEF t, n

LEMMA ListSame ==
  ASSUME NEW w, NEW v, NEW l, NEW own, ListRight(w, l, own),
         v.r = w.r, v.os = w.os, v.flags = w.flags
  PROVE  ListRight(v, l, own)
BY DEF ListRight

LEMMA ListAppended ==
  ASSUME NEW w, NEW v, NEW l, NEW f, NEW own, Sequence(l), ListRight(w, l, own),
         v.r = w.r, v.os = w.os, v.flags = w.flags,
         KnownIn(w.r, f.name), IsOwnOf(w.r, w.os, f.name) <=> own,
         \A n \in NeedsOf(w.r, f.name) : (IsOwnOf(w.r, w.os, n) <=> own) => n \in Names(l),
         "simple" \in w.flags => f.name \notin Names(l)
  PROVE  ListRight(v, Append(l, f), own)
<1> DEFINE t == Append(l, f)
           k == Len(l)
<1>1. k \in Nat /\ DOMAIN l = 1 .. k
  BY SeqFacts
<1>2. /\ Sequence(t) /\ Len(t) = k + 1 /\ t[k + 1] = f
      /\ \A i \in DOMAIN l : t[i] = l[i]
  BY Appended
<1> HIDE DEF t, k
<1>3. DOMAIN t = 1 .. k + 1
  BY <1>2, SeqFacts
<1>4. \A i \in 1 .. k + 1 : i \in 1 .. k \/ i = k + 1
  BY <1>1, OneMore
<1>5. \A i \in DOMAIN t : i \in DOMAIN l \/ i = k + 1
  BY <1>1, <1>3, <1>4
<1>6. \A i \in DOMAIN l : \A j \in 1 .. i - 1 : j \in DOMAIN l
  BY <1>1
<1>7. 1 .. (k + 1) - 1 = DOMAIN l
  BY <1>1
<1>8. ASSUME NEW i \in DOMAIN t
      PROVE  /\ KnownIn(v.r, t[i].name)
             /\ IsOwnOf(v.r, v.os, t[i].name) <=> own
             /\ \A n \in NeedsOf(v.r, t[i].name) :
                  (IsOwnOf(v.r, v.os, n) <=> own) => \E j \in 1 .. i - 1 : t[j].name = n
  <2>1. CASE i \in DOMAIN l
    <3>1. t[i] = l[i] /\ \A j \in 1 .. i - 1 : t[j] = l[j]
      BY <1>2, <1>6, <2>1
    <3>2. QED
      BY <2>1, <3>1 DEF ListRight
  <2>2. CASE i = k + 1
    <3>1. \A n \in Names(l) : \E j \in 1 .. (k + 1) - 1 : t[j].name = n
      BY <1>2, <1>7 DEF Names
    <3>2. QED
      BY <1>2, <2>2, <3>1
  <2>3. QED
    BY <1>5, <2>1, <2>2
<1>9. ASSUME "simple" \in v.flags, NEW i \in DOMAIN t, NEW j \in DOMAIN t,
             t[i].name = t[j].name
      PROVE  i = j
  <2>1. \A a \in DOMAIN l : t[a].name # f.name
    BY <1>2, <1>9 DEF Names
  <2>2. \A a, b \in DOMAIN l : t[a].name = t[b].name => a = b
    BY <1>2, <1>9 DEF ListRight
  <2>3. QED
    BY <1>2, <1>5, <1>9, <2>1, <2>2
<1>10. QED
  BY <1>8, <1>9 DEF ListRight, t

(* What is appended to the list of the system can be installed. *)
LEMMA PossibleAppended ==
  ASSUME NEW w, NEW v, NEW f, Sequence(w.system), v.system = Append(w.system, f), Grows(w, v),
         "known" \in w.flags,
         \A i \in DOMAIN w.system :
           TasksPossible(w, w.system[i].name, w.system[i].tasks, NamesBefore(w.system, i)),
         TasksPossible(w, f.name, f.tasks, Names(w.system))
  PROVE  \A i \in DOMAIN v.system :
           TasksPossible(v, v.system[i].name, v.system[i].tasks, NamesBefore(v.system, i))
<1> DEFINE l == w.system
           t == v.system
           k == Len(l)
<1>1. k \in Nat /\ DOMAIN l = 1 .. k
  BY SeqFacts
<1>2. /\ Sequence(t) /\ Len(t) = k + 1 /\ t[k + 1] = f
      /\ \A i \in DOMAIN l : t[i] = l[i]
  BY Appended
<1>3. /\ \A i \in DOMAIN l : NamesBefore(t, i) = NamesBefore(l, i)
      /\ NamesBefore(t, k + 1) = Names(l)
  BY BeforeSame
<1>4. \A i \in DOMAIN l : TasksPossible(w, l[i].name, l[i].tasks, NamesBefore(l, i))
  OBVIOUS
<1>5. TasksPossible(w, f.name, f.tasks, Names(l))
  OBVIOUS
<1> HIDE DEF l, t, k
<1>6. DOMAIN t = 1 .. k + 1
  BY <1>2, SeqFacts
<1>7. \A i \in 1 .. k + 1 : i \in 1 .. k \/ i = k + 1
  BY <1>1, OneMore
<1>8. \A i \in DOMAIN t : TasksPossible(w, t[i].name, t[i].tasks, NamesBefore(t, i))
  BY <1>1, <1>2, <1>3, <1>4, <1>5, <1>6, <1>7
<1>9. \A i \in DOMAIN t : TasksPossible(v, t[i].name, t[i].tasks, NamesBefore(t, i))
  BY <1>8, PossibleGrows
<1>10. QED
  BY <1>9 DEF t

LEMMA AlikeFields ==
  ASSUME NEW f, NEW g, Alike(f, g)
  PROVE  f.requires = g.requires /\ f.packages = g.packages
BY DEF Alike

(* The packages with those of the feature. *)
LEMMA WithFacts ==
  ASSUME NEW packages, NEW more
  PROVE  /\ DOMAIN With(packages, more) = DOMAIN packages \cup DOMAIN more
         /\ \A p \in DOMAIN packages \cup DOMAIN more :
              With(packages, more)[p] = IF p \in DOMAIN more THEN more[p] ELSE packages[p]
BY DEF With

LEMMA FeatureDoneStep ==
  ASSUME FInv, FeatureDone
  PROVE  FInv'
<1> DEFINE f    == [name |-> Top.name, tasks |-> Top.tasks]
           w    == World
           v    == World'
           more == Top.feat.packages
<1>1. /\ result = "" /\ stack # <<>> /\ Top.pc = "tasks" /\ stack' = Replace(Skip(Top))
      /\ feats' = (IF Top.own THEN Append(feats, f) ELSE feats)
      /\ cluster' = [cluster EXCEPT
                       !.system   = IF Top.own THEN @ ELSE Append(@, f),
                       !.packages = With(@, more)]
      /\ UNCHANGED <<input, features, at, built, result>>
  BY DEF FeatureDone, Running
<1>2. /\ Typed /\ ListsRight(w) /\ PackagesRight(w) /\ Calls(w, stack)
      /\ FrameInv(w, Top) /\ LinkInv(w, Top, {}) /\ InService /\ at.pc # "cluster"
      /\ w.feats = feats /\ Top = stack[Len(stack)] /\ Sequence(stack)
  BY <1>1, AtCall
<1>3. /\ w.r = input /\ w.flags = Flags /\ w.os = Os /\ w.offers = Offers
      /\ w.packages = cluster.packages /\ w.managers = cluster.managers
      /\ w.system = cluster.system
  BY WorldFacts, Zenon
<1>4. /\ FrameTyped(Top) /\ FrameAt(w, Top)
  BY <1>1, <1>2, TaskFacts, Zenon
<1>5. f.name = Top.name /\ f.tasks = Top.tasks
  OBVIOUS
<1> HIDE DEF f
<1>6. /\ cluster'.managers = cluster.managers
      /\ cluster'.packages = With(cluster.packages, more)
      /\ cluster'.system = (IF Top.own THEN cluster.system ELSE Append(cluster.system, f))
      /\ cluster'.services = cluster.services
      /\ cluster' = [managers |-> cluster'.managers, packages |-> cluster'.packages,
                     system |-> cluster'.system, services |-> cluster'.services]
  <2> DEFINE sys == IF Top.own THEN cluster.system ELSE Append(cluster.system, f)
             pkg == With(cluster.packages, more)
  <2>1. cluster = [managers |-> cluster.managers, packages |-> cluster.packages,
                   system |-> cluster.system, services |-> cluster.services]
    BY <1>2 DEF Typed
  <2>2. cluster' = [cluster EXCEPT !.system = sys, !.packages = pkg]
    BY <1>1
  <2> HIDE DEF sys, pkg
  <2>3. [cluster EXCEPT !.system = sys]
          = [managers |-> cluster.managers, packages |-> cluster.packages,
             system |-> sys, services |-> cluster.services]
    BY <2>1
  <2>4. [[managers |-> cluster.managers, packages |-> cluster.packages,
             system |-> sys, services |-> cluster.services] EXCEPT !.packages = pkg]
          = [managers |-> cluster.managers, packages |-> pkg,
             system |-> sys, services |-> cluster.services]
    OBVIOUS
  <2>5. cluster' = [managers |-> cluster.managers, packages |-> pkg,
                    system |-> sys, services |-> cluster.services]
    BY <2>2, <2>3, <2>4, Zenon
  <2>6. QED
    BY <2>5 DEF sys, pkg
<1>7. /\ v.r = w.r /\ v.flags = w.flags /\ v.need = w.need /\ v.offers = w.offers
      /\ v.os = w.os /\ v.managers = w.managers
      /\ v.packages = With(w.packages, more)
      /\ v.system = (IF Top.own THEN w.system ELSE Append(w.system, f))
      /\ v.feats = (IF Top.own THEN Append(w.feats, f) ELSE w.feats)
  BY <1>1, <1>2, <1>3, <1>6, NextWorld
<1> HIDE DEF w, v
<1>8. /\ Top.own \in BOOLEAN /\ (Top.own <=> IsOwnOf(w.r, w.os, f.name))
      /\ KnownIn(w.r, f.name) /\ Top.todo # <<>> /\ f.name = Head(Top.todo)
      /\ more = w.r.features[f.name[1]].packages
  <2>1. /\ Top.own \in BOOLEAN /\ (Top.own <=> IsOwnOf(w.r, w.os, Top.name))
        /\ KnownIn(w.r, Top.name) /\ Top.todo # <<>> /\ Top.name = Head(Top.todo)
        /\ Alike(Top.feat, w.r.features[Top.name[1]])
    BY <1>4 DEF FrameAt
  <2>2. Top.feat.packages = w.r.features[Top.name[1]].packages
    BY <2>1, AlikeFields
  <2>3. QED
    BY <1>5, <2>1, <2>2
<1>9. more \in w.offers
  BY <1>3, <1>8, OfferedBy DEF KnownIn
<1>10. /\ DOMAIN v.packages = DOMAIN w.packages \cup DOMAIN more
       /\ \A p \in DOMAIN v.packages :
            v.packages[p] = IF p \in DOMAIN more THEN more[p] ELSE w.packages[p]
  <2> HIDE DEF more
  <2>1. v.packages = With(w.packages, more)
    BY <1>7
  <2>2. DOMAIN v.packages = DOMAIN w.packages \cup DOMAIN more
    BY <2>1, WithFacts
  <2>3. \A p \in DOMAIN w.packages \cup DOMAIN more :
          With(w.packages, more)[p] = IF p \in DOMAIN more THEN more[p] ELSE w.packages[p]
    BY WithFacts
  <2>4. QED
    BY <2>1, <2>2, <2>3
<1> HIDE DEF more
<1>11. Sequence(w.system) /\ Sequence(w.feats) /\ Sequence(w.managers)
  BY <1>2 DEF ListsRight
<1>12. Longer(w.system, v.system) /\ Longer(w.feats, v.feats) /\ Longer(w.managers, v.managers)
  BY <1>7, <1>11, LongerAppended
<1>13. Grows(w, v)
  <2>1. ASSUME "plain" \in w.flags, NEW p \in DOMAIN w.packages
        PROVE  v.packages[p] = w.packages[p]
    <3>1. PICK o \in w.offers : p \in DOMAIN o /\ o[p] = w.packages[p]
      BY <1>2 DEF PackagesRight
    <3>2. p \in DOMAIN more => more[p] = o[p]
      BY <1>3, <1>9, <2>1, <3>1, FlagFacts DEF Unambiguous
    <3>3. QED
      BY <1>10, <3>1, <3>2
  <2>2. QED
    BY <1>7, <1>10, <1>12, <2>1 DEF Grows
<1>14. /\ Names(v.system) = Names(w.system) \cup (IF Top.own THEN {} ELSE {f.name})
       /\ Names(v.feats) = Names(w.feats) \cup (IF Top.own THEN {f.name} ELSE {})
  BY <1>7, <1>8, <1>11, NamesAppended
<1>15. Have(v) = Have(w) \cup {f.name}
  BY <1>8, <1>14 DEF Have
<1>16. ASSUME "known" \in w.flags
       PROVE  /\ FrameKnown(w, Top) /\ NeedsOf(w.r, f.name) \subseteq Have(w)
              /\ "simple" \in w.flags => f.name \notin Names(ListIn(w, Top.own))
  <2>1. FrameKnown(w, Top)
    BY <1>2, <1>16 DEF FrameInv
  <2>2. QED
    BY <1>1, <1>5, <2>1 DEF FrameKnown
<1>17. /\ Calls(v, Replace(Skip(Top)))
       /\ "known" \in w.flags => First(stack) \subseteq First(Replace(Skip(Top))) \cup Have(v)
  <2>1. ASSUME "known" \in w.flags, "simple" \in w.flags, NEW i \in 1 .. Len(stack) - 1,
               stack[i].pc = "manager"
        PROVE  stack[i].name \notin Names(ListIn(v, stack[i].own))
    <3>1. stack[i].name \notin Names(ListIn(w, stack[i].own))
      BY <1>2, <2>1, LowerFresh DEF Calls
    <3>2. Distinct(stack)
      BY <1>2, <2>1 DEF Calls, CallsTo
    <3>3. Len(stack) \in Nat /\ DOMAIN stack = 1 .. Len(stack)
      <4>1. Sequence(stack)
        BY <1>2
      <4>2. QED
        BY <4>1, SeqFacts, Zenon
    <3>4. i \in DOMAIN stack /\ Len(stack) \in DOMAIN stack /\ i # Len(stack)
      <4>1. stack # <<>> /\ Len(stack) # 0
        BY <1>1, <1>2, SeqFacts
      <4> DEFINE k == Len(stack)
      <4>2. k \in Nat /\ k # 0 /\ DOMAIN stack = 1 .. k /\ i \in 1 .. k - 1
        BY <3>3, <4>1
      <4> HIDE DEF k
      <4>3. i \in 1 .. k /\ k \in 1 .. k /\ i # k
        BY <4>2
      <4>4. QED
        BY <4>2, <4>3, Zenon DEF k
    <3>5. stack[i].name # Top.name
      BY <1>1, <1>2, <2>1, <3>2, <3>4 DEF Distinct
    <3>6. QED
      BY <1>5, <1>14, <3>1, <3>5 DEF ListIn
  <2>2. Head(Last(stack).todo) \in Have(v) /\ Last(stack).todo # <<>>
    BY <1>8, <1>15 DEF Top
  <2>3. QED
    BY <1>1, <1>2, <1>13, <2>1, <2>2, Skipped DEF Replace, Top
<1>18. ListsRight(v)
  <2>1. Sequence(v.system) /\ Sequence(v.feats) /\ Sequence(v.managers)
    BY <1>12 DEF Longer
  <2>2. SUFFICES ASSUME "known" \in w.flags
        PROVE  /\ ListRight(v, v.system, FALSE) /\ ListRight(v, v.feats, TRUE)
               /\ \A n \in Names(v.feats) : NeedsOf(v.r, n) \subseteq Have(v)
               /\ \A m \in ManagersIn(v) : Ready(v, m, Names(v.system))
               /\ "plain" \in v.flags =>
                    \A i \in DOMAIN v.system :
                      TasksPossible(v, v.system[i].name, v.system[i].tasks,
                                    NamesBefore(v.system, i))
    BY <1>7, <2>1 DEF ListsRight
  <2>3. ListRight(w, w.system, FALSE) /\ ListRight(w, w.feats, TRUE)
    BY <1>2, <2>2 DEF ListsRight
  <2>4. /\ \A n \in Names(w.system) : ~IsOwnOf(w.r, w.os, n)
        /\ \A n \in Names(w.feats) : IsOwnOf(w.r, w.os, n)
    BY <2>3 DEF ListRight, Names
  <2>5. /\ \A n \in NeedsOf(w.r, f.name) : ~IsOwnOf(w.r, w.os, n) => n \in Names(w.system)
        /\ \A n \in NeedsOf(w.r, f.name) : IsOwnOf(w.r, w.os, n) => n \in Names(w.feats)
    BY <1>16, <2>2, <2>4 DEF Have
  <2>6. ListRight(v, v.system, FALSE)
    <3>1. CASE Top.own
      BY <1>7, <2>3, <3>1, ListSame
    <3>2. CASE ~Top.own
      <4>1. "simple" \in w.flags => f.name \notin Names(w.system)
        BY <1>16, <2>2, <3>2 DEF ListIn
      <4>2. ListRight(v, Append(w.system, f), FALSE)
        BY <1>7, <1>8, <1>11, <2>3, <2>5, <3>2, <4>1, ListAppended
      <4>3. QED
        BY <1>7, <3>2, <4>2
    <3>3. QED
      BY <3>1, <3>2
  <2>7. ListRight(v, v.feats, TRUE)
    <3>1. CASE ~Top.own
      BY <1>7, <2>3, <3>1, ListSame
    <3>2. CASE Top.own
      <4>1. "simple" \in w.flags => f.name \notin Names(w.feats)
        BY <1>16, <2>2, <3>2 DEF ListIn
      <4>2. ListRight(v, Append(w.feats, f), TRUE)
        BY <1>7, <1>8, <1>11, <2>3, <2>5, <3>2, <4>1, ListAppended
      <4>3. QED
        BY <1>7, <3>2, <4>2
    <3>3. QED
      BY <3>1, <3>2
  <2>8. \A n \in Names(v.feats) : NeedsOf(v.r, n) \subseteq Have(v)
    <3>1. \A n \in Names(w.feats) : NeedsOf(w.r, n) \subseteq Have(w)
      BY <1>2, <2>2 DEF ListsRight
    <3>2. QED
      BY <1>7, <1>14, <1>15, <1>16, <2>2, <3>1
  <2>9. ASSUME NEW m \in ManagersIn(v) PROVE Ready(v, m, Names(v.system))
    <3>1. m \in ManagersIn(w)
      BY <1>7, <2>9 DEF ManagersIn
    <3>2. Ready(w, m, Names(w.system))
      BY <1>2, <2>2, <3>1 DEF ListsRight
    <3>3. QED
      BY <1>7, <1>14, <3>2 DEF Ready
  <2>10. ASSUME "plain" \in v.flags
         PROVE  \A i \in DOMAIN v.system :
                  TasksPossible(v, v.system[i].name, v.system[i].tasks, NamesBefore(v.system, i))
    <3>1. \A i \in DOMAIN w.system :
            TasksPossible(w, w.system[i].name, w.system[i].tasks, NamesBefore(w.system, i))
      BY <1>2, <1>7, <2>2, <2>10 DEF ListsRight
    <3>2. TasksPossible(w, f.name, f.tasks, Names(w.system))
      BY <1>1, <1>5, <1>7, <1>16, <2>2, <2>10 DEF FrameKnown
    <3>3. CASE Top.own
      <4>1. v.system = w.system
        BY <1>7, <3>3
      <4>2. QED
        BY <1>13, <2>2, <3>1, <4>1, PossibleGrows
    <3>4. CASE ~Top.own
      <4>1. v.system = Append(w.system, f)
        BY <1>7, <3>4
      <4>2. QED
        BY <1>11, <1>13, <2>2, <3>1, <3>2, <4>1, PossibleAppended
    <3>5. QED
      BY <3>3, <3>4
  <2>11. QED
    BY <2>6, <2>7, <2>8, <2>9, <2>10
<1>19. PackagesRight(v)
  <2>1. \A p \in DOMAIN v.packages : \E o \in v.offers : p \in DOMAIN o /\ o[p] = v.packages[p]
    <3>1. \A p \in DOMAIN w.packages : \E o \in w.offers : p \in DOMAIN o /\ o[p] = w.packages[p]
      BY <1>2 DEF PackagesRight
    <3>2. QED
      BY <1>7, <1>9, <1>10, <3>1
  <2>2. DOMAIN w.r.packages \subseteq DOMAIN w.packages
    BY <1>2 DEF PackagesRight
  <2>3. "known" \in w.flags => \A n \in Have(w) :
          DOMAIN w.r.features[n[1]].packages \subseteq DOMAIN w.packages
    BY <1>2 DEF PackagesRight
  <2>4. QED
    BY <1>7, <1>8, <1>10, <1>15, <2>1, <2>2, <2>3, Zenon DEF PackagesRight
<1>20. "known" \in Flags =>
         /\ Names(cluster.system) \subseteq Names(cluster'.system)
         /\ Have(w) \subseteq Have(v)
         /\ \A n \in Names(cluster'.system) \ Names(cluster.system) :
              NeedsOf(input, n) \subseteq Have(v)
  <2>1. cluster'.system = v.system
    BY <1>3, <1>6, <1>7
  <2>2. QED
    BY <1>3, <1>14, <1>15, <1>16, <2>1
<1>21. "known" \in Flags => First(stack) \subseteq First(stack') \cup Have(v)
  BY <1>1, <1>3, <1>17
<1>22. QED
  BY <1>1, <1>2, <1>6, <1>17, <1>18, <1>19, <1>20, <1>21, SameFeatures, CallStep DEF w, v

-----------------------------------------------------------------------------
(* The text of the properties and the port.                                *)

LEMMA LessWell == IsWellFoundedOn({x \in Nat \X Nat : x[1] < x[2]}, Nat)
<1> DEFINE R == {x \in Nat \X Nat : x[1] < x[2]}
<1>1. IsWellFoundedOn(OpToRel(<, Nat), Nat)
  BY NatLessThanWellFounded
<1>2. R \cap (Nat \X Nat) \subseteq OpToRel(<, Nat)
  BY DEF OpToRel
<1> HIDE DEF R
<1>3. QED
  BY <1>1, <1>2, IsWellFoundedOnSubrelation DEF R

LEMMA LeastIn ==
  ASSUME NEW S, S \subseteq Nat, S # {}
  PROVE  Min(S) \in S
<1> DEFINE R == {x \in Nat \X Nat : x[1] < x[2]}
<1>1. PICK x \in S : \A y \in S : ~(<<y, x>> \in R)
  <2> HIDE DEF R
  <2>1. IsWellFoundedOn(R, Nat)
    BY LessWell DEF R
  <2>2. QED
    BY <2>1, WFMin
<1>2. ASSUME NEW y \in S PROVE x <= y
  <2>1. x \in Nat /\ y \in Nat /\ <<y, x>> \in Nat \X Nat
    OBVIOUS
  <2>2. ~(y < x)
    BY <1>1, <2>1
  <2>3. QED
    BY <2>1, <2>2
<1>3. \E z \in S : \A y \in S : z <= y
  BY <1>2
<1>4. QED
  BY <1>3, Zenon DEF Min

LEMMA OwnPrefix == \A s : Sequence(s) => IsPrefix(s, s)
BY SeqFacts DEF IsPrefix

LEMMA PutFirst ==
  ASSUME NEW s, Sequence(s), NEW e
  PROVE  /\ Len(<<e>> \o s) = Len(s) + 1 /\ (<<e>> \o s)[1] = e
         /\ DOMAIN (<<e>> \o s) = 1 .. Len(s) + 1
         /\ \A i \in DOMAIN s : (<<e>> \o s)[i + 1] = s[i]
<1>1. PICK S : s \in Seq(S)
  BY DEF Sequence
<1>2. s \in Seq(S \cup {e}) /\ << e >> \in Seq(S \cup {e}) /\ Len(<< e >>) = 1
  BY <1>1
<1>3. /\ << e >> \o s \in Seq(S \cup {e})
      /\ Len(<< e >> \o s) = Len(<< e >>) + Len(s)
      /\ \A i \in 1 .. Len(<< e >>) + Len(s) : (<< e >> \o s)[i] =
           IF i <= Len(<< e >>) THEN << e >>[i] ELSE s[i - Len(<< e >>)]
  BY <1>2, ConcatProperties
<1> DEFINE t == << e >> \o s
           k == Len(s)
<1>4. k \in Nat /\ DOMAIN s = 1 .. k /\ Sequence(t)
  BY <1>1, <1>3 DEF Sequence
<1>5. Len(t) = k + 1 /\ \A i \in 1 .. k + 1 : t[i] = IF i <= 1 THEN e ELSE s[i - 1]
  <2> HIDE DEF t
  <2>1. Len(t) = 1 + k /\ \A i \in 1 .. 1 + k : t[i] = IF i <= 1 THEN << e >>[i] ELSE s[i - 1]
    BY <1>2, <1>3 DEF t
  <2>2. 1 + k = k + 1
    BY <1>4
  <2>3. \A i \in 1 .. k + 1 : i <= 1 => << e >>[i] = e
    BY <1>4
  <2>4. QED
    BY <2>1, <2>2, <2>3
<1> HIDE DEF t, k
<1>6. DOMAIN t = 1 .. k + 1
  BY <1>4, <1>5, SeqFacts
<1>7. t[1] = e /\ \A i \in 1 .. k : t[i + 1] = s[i]
  <2>1. 1 \in 1 .. k + 1
    BY <1>4
  <2>2. \A i \in 1 .. k : i + 1 \in 1 .. k + 1 /\ ~(i + 1 <= 1) /\ i + 1 - 1 = i
    BY <1>4
  <2>3. QED
    BY <1>5, <2>1, <2>2
<1>8. QED
  BY <1>4, <1>5, <1>6, <1>7 DEF t, k

(* The lines of a list of lines in which that of key is set. *)
LEMMA LineSet ==
  ASSUME NEW props, NEW key, NEW i \in DOMAIN props, Sequence(key), NEW t,
         DOMAIN t = DOMAIN props, t[i].key = key,
         \A j \in DOMAIN props : j # i => t[j] = props[j],
         LinesOf(props, key) = {i}
  PROVE  LinesOf(t, key) = {i}
<1>1. IsPrefix(key, t[i].key)
  BY OwnPrefix
<1>2. \A j \in DOMAIN props : j # i => ~IsPrefix(key, props[j].key)
  BY DEF LinesOf
<1>3. QED
  BY <1>1, <1>2 DEF LinesOf

LEMMA LineFirst ==
  ASSUME NEW props, NEW key, NEW line, Sequence(props), Sequence(key),
         line.key = key, LinesOf(props, key) = {}
  PROVE  LinesOf(<<line>> \o props, key) = {1}
<1> DEFINE t == << line >> \o props
           k == Len(props)
<1>1. /\ t[1] = line /\ DOMAIN t = 1 .. k + 1 /\ \A i \in DOMAIN props : t[i + 1] = props[i]
      /\ DOMAIN props = 1 .. k /\ k \in Nat
  BY PutFirst, SeqFacts
<1> HIDE DEF t, k
<1>2. IsPrefix(key, t[1].key) /\ 1 \in DOMAIN t
  BY <1>1, OwnPrefix
<1>3. \A i \in DOMAIN props : ~IsPrefix(key, props[i].key)
  BY DEF LinesOf
<1>4. ASSUME NEW j \in DOMAIN t, j # 1 PROVE ~IsPrefix(key, t[j].key)
  <2>1. j - 1 \in DOMAIN props /\ (j - 1) + 1 = j
    BY <1>1, <1>4
  <2>2. t[j] = props[j - 1]
    BY <1>1, <2>1
  <2>3. QED
    BY <1>3, <2>1, <2>2
<1>5. LinesOf(t, key) = {1}
  BY <1>2, <1>4 DEF LinesOf
<1>6. QED
  BY <1>5 DEF t

LEMMA LowPort == \A n \in 1 .. FirstPort - 1 : n # 0
BY DEF FirstPort

LEMMA HighPort == \A n \in Nat : n # 0 /\ n \notin 1 .. FirstPort - 1 => n >= FirstPort
BY DEF FirstPort

LEMMA WrittenFields == \A t, p : Written(t, p).how = "ok" /\ Written(t, p).text = t
                                  /\ Written(t, p).port = p
BY DEF Written

LEMMA FailedFields == \A h : Failed(h).how = h
BY DEF Failed

LEMMA ListElements ==
  ASSUME NEW s, Sequence(s), NEW e
  PROVE  s \in Seq({s[i] : i \in DOMAIN s} \cup {e})
<1>1. PICK S : s \in Seq(S)
  BY DEF Sequence
<1>2. Len(s) \in Nat /\ DOMAIN s = 1 .. Len(s)
  BY <1>1
<1>3. s = [i \in 1 .. Len(s) |-> s[i]]
  BY <1>1
<1>4. QED
  BY <1>2, <1>3

(* What the text and the port are when the service has a key. *)
LEMMA PropsCases ==
  ASSUME NEW conf, IsService(conf), conf.key # <<>>
  PROVE  LET given == LinesOf(conf.props, conf.key)
             first == Min(given)
             line  == [key |-> conf.key, value |-> conf.port]
         IN  \/ PropsOf(conf).how = "error"
             \/ /\ PropsOf(conf).how = "panic" /\ given # {}
                /\ conf.props[first].value = NoValue
             \/ /\ PropsOf(conf) = Written(conf.props, conf.props[first].value)
                /\ conf.port = 0 /\ given # {} /\ ~(conf.props[first].value < FirstPort)
             \/ /\ PropsOf(conf) = Written(<<line>> \o conf.props, conf.port)
                /\ conf.port >= FirstPort /\ given = {}
             \/ /\ PropsOf(conf) = Written([conf.props EXCEPT ![first] = line], conf.port)
                /\ conf.port >= FirstPort /\ given # {}
<1> DEFINE given == LinesOf(conf.props, conf.key)
           first == Min(given)
           value == conf.props[first].value
           line  == [key |-> conf.key, value |-> conf.port]
           P     == PropsOf(conf)
<1>1. given = {i \in DOMAIN conf.props : IsPrefix(conf.key, conf.props[i].key)}
  BY DEF LinesOf
<1>2. P = CASE conf.port \in 1 .. FirstPort - 1 -> Failed("error")
            [] conf.port = 0 ->
                 IF given = {} THEN Failed("error")
                 ELSE IF value = NoValue THEN Failed("panic")
                 ELSE IF value < FirstPort THEN Failed("error")
                 ELSE Written(conf.props, value)
            [] OTHER -> IF given = {} THEN Written(<<line>> \o conf.props, conf.port)
                        ELSE Written([conf.props EXCEPT ![first] = line], conf.port)
  <2> HIDE DEF line
  <2>1. conf.key = <<>> <=> FALSE
    OBVIOUS
  <2>2. QED
    BY <1>1, <2>1 DEF PropsOf, line
<1> HIDE DEF given, first, value, line, P
<1>3. conf.port \in Nat /\ FirstPort = 1025
  BY DEF IsService, FirstPort
<1>4. CASE conf.port \in 1 .. FirstPort - 1
  <2>1. conf.port # 0
    BY <1>4, LowPort, Zenon
  <2>2. P = Failed("error")
    BY <1>2, <1>4, <2>1
  <2>3. QED
    BY <2>2, FailedFields DEF P
<1>5. CASE conf.port = 0
  <2>1. conf.port \notin 1 .. FirstPort - 1
    BY <1>5, LowPort, Zenon
  <2>2. P = IF given = {} THEN Failed("error")
            ELSE IF value = NoValue THEN Failed("panic")
            ELSE IF value < FirstPort THEN Failed("error")
            ELSE Written(conf.props, value)
    BY <1>2, <1>5, <2>1
  <2>3. QED
    BY <1>5, <2>2, FailedFields DEF P, given, first, value
<1>6. CASE conf.port # 0 /\ conf.port \notin 1 .. FirstPort - 1
  <2>1. conf.port >= FirstPort
    <3>1. conf.port \in Nat /\ conf.port # 0 /\ conf.port \notin 1 .. FirstPort - 1
      BY <1>3, <1>6, Zenon
    <3>2. QED
      BY <3>1, HighPort, Zenon
  <2>2. P = IF given = {} THEN Written(<<line>> \o conf.props, conf.port)
            ELSE Written([conf.props EXCEPT ![first] = line], conf.port)
    BY <1>2, <1>6
  <2>3. QED
    BY <2>1, <2>2 DEF P, given, first, line
<1>7. QED
  BY <1>4, <1>5, <1>6

LEMMA GivenFirst ==
  ASSUME NEW conf, IsService(conf), NEW key, LinesOf(conf.props, key) # {}
  PROVE  /\ Min(LinesOf(conf.props, key)) \in LinesOf(conf.props, key)
         /\ Min(LinesOf(conf.props, key)) \in DOMAIN conf.props
<1>1. Sequence(conf.props)
  BY ListSequence DEF IsService
<1>2. DOMAIN conf.props \subseteq Nat
  BY <1>1, SeqFacts
<1>3. LinesOf(conf.props, key) \subseteq DOMAIN conf.props
  BY DEF LinesOf
<1>4. QED
  BY <1>2, <1>3, LeastIn

(* The line of the port is there once when it was there once or not. *)
PortThere(conf, text, port) ==
  LET given == LinesOf(conf.props, conf.key)
  IN  /\ port >= FirstPort /\ conf.port \in {0, port}
      /\ \E more \in {0, 1} :
           /\ Len(text) = Len(conf.props) + more
           /\ \A i \in DOMAIN conf.props \ given : text[i + more] = conf.props[i]
      /\ (\A i, j \in given : i = j /\ conf.props[i].key = conf.key) =>
           \E i \in DOMAIN text :
             LinesOf(text, conf.key) = {i} /\ text[i] = [key |-> conf.key, value |-> port]

LEMMA PropsRight ==
  ASSUME NEW conf, IsService(conf), conf.key # <<>>, PropsOf(conf).how = "ok"
  PROVE  PortThere(conf, PropsOf(conf).text, PropsOf(conf).port)
<1> DEFINE props == conf.props
           key   == conf.key
           given == LinesOf(props, key)
           first == Min(given)
           value == props[first].value
           line  == [key |-> key, value |-> conf.port]
           text  == PropsOf(conf).text
           port  == PropsOf(conf).port
<1>1. Sequence(props) /\ Sequence(key) /\ conf.port \in Nat
  BY ListSequence DEF IsService
<1>2. DOMAIN props = 1 .. Len(props) /\ Len(props) \in Nat
  BY <1>1, SeqFacts
<1>3. given \subseteq DOMAIN props /\ (given # {} => first \in given)
  BY GivenFirst DEF LinesOf
<1>4. \A i \in DOMAIN props :
        props[i] = [key |-> props[i].key, value |-> props[i].value] /\ props[i].value \in Nat
  BY DEF IsService
<1>5. line.key = key /\ line = [key |-> key, value |-> conf.port]
  OBVIOUS
<1>6. \/ text = props /\ port = value /\ conf.port = 0 /\ given # {} /\ ~(value < FirstPort)
      \/ text = <<line>> \o props /\ port = conf.port /\ conf.port >= FirstPort /\ given = {}
      \/ text = [props EXCEPT ![first] = line] /\ port = conf.port /\ conf.port >= FirstPort
         /\ given # {}
  <2> DEFINE P == PropsOf(conf)
  <2>1. \/ P.how = "error"
        \/ P.how = "panic"
        \/ /\ P = Written(props, value)
           /\ conf.port = 0 /\ given # {} /\ ~(value < FirstPort)
        \/ /\ P = Written(<<line>> \o props, conf.port)
           /\ conf.port >= FirstPort /\ given = {}
        \/ /\ P = Written([props EXCEPT ![first] = line], conf.port)
           /\ conf.port >= FirstPort /\ given # {}
    BY PropsCases
  <2>2. P.how = "ok" /\ text = P.text /\ port = P.port
    OBVIOUS
  <2> HIDE DEF props, key, given, first, value, line, text, port, P
  <2>3. P.how # "error" /\ P.how # "panic"
    BY <2>2
  <2>4. \A t, p : P = Written(t, p) => text = t /\ port = p
    BY <2>2, WrittenFields
  <2>5. QED
    BY <2>1, <2>3, <2>4, Zenon
<1>7. FirstPort = 1025
  BY DEF FirstPort
<1> HIDE DEF props, key, given, first, value, line, text, port
<1>8. \A i \in DOMAIN props : i + 0 = i /\ Len(props) + 0 = Len(props)
  BY <1>2
<1>9. Len(props) + 0 = Len(props)
  BY <1>2
<1>10. CASE text = props /\ port = value /\ conf.port = 0 /\ given # {} /\ ~(value < FirstPort)
  <2>1. value \in Nat /\ first \in DOMAIN props
    BY <1>3, <1>4, <1>10 DEF value
  <2>2. port >= FirstPort
    BY <1>7, <1>10, <2>1
  <2>3. Len(text) = Len(props) + 0 /\ \A i \in DOMAIN props \ given : text[i + 0] = props[i]
    BY <1>8, <1>9, <1>10
  <2>4. ASSUME \A i, j \in given : i = j /\ props[i].key = key
        PROVE  /\ LinesOf(text, key) = {first} /\ first \in DOMAIN text
               /\ text[first] = [key |-> key, value |-> port]
    <3>1. given = {first}
      BY <1>3, <1>10, <2>4
    <3>2. props[first] = [key |-> key, value |-> value]
      BY <1>3, <1>4, <1>10, <2>1, <2>4 DEF value
    <3>3. QED
      BY <1>10, <2>1, <3>1, <3>2 DEF given
  <2>5. QED
    BY <1>10, <2>2, <2>3, <2>4 DEF PortThere, props, key, given, text, port
<1>11. CASE text = <<line>> \o props /\ port = conf.port /\ conf.port >= FirstPort /\ given = {}
  <2>1. /\ Len(text) = Len(props) + 1 /\ text[1] = line
        /\ DOMAIN text = 1 .. Len(props) + 1
        /\ \A i \in DOMAIN props : text[i + 1] = props[i]
    BY <1>1, <1>11, PutFirst
  <2>2. LinesOf(text, key) = {1}
    BY <1>1, <1>5, <1>11, LineFirst DEF given
  <2>3. 1 \in DOMAIN text
    BY <1>2, <2>1
  <2>4. QED
    BY <1>5, <1>11, <2>1, <2>2, <2>3 DEF PortThere, props, key, given, text, port
<1>12. CASE /\ text = [props EXCEPT ![first] = line] /\ port = conf.port
            /\ conf.port >= FirstPort /\ given # {}
  <2>1. first \in DOMAIN props /\ first \in given
    BY <1>3, <1>12
  <2>2. /\ DOMAIN text = DOMAIN props /\ text[first] = line
        /\ \A i \in DOMAIN props : i # first => text[i] = props[i]
    BY <1>12, <2>1
  <2>3. Len(text) = Len(props) + 0
    <3>1. text \in Seq({props[i] : i \in DOMAIN props} \cup {line})
      <4>1. props \in Seq({props[i] : i \in DOMAIN props} \cup {line})
        BY <1>1, ListElements
      <4>2. first \in 1 .. Len(props)
        BY <1>2, <2>1
      <4>3. QED
        BY <1>12, <4>1, <4>2, ExceptSeq
    <3>2. Len(text) \in Nat /\ DOMAIN text = 1 .. Len(text)
      BY <3>1
    <3>3. Len(text) = Len(props)
      BY <1>2, <2>2, <3>2
    <3>4. QED
      BY <1>9, <3>3
  <2>4. \A i \in DOMAIN props \ given : text[i + 0] = props[i]
    BY <1>8, <2>1, <2>2
  <2>5. ASSUME \A i, j \in given : i = j /\ props[i].key = key
        PROVE  LinesOf(text, key) = {first}
    <3>1. given = {first}
      BY <2>1, <2>5
    <3>2. LinesOf(props, key) = {first}
      BY <3>1 DEF given
    <3>3. QED
      BY <1>1, <1>5, <2>1, <2>2, <3>2, LineSet
  <2>6. QED
    BY <1>5, <1>12, <2>1, <2>2, <2>3, <2>4, <2>5 DEF PortThere, props, key, given, text, port
<1>13. QED
  BY <1>6, <1>10, <1>11, <1>12

-----------------------------------------------------------------------------
(* The steps of ParseSystem.                                               *)

LEMMA GiveStep ==
  ASSUME FInv, NEW r, Give(r), r # "", ResultRight'
  PROVE  FInv'
<1>1. /\ result' = r /\ UNCHANGED <<input, features, cluster, feats, stack, at, built>>
  BY DEF Give
<1>2. BuiltRight'
  BY <1>1, BuiltSame DEF FInv
<1>3. Typed'
  BY <1>1 DEF FInv, Typed, InService, Confs
<1>4. QED
  BY <1>1, <1>2, <1>3 DEF FInv

LEMMA IndexIn ==
  ASSUME NEW s, Sequence(s), NEW i \in Nat \ {0}, i <= Len(s)
  PROVE  i \in DOMAIN s /\ s[i] \in ToSet(s)
<1>1. i \in DOMAIN s
  BY SeqFacts
<1>2. QED
  BY <1>1 DEF ToSet

(* Nothing has been collected of a cluster that begins.                    *)
LEMMA NothingYet ==
  ASSUME NEW w, w.system = <<>>, w.feats = <<>>, Sequence(w.managers),
         w.r.packages \in w.offers, w.packages = w.r.packages,
         \A m \in ToSet(w.managers) : m.name \in ToSet(w.r.os[w.os])
  PROVE  ListsRight(w) /\ PackagesRight(w) /\ Have(w) = {}
<1>1. Have(w) = {} /\ Names(w.system) = {} /\ Names(w.feats) = {}
  BY EmptySequence DEF Have
<1>2. \A fs, own : fs = <<>> => ListRight(w, fs, own)
  BY EmptySequence DEF ListRight
<1>3. \A m \in ManagersIn(w) : Ready(w, m, Names(w.system))
  BY DEF ManagersIn, Ready
<1>4. Sequence(w.system) /\ Sequence(w.feats) /\ DOMAIN w.system = {}
  BY EmptySequence
<1>5. ListsRight(w)
  BY <1>1, <1>2, <1>3, <1>4 DEF ListsRight
<1>6. PackagesRight(w)
  BY <1>1 DEF PackagesRight
<1>7. QED
  BY <1>1, <1>5, <1>6

LEMMA NoCalls == \A w : Calls(w, <<>>) /\ CallsTo(w, <<>>, {})
BY EmptySequence DEF Calls, CallsTo, Distinct

LEMMA BeginClusterStep ==
  ASSUME FInv, BeginCluster
  PROVE  FInv'
<1>1. result = "" /\ stack = <<>> /\ at.pc = "cluster" /\ at.c <= Len(input.clusters)
  BY DEF BeginCluster, Parsing
<1>2. Typed /\ BuiltRight /\ at.c \in Nat \ {0}
  BY DEF FInv, Typed
<1>3. /\ at.c \in DOMAIN input.clusters /\ input.clusters[at.c] \in ToSet(input.clusters)
      /\ Sequence(Confs(at.c))
  BY <1>1, <1>2, ConfigFacts, IndexIn
<1>4. CASE Os \notin DOMAIN input.os \/ Bad(ToSet(input.os[Os]))
  <2>1. Give("error")
    BY <1>4 DEF BeginCluster
  <2>2. result' = "error" /\ input' = input
    BY <2>1 DEF Give
  <2>3. ResultRight'
    BY <1>3, <1>4, <2>2 DEF ResultRight, Os, Bad
  <2>4. QED
    BY <2>1, <2>3, GiveStep
<1>5. CASE ~(Os \notin DOMAIN input.os \/ Bad(ToSet(input.os[Os])))
  <2> DEFINE ms == [i \in DOMAIN input.os[Os] |->
                      [name |-> input.os[Os][i], root |-> input.pms[input.os[Os][i]].root]]
             v  == World'
  <2>1. /\ cluster' = [managers |-> ms, packages |-> input.packages, system |-> <<>>,
                       services |-> <<>>]
        /\ at' = [at EXCEPT !.pc = "service", !.s = 1]
        /\ UNCHANGED <<input, features, feats, stack, built, result>>
    BY <1>5 DEF BeginCluster
  <2>2. at' = [c |-> at.c, s |-> 1, pc |-> "service"]
    <3>1. at = [c |-> at.c, s |-> at.s, pc |-> at.pc]
      BY <1>2 DEF Typed
    <3>2. [at EXCEPT !.pc = "service"] = [c |-> at.c, s |-> at.s, pc |-> "service"]
      BY <3>1
    <3>3. [[c |-> at.c, s |-> at.s, pc |-> "service"] EXCEPT !.s = 1]
            = [c |-> at.c, s |-> 1, pc |-> "service"]
      OBVIOUS
    <3>4. QED
      BY <2>1, <3>2, <3>3, Zenon
  <2>3. at'.c = at.c /\ at'.s = 1 /\ at'.pc = "service" /\ ~InService'
    BY <2>2 DEF InService
  <2>4. Sequence(ms) /\ \A m \in ToSet(ms) : m.name \in ToSet(input.os[Os])
    <3>1. Sequence(input.os[Os])
      BY <1>2, <1>5, ConfigFacts
    <3>2. PICK n \in Nat : DOMAIN input.os[Os] = 1 .. n
      BY <3>1, SeqFacts
    <3>3. ms \in Seq({ms[i] : i \in 1 .. n})
      BY <3>2
    <3>4. \A i \in DOMAIN ms : ms[i].name = input.os[Os][i] /\ i \in DOMAIN input.os[Os]
      OBVIOUS
    <3> HIDE DEF ms
    <3>5. QED
      BY <3>3, <3>4 DEF Sequence, ToSet
  <2> HIDE DEF ms
  <2>5. /\ cluster'.managers = ms /\ cluster'.packages = input.packages
        /\ cluster'.system = <<>> /\ cluster'.services = <<>>
        /\ cluster' = [managers |-> cluster'.managers, packages |-> cluster'.packages,
                       system |-> cluster'.system, services |-> cluster'.services]
    BY <2>1
  <2>6. Flags' = Flags /\ Net' = Net /\ Offers' = Offers /\ Os' = Os /\ Confs(at.c)' = Confs(at.c)
    BY <2>1, <2>3, SameConfig DEF Os, Confs
  <2>7. /\ v.r = input /\ v.offers = Offers /\ v.os = Os /\ v.managers = ms
        /\ v.packages = input.packages /\ v.system = <<>> /\ v.feats = <<>>
    BY <2>1, <2>3, <2>5, <2>6 DEF World, WorldOf
  <2> HIDE DEF v
  <2>8. ListsRight(v) /\ PackagesRight(v) /\ Have(v) = {}
    BY <2>4, <2>7, NothingYet, OfferedFirst
  <2>9. ServicesRight(v, Confs(at.c)', cluster'.services)
    BY <2>5, <2>7, EmptySequence DEF ServicesRight
  <2>10. Going'
    BY <1>1, <2>1, <2>3, <2>8, <2>9, NoCalls DEF Going, v
  <2>11. Typed'
    <3>1. Len(<< >>) = 1 - 1
      OBVIOUS
    <3>2. Len(Confs(at.c)) \in Nat
      BY <1>3, SeqFacts
    <3>3. 1 <= Len(Confs(at.c)) + 1
      BY <3>2
    <3>4. Sequence(built') /\ Len(built') = at'.c - 1 /\ at'.c <= Len(input'.clusters) + 1
          /\ input' \in Inputs /\ DOMAIN features' = DOMAIN input'.features
          /\ \A f \in DOMAIN features' : Alike(features'[f], input'.features[f])
      BY <1>2, <2>1, <2>3 DEF Typed
    <3>5. /\ at'.c \in Nat \ {0} /\ at'.c <= Len(input'.clusters) /\ at'.s \in Nat \ {0}
      <4>1. 1 \in Nat \ {0}
        OBVIOUS
      <4>2. at'.c = at.c /\ at'.s = 1 /\ input' = input
        BY <2>1, <2>3
      <4>3. QED
        BY <1>1, <1>2, <4>1, <4>2, Zenon
    <3>8. at' = [c |-> at'.c, s |-> at'.s, pc |-> at'.pc]
      BY <2>2
    <3>6. /\ Sequence(cluster'.services) /\ Len(cluster'.services) = at'.s - 1
          /\ at'.s <= Len(input'.clusters[at'.c].services) + 1
      BY <2>1, <2>3, <2>5, <3>1, <3>3, EmptySequence DEF Confs
    <3>7. QED
      BY <1>1, <2>1, <2>3, <2>5, <3>4, <3>5, <3>6, <3>8 DEF Typed, Confs
  <2>12. BuiltRight' /\ ResultRight'
    BY <1>1, <2>1, <1>2, BuiltSame DEF ResultRight
  <2>13. QED
    BY <2>10, <2>11, <2>12 DEF FInv
<1>6. QED
  BY <1>4, <1>5

(* The first call.                                                         *)
LEMMA FirstCall ==
  ASSUME NEW w, NEW names, Sequence(names), Enter(<<>>, names),
         "known" \in w.flags => \A n \in ToSet(names) : KnownIn(w.r, n),
         IsFiniteSet(DOMAIN w.r.features), Cardinality(DOMAIN w.r.features) < MaxDepth,
         MaxDepth \in Nat
  PROVE  Calls(w, stack') /\ First(stack') = ToSet(names) /\ result' = result
<1> DEFINE fr == Frame(names)
           st == Append(<<>>, fr)
<1>1. stack' = st /\ result' = result
  <2>1. Cardinality(DOMAIN w.r.features) \in Nat
    BY FS_CardinalityType
  <2>2. Len(<< >>) < MaxDepth
    BY <2>1
  <2>3. QED
    BY <2>2 DEF Enter
<1>2. Sequence(st) /\ Len(st) = 1 /\ DOMAIN st = {1} /\ st[1] = fr /\ st # <<>>
  <2> HIDE DEF fr
  <2>1. st = << fr >>
    OBVIOUS
  <2>2. /\ << fr >> \in Seq({fr}) /\ Len(<< fr >>) = 1 /\ DOMAIN << fr >> = 1 .. 1
        /\ << fr >>[1] = fr /\ << fr >> # <<>> /\ 1 .. 1 = {1}
    OBVIOUS
  <2>3. QED
    BY <2>1, <2>2 DEF Sequence
<1>3. fr.pc = "loop" /\ fr.todo = names
  BY DEF Frame
<1>4. FrameInv(w, fr) /\ LinkInv(w, fr, {})
  BY EmptySequence DEF FrameInv, FrameTyped, FrameKnown, LinkInv, Frame
<1> HIDE DEF fr, st
<1>5. CallsTo(w, st, {})
  BY <1>2, <1>4 DEF CallsTo, Distinct
<1>6. QED
  BY <1>1, <1>2, <1>3, <1>5 DEF Calls, First

(* A step of ParseSystem between two features of one service.              *)
LEMMA ServeStep ==
  ASSUME FInv, result = "", at.pc # "cluster", at.s <= Len(Confs(at.c)),
         UNCHANGED <<input, features, cluster, built, result>>,
         NEW pc \in {"builtin", "finish"}, at' = [at EXCEPT !.pc = pc],
         feats' = IF InService THEN feats ELSE <<>>,
         Calls(World, stack'),
         "known" \in Flags =>
           (IF pc = "builtin" THEN ToSet(Serv.features) ELSE AskedBy(Serv))
             \subseteq Have(World) \cup First(stack')
  PROVE  FInv'
<1>1. Typed /\ Going
  BY DEF FInv
<1>2. at' = [c |-> at.c, s |-> at.s, pc |-> pc]
  <2>1. at = [c |-> at.c, s |-> at.s, pc |-> at.pc]
    BY <1>1 DEF Typed
  <2>2. QED
    BY <2>1
<1>3. at'.c = at.c /\ at'.s = at.s /\ at'.pc = pc /\ InService' /\ at'.pc # "cluster"
  BY <1>2 DEF InService
<1>4. Flags' = Flags /\ Net' = Net /\ Offers' = Offers /\ Os' = Os /\ Confs(at.c)' = Confs(at.c)
      /\ Serv' = Serv
  BY <1>3, SameConfig DEF Os, Confs, Serv, Conf
<1>5. World' = World
  BY <1>3, <1>4 DEF World
<1>6. Going'
  <2>1. ServicesRight(World', input'.clusters[at'.c].services, cluster'.services)
    <3>1. ServicesRight(World, input.clusters[at.c].services, cluster.services)
      BY <1>1 DEF Going, Confs
    <3>2. QED
      BY <1>3, <1>5, <3>1
  <2>2. ListsRight(World') /\ PackagesRight(World') /\ Calls(World', stack')
    BY <1>1, <1>5 DEF Going
  <2>3. "known" \in Flags' =>
          (IF at'.pc = "builtin" THEN ToSet(Serv'.features) ELSE AskedBy(Serv'))
            \subseteq Have(World') \cup First(stack')
    BY <1>3, <1>4, <1>5
  <2>4. QED
    BY <2>1, <2>2, <2>3 DEF Going, Confs
<1>7. Typed'
  BY <1>1, <1>2, <1>3 DEF Typed, Confs
<1>8. BuiltRight' /\ ResultRight'
  BY BuiltSame DEF FInv, ResultRight
<1>9. QED
  BY <1>6, <1>7, <1>8 DEF FInv

LEMMA AtService ==
  ASSUME FInv, result = "", at.pc # "cluster", at.s <= Len(Confs(at.c))
  PROVE  /\ Typed /\ Going /\ at.c \in DOMAIN input.clusters
         /\ at.s \in DOMAIN Confs(at.c) /\ Serv = Confs(at.c)[at.s]
         /\ IsService(Serv) /\ Sequence(Serv.features)
         /\ Serv \in AllServices
<1>1. Typed /\ Going
  BY DEF FInv
<1>2. at.c \in DOMAIN input.clusters /\ input.clusters[at.c] \in ToSet(input.clusters)
  BY <1>1, ConfigFacts, IndexIn DEF Typed
<1>3. Sequence(Confs(at.c))
  BY <1>1, <1>2, ConfigFacts
<1>4. at.s \in DOMAIN Confs(at.c) /\ Confs(at.c)[at.s] \in ToSet(Confs(at.c))
  BY <1>1, <1>3, IndexIn DEF Typed
<1>5. Serv = Confs(at.c)[at.s]
  BY DEF Serv, Conf, Confs
<1>6. IsService(Serv)
  BY <1>1, <1>2, <1>4, <1>5, ConfigFacts
<1>7. Sequence(Serv.features)
  BY <1>6, ListSequence DEF IsService
<1>8. Serv \in AllServices
  BY <1>2, <1>4, <1>5 DEF AllServices, Confs
<1>9. QED
  BY <1>1, <1>2, <1>4, <1>5, <1>6, <1>7, <1>8

LEMMA BeginServiceStep ==
  ASSUME FInv, BeginService
  PROVE  FInv'
<1>1. /\ result = "" /\ stack = <<>> /\ at.pc = "service" /\ at.s <= Len(Confs(at.c))
      /\ feats' = <<>> /\ Enter(<<>>, Serv.features)
      /\ at' = [at EXCEPT !.pc = "builtin"]
      /\ UNCHANGED <<input, features, cluster, built>>
  BY DEF BeginService, Parsing, Conf, Confs
<1>2. at.pc # "cluster" /\ ~InService
  BY <1>1 DEF InService
<1>3. /\ Typed /\ Sequence(Serv.features) /\ at.c \in DOMAIN input.clusters
      /\ at.s \in DOMAIN Confs(at.c) /\ Serv = Confs(at.c)[at.s]
  BY <1>1, <1>2, AtService
<1>4. World.r = input /\ World.flags = Flags
  BY WorldFacts, Zenon
<1>5. "known" \in Flags => \A n \in ToSet(Serv.features) : KnownIn(input, n)
  BY <1>3, FlagFacts DEF NoneMissing, KnownIn, ConfOf, Confs
<1>6. Calls(World, stack') /\ First(stack') = ToSet(Serv.features) /\ result' = result
  BY <1>1, <1>3, <1>4, <1>5, ConfigFacts, FirstCall
<1>7. QED
  BY <1>1, <1>2, <1>6, ServeStep

LEMMA BuiltInStep ==
  ASSUME FInv, BuiltIn
  PROVE  FInv'
<1> DEFINE names == Append(Builtin, <<"service", Serv.machine>>)
<1>1. /\ result = "" /\ stack = <<>> /\ at.pc = "builtin" /\ Enter(<<>>, names)
      /\ at' = [at EXCEPT !.pc = "finish"]
      /\ UNCHANGED <<input, features, cluster, feats, built>>
  BY DEF BuiltIn, Parsing
<1>2. at.pc # "cluster" /\ InService /\ at.s <= Len(Confs(at.c))
  BY <1>1 DEF InService, FInv, Typed
<1>3. /\ Typed /\ Going
  BY <1>1, <1>2, AtService
<1>4. World.r = input /\ World.flags = Flags
  BY WorldFacts, Zenon
<1>5. Sequence(names) /\ ToSet(names) = ToSet(Builtin) \cup {<<"service", Serv.machine>>}
  BY <1>3, ConfigFacts, Appended, AppendedSet
<1> HIDE DEF names
<1>6. "known" \in Flags => \A n \in ToSet(names) : KnownIn(input, n)
  <2>1. ASSUME NoneMissing
        PROVE  /\ \A n \in ToSet(Builtin) : n[1] \in DOMAIN input.features
               /\ "service" \in DOMAIN input.features
    BY <2>1 DEF NoneMissing
  <2>2. <<"service", Serv.machine>>[1] = "service"
    OBVIOUS
  <2>3. QED
    BY <1>5, <2>1, <2>2, FlagFacts DEF KnownIn
<1>7. Calls(World, stack') /\ First(stack') = ToSet(names) /\ result' = result
  BY <1>1, <1>3, <1>4, <1>5, <1>6, ConfigFacts, FirstCall
<1>8. "known" \in Flags => AskedBy(Serv) \subseteq Have(World) \cup First(stack')
  <2>1. "known" \in Flags => ToSet(Serv.features) \subseteq Have(World) \cup First(stack)
    BY <1>1, <1>2, <1>3 DEF Going
  <2>2. First(stack) = {}
    BY <1>1 DEF First
  <2>3. QED
    BY <1>5, <1>7, <2>1, <2>2 DEF AskedBy
<1>9. QED
  BY <1>1, <1>2, <1>7, <1>8, ServeStep

(* A service is added to the cluster. *)
LEMMA ServicesMore ==
  ASSUME NEW w, NEW v, NEW confs, NEW servs, NEW serv, Sequence(servs),
         ServicesRight(w, confs, servs),
         v.r = w.r, v.os = w.os, v.flags = w.flags, v.system = w.system,
         ServiceRight(v, confs[Len(servs) + 1], serv),
         "known" \in w.flags /\ serv # NoService => Have(w) \subseteq Have(v) \cup Names(serv.feats)
  PROVE  ServicesRight(v, confs, Append(servs, serv))
<1> DEFINE t == Append(servs, serv)
           k == Len(servs)
<1>1. k \in Nat /\ DOMAIN servs = 1 .. k
  BY SeqFacts
<1>2. /\ Sequence(t) /\ Len(t) = k + 1 /\ t[k + 1] = serv
      /\ \A i \in DOMAIN servs : t[i] = servs[i]
  BY Appended
<1>3. ServiceRight(v, confs[k + 1], serv)
  OBVIOUS
<1> HIDE DEF t, k
<1>4. DOMAIN t = 1 .. k + 1
  BY <1>2, SeqFacts
<1>5. /\ \A i \in DOMAIN t : i \in DOMAIN servs \/ i = k + 1
      /\ k + 1 \in DOMAIN t /\ DOMAIN servs \subseteq DOMAIN t
  BY <1>1, <1>4
<1>6. \A i \in DOMAIN t : ServiceRight(v, confs[i], t[i])
  <2>1. \A i \in DOMAIN servs : ServiceRight(v, confs[i], servs[i])
    BY ServiceStays DEF ServicesRight
  <2>2. QED
    BY <1>2, <1>3, <1>5, <2>1
<1>7. ASSUME "known" \in v.flags, \A i \in DOMAIN t : t[i] # NoService, NEW n \in Names(v.system)
      PROVE  NeedsOf(v.r, n) \subseteq Have(v) \cup UNION {Names(t[i].feats) : i \in DOMAIN t}
  <2>1. NeedsOf(w.r, n) \subseteq Have(w) \cup UNION {Names(servs[i].feats) : i \in DOMAIN servs}
    <3>1. \A i \in DOMAIN servs : servs[i] # NoService
      BY <1>2, <1>5, <1>7
    <3>2. QED
      BY <1>7, <3>1 DEF ServicesRight
  <2>2. \A i \in DOMAIN servs : Names(servs[i].feats) = Names(t[i].feats)
    BY <1>2
  <2>3. UNION {Names(servs[i].feats) : i \in DOMAIN servs}
          \subseteq UNION {Names(t[i].feats) : i \in DOMAIN t}
    BY <1>5, <2>2
  <2>4. serv # NoService /\ Names(serv.feats) \subseteq UNION {Names(t[i].feats) : i \in DOMAIN t}
    BY <1>2, <1>5, <1>7
  <2>5. Have(w) \subseteq Have(v) \cup Names(serv.feats)
    BY <1>7, <2>4
  <2>6. QED
    BY <2>1, <2>3, <2>4, <2>5
<1>8. QED
  BY <1>6, <1>7 DEF ServicesRight, t

(* The list of a service, with what runs it. *)
LEMMA RunAdded ==
  ASSUME NEW w, NEW v, NEW tasks, NEW artifact \in BOOLEAN, ListsRight(w), "known" \in w.flags,
         v.r = w.r, v.os = w.os, v.flags = w.flags, v.system = w.system
  PROVE  LET run == IF artifact THEN <<[name |-> RunName, tasks |-> tasks]>> ELSE <<>>
         IN  /\ FeatsRight(v, w.feats \o run)
             /\ Names(w.feats) \subseteq Names(w.feats \o run)
<1> DEFINE r   == [name |-> RunName, tasks |-> tasks]
           run == IF artifact THEN <<r>> ELSE <<>>
           l   == w.feats
           t   == l \o run
           k   == Len(l)
<1>1. Sequence(l) /\ k \in Nat /\ DOMAIN l = 1 .. k
  BY SeqFacts DEF ListsRight
<1>2. r.name = RunName
  OBVIOUS
<1> HIDE DEF r
<1>3. /\ \A i \in DOMAIN l : i \in DOMAIN t /\ t[i] = l[i]
      /\ \A i \in DOMAIN t : i \in DOMAIN l \/ t[i].name = RunName
  <2>1. CASE artifact
    <3>1. PICK S : l \in Seq(S)
      BY <1>1 DEF Sequence
    <3>2. l \in Seq(S \cup {r}) /\ r \in S \cup {r}
      BY <3>1
    <3>3. Append(l, r) = l \o << r >>
      BY <3>2, AppendIsConcat
    <3>4. t = Append(l, r)
      BY <2>1, <3>3
    <3> HIDE DEF t, run, l
    <3>5. Sequence(t) /\ Len(t) = k + 1 /\ t[k + 1] = r /\ \A i \in DOMAIN l : t[i] = l[i]
      <4>1. /\ Sequence(Append(l, r)) /\ Len(Append(l, r)) = Len(l) + 1
            /\ Append(l, r)[Len(l) + 1] = r /\ \A i \in DOMAIN l : Append(l, r)[i] = l[i]
        BY <1>1, Appended
      <4>2. QED
        BY <3>4, <4>1
    <3> HIDE DEF k
    <3>6. DOMAIN t = 1 .. k + 1
      BY <3>5, SeqFacts
    <3>7. \A i \in 1 .. k + 1 : i \in 1 .. k \/ i = k + 1
      BY <1>1, OneMore
    <3>8. \A i \in 1 .. k : i \in 1 .. k + 1
      BY <1>1
    <3>9. QED
      BY <1>1, <1>2, <3>5, <3>6, <3>7, <3>8
  <2>2. CASE ~artifact
    <3>1. PICK S : l \in Seq(S)
      BY <1>1 DEF Sequence
    <3>2. l \o <<>> = l
      BY <3>1, ConcatEmptySeq
    <3>3. t = l
      BY <2>2, <3>2
    <3>4. QED
      BY <3>3
  <2>3. QED
    BY <2>1, <2>2
<1>4. ListRight(w, l, TRUE) /\ \A n \in Names(l) : NeedsOf(w.r, n) \subseteq Have(w)
  BY DEF ListsRight
<1>5. \A i \in DOMAIN l : \A j \in 1 .. i - 1 : j \in DOMAIN l
  BY <1>1
<1> HIDE DEF t, k, run
<1>6. Names(l) \subseteq Names(t)
  BY <1>3 DEF Names
<1>7. Names(t) \ {RunName} \subseteq Names(l)
  BY <1>3 DEF Names
<1>8. FeatsRight(v, t)
  <2>1. ASSUME NEW i \in DOMAIN t, t[i].name # RunName, NEW n \in NeedsOf(v.r, t[i].name),
               IsOwnOf(v.r, v.os, n)
        PROVE  \E j \in 1 .. i - 1 : t[j].name = n
    <3>1. i \in DOMAIN l /\ t[i] = l[i]
      BY <1>3, <2>1
    <3>2. PICK j \in 1 .. i - 1 : l[j].name = n
      BY <1>4, <2>1, <3>1 DEF ListRight
    <3>3. t[j] = l[j]
      BY <1>3, <1>5, <3>1
    <3>4. QED
      BY <3>2, <3>3
  <2>2. ASSUME "simple" \in v.flags, NEW i \in DOMAIN t, NEW j \in DOMAIN t,
               t[i].name = t[j].name, t[i].name # RunName
        PROVE  i = j
    <3>1. i \in DOMAIN l /\ t[i] = l[i] /\ j \in DOMAIN l /\ t[j] = l[j]
      BY <1>3, <2>2
    <3>2. QED
      BY <1>4, <2>2, <3>1 DEF ListRight
  <2>3. \A n \in Names(t) \ {RunName} : NeedsOf(v.r, n) \subseteq Names(v.system) \cup Names(t)
    BY <1>4, <1>6, <1>7 DEF Have
  <2>4. QED
    BY <2>1, <2>2, <2>3 DEF FeatsRight
<1>9. QED
  BY <1>6, <1>8 DEF t, run, r

(* What has been collected once the service is left. *)
LEMMA ServiceLeft ==
  ASSUME NEW w, NEW v, ListsRight(w), PackagesRight(w),
         v.r = w.r, v.flags = w.flags, v.need = w.need, v.offers = w.offers, v.os = w.os,
         v.system = w.system, v.managers = w.managers, v.packages = w.packages, v.feats = <<>>
  PROVE  ListsRight(v) /\ PackagesRight(v)
<1>1. Names(v.feats) = {} /\ Sequence(v.feats) /\ DOMAIN v.feats = {}
  BY EmptySequence
<1>2. Have(v) \subseteq Have(w)
  BY <1>1 DEF Have
<1>3. ManagersIn(v) = ManagersIn(w)
  BY DEF ManagersIn
<1>4. ASSUME "known" \in v.flags
      PROVE  /\ ListRight(v, v.system, FALSE) /\ ListRight(v, v.feats, TRUE)
             /\ \A n \in Names(v.feats) : NeedsOf(v.r, n) \subseteq Have(v)
             /\ \A m \in ManagersIn(v) : Ready(v, m, Names(v.system))
  <2>1. ListRight(w, w.system, FALSE) /\ \A m \in ManagersIn(w) : Ready(w, m, Names(w.system))
    BY <1>4 DEF ListsRight
  <2>2. ListRight(v, v.system, FALSE)
    BY <2>1, ListSame
  <2>3. ListRight(v, v.feats, TRUE)
    BY <1>1 DEF ListRight
  <2>4. \A m : Ready(w, m, Names(w.system)) => Ready(v, m, Names(v.system))
    BY DEF Ready
  <2>5. QED
    BY <1>1, <1>3, <2>1, <2>2, <2>3, <2>4
<1>5. ASSUME "known" \in v.flags, "plain" \in v.flags, NEW i \in DOMAIN v.system
      PROVE  TasksPossible(v, v.system[i].name, v.system[i].tasks, NamesBefore(v.system, i))
  <2>1. TasksPossible(w, w.system[i].name, w.system[i].tasks, NamesBefore(w.system, i))
    BY <1>5 DEF ListsRight
  <2>2. \A t, there : Can(w, t, there) => Can(v, t, there)
    BY <1>3 DEF Can, Ready
  <2>3. QED
    BY <2>1, <2>2, Zenon DEF TasksPossible
<1>6. ListsRight(v)
  BY <1>1, <1>4, <1>5 DEF ListsRight
<1>7. PackagesRight(v)
  BY <1>2 DEF PackagesRight
<1>8. QED
  BY <1>6, <1>7

LEMMA NextNumber ==
  \A k \in Nat \ {0} : /\ k + 1 \in Nat \ {0} /\ k + 1 - 1 = k /\ k - 1 + 1 = k
                       /\ \A l \in Nat : k <= l => k + 1 <= l + 1
OBVIOUS

LEMMA WorldAfter ==
  ASSUME FInv, Parsing("finish"), NEW serv, NextService(serv)
  PROVE  /\ at' = [c |-> at.c, s |-> at.s + 1, pc |-> "service"]
         /\ cluster'.services = Append(cluster.services, serv)
         /\ cluster' = [managers |-> cluster'.managers, packages |-> cluster'.packages,
                        system |-> cluster'.system, services |-> cluster'.services]
         /\ World'.r = World.r /\ World'.flags = World.flags /\ World'.need = World.need
         /\ World'.offers = World.offers /\ World'.os = World.os
         /\ World'.system = World.system /\ World'.managers = World.managers
         /\ World'.packages = World.packages /\ World'.feats = <<>>
<1>1. /\ cluster' = [cluster EXCEPT !.services = Append(@, serv)]
      /\ at' = [at EXCEPT !.pc = "service", !.s = @ + 1]
      /\ UNCHANGED <<input, features, feats, stack, built, result>>
  BY DEF NextService
<1>2. Typed /\ at.pc # "cluster"
  BY DEF FInv, Parsing
<1> DEFINE s     == at.s + 1
           servs == Append(cluster.services, serv)
<1>3. at' = [c |-> at.c, s |-> s, pc |-> "service"]
  <2>1. at = [c |-> at.c, s |-> at.s, pc |-> at.pc]
    BY <1>2 DEF Typed
  <2> HIDE DEF s
  <2>2. [at EXCEPT !.pc = "service"] = [c |-> at.c, s |-> at.s, pc |-> "service"]
    BY <2>1
  <2>3. [[c |-> at.c, s |-> at.s, pc |-> "service"] EXCEPT !.s = s]
          = [c |-> at.c, s |-> s, pc |-> "service"]
    OBVIOUS
  <2>4. at' = [at EXCEPT !.pc = "service", !.s = s]
    BY <1>1 DEF s
  <2>5. QED
    BY <2>2, <2>3, <2>4, Zenon
<1>4. /\ cluster'.managers = cluster.managers /\ cluster'.packages = cluster.packages
      /\ cluster'.system = cluster.system /\ cluster'.services = servs
      /\ cluster' = [managers |-> cluster'.managers, packages |-> cluster'.packages,
                     system |-> cluster'.system, services |-> cluster'.services]
  <2>1. cluster = [managers |-> cluster.managers, packages |-> cluster.packages,
                   system |-> cluster.system, services |-> cluster.services]
    BY <1>2 DEF Typed
  <2>2. cluster' = [cluster EXCEPT !.services = servs]
    BY <1>1
  <2> HIDE DEF servs
  <2>3. cluster' = [managers |-> cluster.managers, packages |-> cluster.packages,
                    system |-> cluster.system, services |-> servs]
    BY <2>1, <2>2
  <2>4. QED
    BY <2>3
<1>5. at'.c = at.c /\ ~InService'
  BY <1>3 DEF InService
<1>6. Flags' = Flags /\ Net' = Net /\ Offers' = Offers /\ Os' = Os
  BY <1>1, <1>5, SameConfig DEF Os
<1>7. /\ World'.r = input /\ World'.flags = Flags /\ World'.need = Net /\ World'.offers = Offers
      /\ World'.os = Os /\ World'.system = cluster.system
      /\ World'.managers = cluster.managers
      /\ World'.packages = cluster.packages /\ World'.feats = <<>>
  BY <1>1, <1>4, <1>5, <1>6 DEF World, WorldOf
<1>8. QED
  BY <1>3, <1>4, <1>7, WorldFacts

LEMMA NextServiceStep ==
  ASSUME FInv, Parsing("finish"), NEW serv, NextService(serv),
         ServiceRight(World', Confs(at.c)[at.s], serv),
         "known" \in Flags /\ serv # NoService =>
           Have(World) \subseteq Have(World') \cup Names(serv.feats)
  PROVE  FInv'
<1>1. UNCHANGED <<input, features, feats, stack, built, result>>
  BY DEF NextService
<1>2. at.pc # "cluster" /\ InService /\ result = "" /\ stack = <<>>
  BY DEF InService, Parsing
<1>3. Typed /\ Going
  BY <1>2 DEF FInv
<1> DEFINE s     == at.s + 1
           servs == Append(cluster.services, serv)
           v     == World'
           w     == World
<1>4. /\ at' = [c |-> at.c, s |-> s, pc |-> "service"]
      /\ cluster'.services = servs
      /\ cluster' = [managers |-> cluster'.managers, packages |-> cluster'.packages,
                     system |-> cluster'.system, services |-> cluster'.services]
      /\ v.r = w.r /\ v.flags = w.flags /\ v.need = w.need /\ v.offers = w.offers
      /\ v.os = w.os /\ v.system = w.system /\ v.managers = w.managers
      /\ v.packages = w.packages /\ v.feats = <<>>
  BY WorldAfter
<1> HIDE DEF s
<1>6. at'.c = at.c /\ at'.s = s /\ at'.pc = "service" /\ ~InService'
  BY <1>4 DEF InService
<1>8. w.flags = Flags
  BY WorldFacts
<1> HIDE DEF v, w, servs
<1>10. ListsRight(v) /\ PackagesRight(v)
  BY <1>3, <1>4, ServiceLeft DEF Going, w
<1>11. Sequence(cluster.services) /\ Len(cluster.services) = at.s - 1 /\ at.s \in Nat \ {0}
       /\ at.s <= Len(Confs(at.c))
  BY <1>2, <1>3 DEF Typed
<1>12. Len(cluster.services) + 1 = at.s
  BY <1>11, NextNumber
<1>13. ServicesRight(v, Confs(at.c), servs)
  <2>1. ServicesRight(w, Confs(at.c), cluster.services)
    BY <1>3 DEF Going, w
  <2>2. ServiceRight(v, Confs(at.c)[at.s], serv)
    BY DEF v
  <2>3. "known" \in w.flags /\ serv # NoService =>
          Have(w) \subseteq Have(v) \cup Names(serv.feats)
    BY <1>8 DEF v, w
  <2>4. QED
    BY <1>4, <1>11, <1>12, <2>1, <2>2, <2>3, ServicesMore DEF servs
<1>14. Going'
  <2>1. ServicesRight(v, input'.clusters[at'.c].services, cluster'.services)
    BY <1>1, <1>4, <1>6, <1>13 DEF Confs
  <2>2. Calls(v, stack')
    BY <1>1, <1>2, NoCalls
  <2>3. QED
    BY <1>6, <1>10, <2>1, <2>2 DEF Going, Confs, v
<1>15. Typed'
  <2>1. Sequence(servs) /\ Len(servs) = s - 1
    <3>1. Sequence(servs) /\ Len(servs) = Len(cluster.services) + 1
      BY <1>11, Appended DEF servs
    <3>2. s - 1 = at.s
      BY <1>11, NextNumber DEF s
    <3>3. QED
      BY <1>12, <3>1, <3>2
  <2>2. s \in Nat \ {0} /\ s <= Len(Confs(at.c)) + 1
    <3>1. Sequence(Confs(at.c))
      <4>1. at.c \in DOMAIN input.clusters
        BY <1>2, <1>3, AtService, <1>11
      <4>2. QED
        BY <1>3, <4>1, ConfigFacts
    <3>2. Len(Confs(at.c)) \in Nat
      BY <3>1, SeqFacts
    <3>3. QED
      BY <1>11, <3>2, NextNumber DEF s
  <2>3. s <= Len(input'.clusters[at'.c].services) + 1
    BY <1>1, <1>6, <2>2 DEF Confs
  <2>4. at' = [c |-> at'.c, s |-> at'.s, pc |-> at'.pc]
    BY <1>4
  <2>5. /\ input' \in Inputs /\ DOMAIN features' = DOMAIN input'.features
        /\ \A f \in DOMAIN features' : Alike(features'[f], input'.features[f])
        /\ Sequence(built') /\ Len(built') = at'.c - 1 /\ at'.c <= Len(input'.clusters) + 1
        /\ at'.c \in Nat \ {0} /\ at'.c <= Len(input'.clusters)
    BY <1>1, <1>2, <1>3, <1>6 DEF Typed
  <2>6. at'.pc \in {"cluster", "service", "builtin", "finish"} /\ stack' = <<>>
    BY <1>1, <1>2, <1>6
  <2>7. QED
    BY <1>4, <1>6, <2>1, <2>2, <2>3, <2>4, <2>5, <2>6, Zenon DEF Typed, Confs
<1>16. BuiltRight' /\ ResultRight'
  BY <1>1, <1>2, BuiltSame DEF FInv, ResultRight
<1>17. QED
  BY <1>14, <1>15, <1>16 DEF FInv

LEMMA NoKey ==
  ASSUME NEW conf, IsService(conf), conf.key = <<>>
  PROVE  PropsOf(conf).how \in {"ok", "error"}
<1>1. conf.port \in Nat
  BY DEF IsService
<1>2. conf.port = 0 \/ conf.port > 0
  BY <1>1
<1>3. CASE conf.port = 0
  <2>1. ~(conf.port > 0)
    BY <1>3
  <2>2. PropsOf(conf) = Written(conf.props, 0)
    BY <1>3, <2>1 DEF PropsOf
  <2>3. QED
    BY <2>2, WrittenFields
<1>4. CASE conf.port > 0
  <2>1. conf.port # 0
    BY <1>4
  <2>2. PropsOf(conf) = Failed("error")
    BY <1>4, <2>1 DEF PropsOf
  <2>3. QED
    BY <2>2, FailedFields
<1>5. QED
  BY <1>2, <1>3, <1>4

LEMMA HowCases ==
  ASSUME NEW conf, IsService(conf)
  PROVE  /\ PropsOf(conf).how \in {"ok", "error", "panic"}
         /\ PropsOf(conf).how = "panic" => \E l \in ToSet(conf.props) : l.value = NoValue
<1>1. CASE conf.key = <<>>
  BY <1>1, NoKey
<1>2. CASE conf.key # <<>>
  <2> DEFINE given == LinesOf(conf.props, conf.key)
             first == Min(given)
             P     == PropsOf(conf)
  <2>1. /\ P.how = "error" \/ P.how = "panic" \/ (\E t, p : P = Written(t, p))
        /\ P.how = "panic" => \/ given # {} /\ conf.props[first].value = NoValue
                              \/ \E t, p : P = Written(t, p)
    BY <1>2, PropsCases
  <2>2. given # {} => conf.props[first] \in ToSet(conf.props)
    BY GivenFirst DEF ToSet
  <2> HIDE DEF given, first, P
  <2>3. (\E t, p : P = Written(t, p)) => P.how = "ok"
    BY WrittenFields
  <2>4. QED
    BY <2>1, <2>2, <2>3 DEF P
<1>3. QED
  BY <1>1, <1>2

LEMMA FinishServiceStep ==
  ASSUME FInv, FinishService
  PROVE  FInv'
<1> DEFINE props == IF Serv.artifact /\ Serv.propsName # "" THEN PropsOf(Serv)
                    ELSE Written(<<>>, Serv.port)
           tasks == RunTasks(Serv, props.text)
           run   == IF Serv.artifact THEN <<[name |-> RunName, tasks |-> tasks]>> ELSE <<>>
           serv  == [name |-> Serv.name, machine |-> Serv.machine, feats |-> feats \o run,
                     port |-> props.port, text |-> props.text, monitored |-> Serv.port]
<1>1. Parsing("finish")
  BY DEF FinishService
<1>2. at.pc # "cluster" /\ InService /\ result = "" /\ stack = <<>> /\ at.pc # "builtin"
  BY <1>1 DEF InService, Parsing
<1>3. at.s <= Len(Confs(at.c))
  BY <1>2 DEF FInv, Typed
<1>4. /\ Typed /\ Going /\ Serv = Confs(at.c)[at.s] /\ IsService(Serv) /\ Serv \in AllServices
  BY <1>2, <1>3, AtService
<1>5. CASE props.how = "panic" /\ Give("panic")
  <2>1. \E l \in ToSet(Serv.props) : l.value = NoValue
    <3>1. props = PropsOf(Serv) \/ props.how = "ok"
      BY WrittenFields
    <3> HIDE DEF props
    <3>2. QED
      BY <1>4, <1>5, <3>1, HowCases
  <2>2. result' = "panic" /\ input' = input
    BY <1>5 DEF Give
  <2>3. AllServices' = AllServices
    BY <2>2 DEF AllServices
  <2>4. ResultRight'
    BY <1>4, <2>1, <2>2, <2>3 DEF ResultRight
  <2>5. QED
    BY <1>5, <2>4, GiveStep
<1>6. CASE NextService(NoService)
  <2>1. ServiceRight(World', Confs(at.c)[at.s], NoService)
    BY DEF ServiceRight
  <2>2. QED
    BY <1>1, <1>6, <2>1, NextServiceStep
<1>7. CASE Give("error") /\ ~(ToSet(Serv.packages) \subseteq DOMAIN input.packages)
  <2>1. result' = "error" /\ input' = input
    BY <1>7 DEF Give
  <2>2. AllServices' = AllServices
    BY <2>1 DEF AllServices
  <2>3. ResultRight'
    BY <1>4, <1>7, <2>1, <2>2 DEF ResultRight
  <2>4. QED
    BY <1>7, <2>3, GiveStep
<1>8. CASE props.how # "panic" /\ props.how # "error" /\ NextService(serv)
  <2>1. /\ World'.r = World.r /\ World'.flags = World.flags /\ World'.os = World.os
        /\ World'.system = World.system
    BY <1>1, <1>8, WorldAfter
  <2>2. World.r = input /\ World.flags = Flags /\ World.feats = feats
    BY <1>2, WorldFacts
  <2>3. ListsRight(World)
    BY <1>4 DEF Going
  <2>4. /\ serv.feats = feats \o run /\ serv.port = props.port /\ serv.text = props.text
        /\ serv.monitored = Serv.port
    OBVIOUS
  <2>5. ASSUME "known" \in Flags
        PROVE  FeatsRight(World', serv.feats) /\ Names(feats) \subseteq Names(serv.feats)
    <3>1. Serv.artifact \in BOOLEAN
      BY <1>4 DEF IsService
    <3> HIDE DEF serv, tasks
    <3>2. QED
      BY <2>1, <2>2, <2>3, <2>4, <2>5, <3>1, RunAdded
  <2>6. ASSUME "known" \in Flags
        PROVE  AskedBy(Serv) \subseteq Have(World)
    <3>1. First(stack) = {}
      BY <1>2 DEF First
    <3>2. QED
      BY <1>2, <1>4, <2>6, <3>1 DEF Going
  <2>7. PortRight(Serv, serv)
    <3>1. ASSUME Serv.artifact, Serv.propsName # "", Serv.key # <<>>
          PROVE  PortThere(Serv, serv.text, serv.port)
      <4>1. props = PropsOf(Serv)
        BY <3>1, Zenon
      <4>2. PropsOf(Serv).how = "ok"
        BY <1>4, <1>8, <4>1, HowCases, Zenon
      <4>3. PortThere(Serv, PropsOf(Serv).text, PropsOf(Serv).port)
        BY <1>4, <3>1, <4>2, PropsRight
      <4> HIDE DEF serv, props
      <4>4. QED
        BY <2>4, <4>1, <4>3
    <3> HIDE DEF serv, props, run
    <3>2. QED
      BY <2>4, <3>1 DEF PortRight, PortThere
  <2> HIDE DEF serv, props, run
  <2>8. ServiceRight(World', Confs(at.c)[at.s], serv)
    <3>1. ASSUME "known" \in Flags
          PROVE  AskedBy(Serv) \subseteq Names(World'.system) \cup Names(serv.feats)
      BY <2>1, <2>2, <2>5, <2>6, <3>1 DEF Have
    <3>2. QED
      BY <1>4, <2>1, <2>2, <2>5, <2>7, <3>1 DEF ServiceRight
  <2>9. "known" \in Flags => Have(World) \subseteq Have(World') \cup Names(serv.feats)
    BY <2>1, <2>2, <2>5 DEF Have
  <2>10. QED
    BY <1>1, <1>8, <2>8, <2>9, NextServiceStep
<1>9. \/ props.how = "panic" /\ Give("panic")
      \/ NextService(NoService)
      \/ Give("error") /\ ~(ToSet(Serv.packages) \subseteq DOMAIN input.packages)
      \/ props.how # "panic" /\ props.how # "error" /\ NextService(serv)
  <2>1. (CASE props.how = "panic" -> Give("panic")
           [] props.how = "error" -> NextService(NoService)
           [] OTHER -> IF ToSet(Serv.packages) \subseteq DOMAIN input.packages
                       THEN NextService(serv) ELSE Give("error"))
    BY DEF FinishService
  <2> HIDE DEF props, serv
  <2>2. QED
    BY <2>1
<1>10. QED
  BY <1>5, <1>6, <1>7, <1>8, <1>9

LEMMA LastService ==
  \A l, n \in Nat, i \in Nat \ {0} : n = i - 1 /\ i <= l + 1 /\ i > l => n = l
OBVIOUS

LEMMA EndSystemStep ==
  ASSUME FInv, EndSystem
  PROVE  FInv'
<1>1. Give("ok")
  BY DEF EndSystem
<1>2. ResultRight'
  BY <1>1 DEF Give, ResultRight
<1>3. QED
  BY <1>1, <1>2, GiveStep

LEMMA EndClusterStep ==
  ASSUME FInv, EndCluster
  PROVE  FInv'
<1>1. /\ result = "" /\ stack = <<>> /\ at.pc = "service" /\ at.s > Len(Confs(at.c))
      /\ built' = Append(built, cluster)
      /\ at' = [at EXCEPT !.pc = "cluster", !.c = @ + 1]
      /\ UNCHANGED <<input, features, cluster, feats, stack, result>>
  BY DEF EndCluster, Parsing, Conf, Confs
<1>2. at.pc # "cluster" /\ ~InService
  BY <1>1 DEF InService
<1>3. Typed /\ Going /\ BuiltRight
  BY <1>1, <1>2 DEF FInv
<1> DEFINE k == at.c + 1
<1>4. at' = [c |-> k, s |-> at.s, pc |-> "cluster"]
  <2>1. at = [c |-> at.c, s |-> at.s, pc |-> at.pc]
    BY <1>3 DEF Typed
  <2> HIDE DEF k
  <2>2. [at EXCEPT !.pc = "cluster"] = [c |-> at.c, s |-> at.s, pc |-> "cluster"]
    BY <2>1
  <2>3. [[c |-> at.c, s |-> at.s, pc |-> "cluster"] EXCEPT !.c = k]
          = [c |-> k, s |-> at.s, pc |-> "cluster"]
    OBVIOUS
  <2>4. at' = [at EXCEPT !.pc = "cluster", !.c = k]
    BY <1>1 DEF k
  <2>5. QED
    BY <2>2, <2>3, <2>4, Zenon
<1>5. /\ Sequence(built) /\ Len(built) = at.c - 1 /\ at.c \in Nat \ {0}
      /\ at.c <= Len(input.clusters) /\ Sequence(input.clusters)
      /\ Len(cluster.services) = at.s - 1 /\ at.s \in Nat \ {0}
      /\ at.s <= Len(Confs(at.c)) + 1
  BY <1>2, <1>3, ConfigFacts DEF Typed
<1>6. Len(built) + 1 = at.c
  BY <1>5, NextNumber
<1>7. /\ Sequence(built') /\ Len(built') = at.c /\ built'[at.c] = cluster
      /\ \A c \in DOMAIN built : built'[c] = built[c]
      /\ \A c \in DOMAIN built' : c \in DOMAIN built \/ c = at.c
  <2>1. /\ Sequence(built') /\ Len(built') = Len(built) + 1 /\ built'[Len(built) + 1] = cluster
        /\ \A c \in DOMAIN built : built'[c] = built[c]
    <3>1. built' = Append(built, cluster) /\ Sequence(built)
      BY <1>1, <1>5
    <3>2. QED
      BY <3>1, Appended, Zenon
  <2>2. /\ DOMAIN built = 1 .. Len(built) /\ Len(built) \in Nat
        /\ DOMAIN built' = 1 .. Len(built) + 1
    BY <1>5, <2>1, SeqFacts
  <2>3. \A c \in DOMAIN built' : c \in DOMAIN built \/ c = Len(built) + 1
    BY <2>2, OneMore
  <2>4. QED
    BY <1>6, <2>1, <2>3
<1>8. Flags' = Flags /\ Net' = Net /\ Offers' = Offers
  BY <1>1, SameConfig
<1> HIDE DEF k
<1>9. at'.c = k /\ at'.pc = "cluster" /\ ~InService'
  BY <1>4 DEF InService
<1>10. k \in Nat \ {0} /\ k - 1 = at.c /\ k <= Len(input.clusters) + 1
  <2>1. Len(input.clusters) \in Nat
    BY <1>5, SeqFacts
  <2>2. QED
    BY <1>5, <2>1, NextNumber DEF k
<1>11. Typed'
  <2>1. at' = [c |-> at'.c, s |-> at'.s, pc |-> at'.pc]
    BY <1>4
  <2>2. at'.c \in Nat \ {0} /\ Len(built') = at'.c - 1 /\ at'.c <= Len(input'.clusters) + 1
    <3>1. at'.c = k /\ input' = input
      BY <1>1, <1>9
    <3>2. QED
      BY <1>7, <1>10, <3>1, Zenon
  <2>3. /\ input' \in Inputs /\ DOMAIN features' = DOMAIN input'.features
        /\ \A f \in DOMAIN features' : Alike(features'[f], input'.features[f])
    BY <1>1, <1>3 DEF Typed
  <2>4. stack' = <<>> /\ at'.pc \in {"cluster", "service", "builtin", "finish"}
    BY <1>1, <1>9
  <2>5. QED
    BY <1>7, <1>9, <2>1, <2>2, <2>3, <2>4 DEF Typed
<1>12. Len(cluster.services) = Len(Confs(at.c))
  <2>1. Sequence(Confs(at.c))
    <3>1. at.c \in DOMAIN input.clusters
      BY <1>5, IndexIn
    <3>2. QED
      BY <1>3, <3>1, ConfigFacts
  <2> DEFINE l == Len(Confs(at.c))
             n == Len(cluster.services)
             i == at.s
  <2>2. l \in Nat /\ n \in Nat /\ n = i - 1 /\ i \in Nat \ {0} /\ i <= l + 1 /\ i > l
    <3>1. Sequence(cluster.services)
      BY <1>2, <1>3 DEF Typed
    <3>2. QED
      BY <1>1, <1>5, <2>1, <3>1, SeqFacts
  <2> HIDE DEF l, n, i
  <2>3. n = l
    BY <2>2, LastService
  <2>4. QED
    BY <2>3 DEF l, n
<1>13. /\ Os' = input'.clusters[at'.c].os
       /\ World = WorldOf(input, Flags, Net, Offers, OsOf(at.c), cluster, <<>>)
  BY <1>2 DEF Os, World, OsOf
<1>14. BuiltRight'
  <2> DEFINE W(c) == WorldOf(input, Flags, Net, Offers, OsOf(c), built'[c], <<>>)
  <2>1. ASSUME NEW c \in DOMAIN built'
        PROVE  /\ ListsRight(W(c)) /\ ServicesRight(W(c), Confs(c), built'[c].services)
               /\ Len(built'[c].services) = Len(Confs(c))
    <3>1. CASE c \in DOMAIN built
      <4>1. built'[c] = built[c]
        BY <1>7, <3>1
      <4>2. W(c) = WorldAt(c)
        BY <4>1 DEF WorldAt
      <4>3. QED
        BY <1>3, <3>1, <4>1, <4>2 DEF BuiltRight
    <3>2. CASE c = at.c
      <4>1. built'[c] = cluster
        BY <1>7, <3>2
      <4>2. W(c) = World
        BY <1>13, <3>2, <4>1
      <4>3. QED
        BY <1>3, <1>12, <3>2, <4>1, <4>2 DEF Going
    <3>3. QED
      BY <1>7, <2>1, <3>1, <3>2
  <2>2. \A c : W(c) = WorldAt(c)' /\ Confs(c)' = Confs(c)
    BY <1>1, <1>8 DEF WorldAt, OsOf, Confs
  <2> HIDE DEF W
  <2>3. QED
    BY <2>1, <2>2 DEF BuiltRight
<1>15. ResultRight'
  BY <1>1 DEF ResultRight
<1>16. QED
  BY <1>9, <1>11, <1>14, <1>15 DEF FInv

-----------------------------------------------------------------------------
(* Every step.                                                             *)

LEMMA FeaturesStutter ==
  ASSUME FInv, UNCHANGED vars
  PROVE  FInv'
<1>1. UNCHANGED <<input, features, cluster, feats, stack, at, built, result>>
  BY DEF vars
<1>2. BuiltRight'
  BY <1>1, BuiltSame DEF FInv
<1>3. Typed' /\ ResultRight'
  <2>1. AllServices' = AllServices
    BY <1>1 DEF AllServices
  <2>2. (NoneMissing' <=> NoneMissing) /\ (Circular' <=> Circular)
    <3>1. Flags' = Flags
      BY <1>1, SameConfig
    <3>2. (("known" \in Flags)' <=> NoneMissing') /\ (("simple" \in Flags)' <=> ~Circular')
      BY DEF Flags
    <3>3. QED
      BY <3>1, <3>2, FlagFacts
  <2>3. ResultRight'
    BY <1>1, <2>1, <2>2 DEF FInv, ResultRight, Bad
  <2>4. Typed'
    BY <1>1 DEF FInv, Typed, InService, Confs
  <2>5. QED
    BY <2>3, <2>4
<1>4. ASSUME Going PROVE Going'
  <2>1. Flags' = Flags /\ Net' = Net /\ Offers' = Offers
    BY <1>1, SameConfig
  <2>2. World' = World
    BY <1>1, <2>1 DEF World, WorldOf, Os, InService
  <2>3. Confs(at.c)' = Confs(at.c) /\ Serv' = Serv /\ InService' = InService
    BY <1>1 DEF Confs, Serv, Conf, InService
  <2>4. QED
    BY <1>1, <1>4, <2>1, <2>2, <2>3 DEF Going
<1>5. QED
  BY <1>1, <1>2, <1>3, <1>4 DEF FInv

LEMMA ParserStep ==
  ASSUME FInv, [FeaturesNext]_vars
  PROVE  FInv'
<1>1. CASE FeatureToFeature
  BY <1>1, VisitStep, MissingStep, ReturnStep, RequiredStep, TaskPlainStep,
     TaskManagerStep, ManagerAddedStep, FeatureDoneStep DEF FeatureToFeature
<1>2. CASE ParseSystem
  BY <1>2, BeginClusterStep, BeginServiceStep, BuiltInStep, FinishServiceStep,
     EndClusterStep, EndSystemStep DEF ParseSystem
<1>3. CASE UNCHANGED vars
  BY <1>3, FeaturesStutter
<1>4. QED
  BY <1>1, <1>2, <1>3 DEF FeaturesNext

(* The host does not touch what the parser has built.                      *)
LEMMA HostOnly ==
  ASSUME [Next]_allVars
  PROVE  [FeaturesNext]_vars
<1>1. ASSUME Execute PROVE UNCHANGED vars
  BY <1>1 DEF Execute, Begin, BeginAgain, Start, Succeed, Page, Blocked, Fail
<1>2. ASSUME Deliver \/ Crash \/ Restart \/ Update PROVE UNCHANGED vars
  BY <1>2 DEF Deliver, Crash, Restart, Update
<1>3. QED
  BY <1>1, <1>2 DEF Next, allVars

LEMMA ParserAtFirst == Init => FInv
<1> SUFFICES ASSUME Init PROVE FInv
  OBVIOUS
<1>1. /\ input \in Inputs /\ features = input.features /\ feats = <<>> /\ stack = <<>>
      /\ built = <<>> /\ result = "" /\ at = [c |-> 1, s |-> 1, pc |-> "cluster"]
  BY DEF Init, FeaturesInit
<1>2. at.c = 1 /\ at.pc = "cluster" /\ at = [c |-> at.c, s |-> at.s, pc |-> at.pc]
  BY <1>1
<1>3. ~InService
  BY <1>2 DEF InService
<1>4. \A f \in DOMAIN features : Alike(features[f], input.features[f])
  BY <1>1, SelfAlike, FeaturesAssumption
<1>5. Sequence(input.clusters)
  BY <1>1, FeaturesAssumption, ListSequence
<1>6. /\ at.c \in Nat \ {0} /\ Sequence(built) /\ Len(built) = at.c - 1
      /\ at.c <= Len(input.clusters) + 1
  <2>1. Len(input.clusters) \in Nat /\ 1 <= Len(input.clusters) + 1
    BY <1>5, SeqFacts
  <2>2. Sequence(built) /\ Len(built) = 0 /\ 0 = 1 - 1
    <3>1. built = <<>>
      BY <1>1
    <3>2. Sequence(built)
      BY <3>1, EmptySequence
    <3>3. Len(built) = 0
      BY <3>1, <3>2, SeqFacts
    <3>4. 0 = 1 - 1
      OBVIOUS
    <3>5. QED
      BY <3>2, <3>3, <3>4
  <2>3. QED
    BY <1>2, <2>1, <2>2
<1>7. Typed
  BY <1>1, <1>2, <1>3, <1>4, <1>6 DEF Typed
<1>8. BuiltRight
  BY <1>1, EmptySequence DEF BuiltRight
<1>9. ResultRight
  BY <1>1 DEF ResultRight
<1>10. QED
  BY <1>2, <1>7, <1>8, <1>9 DEF FInv

(* The invariant of the parser holds from ParseSystem's first cluster to   *)
(* its result, whatever the configuration is.                              *)
THEOREM ParserInvariance == Spec => []FInv
<1>1. FInv /\ [Next]_allVars => FInv'
  BY ParserStep, HostOnly
<1>2. QED
  BY <1>1, ParserAtFirst, PTL DEF Spec

-----------------------------------------------------------------------------
(* What follows of it.                                                     *)

(* A cluster that is built. *)
LEMMA BuiltFacts ==
  ASSUME FInv, NEW c \in DOMAIN built
  PROVE  /\ ListsRight(WorldAt(c))
         /\ ServicesRight(WorldAt(c), Confs(c), built[c].services)
         /\ Len(built[c].services) = Len(Confs(c))
         /\ WorldAt(c).r = input /\ WorldAt(c).flags = Flags /\ WorldAt(c).os = OsOf(c)
         /\ WorldAt(c).system = built[c].system /\ WorldAt(c).managers = built[c].managers
         /\ WorldAt(c).feats = <<>>
         /\ Have(WorldAt(c)) = Names(built[c].system)
<1>1. /\ WorldAt(c).r = input /\ WorldAt(c).flags = Flags /\ WorldAt(c).os = OsOf(c)
      /\ WorldAt(c).system = built[c].system /\ WorldAt(c).managers = built[c].managers
      /\ WorldAt(c).feats = <<>>
  BY DEF WorldAt, WorldOf
<1>2. Have(WorldAt(c)) = Names(built[c].system)
  BY <1>1, EmptySequence DEF Have
<1>3. QED
  BY <1>1, <1>2 DEF FInv, BuiltRight

(* The words of the invariant and those of the properties are the same.    *)
LEMMA SameWords ==
  /\ \A n : Needs(n) = NeedsOf(input, n)
  /\ \A c, n : IsOwn(c, n) <=> IsOwnOf(input, OsOf(c), n)
  /\ \A c, s : ConfOf(c, s) = Confs(c)[s] /\ Asked(c, s) = AskedBy(Confs(c)[s])
BY DEF Needs, NeedsOf, IsOwn, IsOwnOf, ConfOf, Confs, Asked, AskedBy

LEMMA OkBuilt == \A c \in Oks : c \in DOMAIN built
BY DEF Oks

(* A feature comes after those of its list it requires, however deep they  *)
(* are and whoever had them collected first, and it comes once unless      *)
(* features need each other in a circle (featureToFeature,                 *)
(* parse.go:474-485).                                                      *)
THEOREM FeaturesOrdered == Spec => []RequiredFirst
<1>1. FInv => RequiredFirst
  <2> SUFFICES ASSUME FInv, NoneMissing, NEW c \in DOMAIN built
               PROVE  /\ Before(c, built[c].system, FALSE)
                      /\ Once(built[c].system) \/ Circular
                      /\ \A s \in DOMAIN built[c].services :
                           /\ Before(c, built[c].services[s].feats, TRUE)
                           /\ Once(built[c].services[s].feats) \/ Circular
    BY OkBuilt DEF RequiredFirst
  <2>1. "known" \in Flags /\ ("simple" \in Flags \/ Circular)
    BY FlagFacts
  <2>2. ListRight(WorldAt(c), built[c].system, FALSE)
    BY <2>1, BuiltFacts DEF ListsRight
  <2>3. Before(c, built[c].system, FALSE)
    BY <2>2, BuiltFacts, SameWords DEF ListRight, Before
  <2>4. Once(built[c].system) \/ Circular
    BY <2>1, <2>2, BuiltFacts DEF ListRight, Once
  <2>5. ASSUME NEW s \in DOMAIN built[c].services
        PROVE  LET fs == built[c].services[s].feats
               IN  Before(c, fs, TRUE) /\ (Once(fs) \/ Circular)
    <3> DEFINE fs == built[c].services[s].feats
    <3>1. CASE built[c].services[s] = NoService
      <4>1. NoService.feats = <<>>
        BY DEF NoService
      <4>2. fs = <<>>
        BY <3>1, <4>1, Zenon
      <4>3. DOMAIN fs = {}
        BY <4>2, EmptySequence
      <4>4. QED
        BY <4>3 DEF Before, Once
    <3>2. CASE built[c].services[s] # NoService
      <4>1. FeatsRight(WorldAt(c), fs)
        BY <2>1, <3>2, BuiltFacts DEF ServicesRight, ServiceRight
      <4> HIDE DEF fs
      <4>2. Before(c, fs, TRUE)
        BY <4>1, BuiltFacts, SameWords DEF FeatsRight, Before
      <4>3. Once(fs) \/ Circular
        BY <2>1, <4>1, BuiltFacts DEF FeatsRight, Once
      <4>4. QED
        BY <4>2, <4>3 DEF fs
    <3>3. QED
      BY <3>1, <3>2
  <2>6. QED
    BY <2>3, <2>4, <2>5
<1>2. QED
  BY <1>1, ParserInvariance, PTL

(* Nothing a service asks for is lost, nor what that requires: it is in    *)
(* the list of the cluster or in the one of the service, or in another     *)
(* service's when a feature of the system requires it (parse.go:478).      *)
THEOREM FeaturesThere == Spec => []AllThere
<1>1. FInv => AllThere
  <2> SUFFICES ASSUME FInv, NoneMissing, NEW c \in Oks
               PROVE  LET system == Names(built[c].system)
                          Own(s) == Names(built[c].services[s].feats)
                          all    == system \cup UNION {Own(s) : s \in DOMAIN built[c].services}
                      IN  /\ \A n \in system : Left(c) = {} => Needs(n) \subseteq all
                          /\ \A s \in DOMAIN built[c].services \ Left(c) :
                               /\ Asked(c, s) \subseteq system \cup Own(s)
                               /\ \A n \in Own(s) \ {RunName} :
                                    Needs(n) \subseteq system \cup Own(s)
    BY DEF AllThere
  <2> DEFINE system == Names(built[c].system)
             Own(s) == Names(built[c].services[s].feats)
             all    == system \cup UNION {Own(s) : s \in DOMAIN built[c].services}
  <2>1. "known" \in Flags /\ c \in DOMAIN built
    BY FlagFacts, OkBuilt
  <2>2. ServicesRight(WorldAt(c), Confs(c), built[c].services)
    BY <2>1, BuiltFacts
  <2>3. ASSUME NEW n \in system, Left(c) = {} PROVE Needs(n) \subseteq all
    <3>1. \A s \in DOMAIN built[c].services : built[c].services[s] # NoService
      BY <2>3 DEF Left
    <3>2. NeedsOf(input, n) \subseteq all
      BY <2>1, <2>2, <2>3, <3>1, BuiltFacts DEF ServicesRight
    <3> HIDE DEF all
    <3>3. QED
      BY <3>2, SameWords
  <2>4. ASSUME NEW s \in DOMAIN built[c].services \ Left(c)
        PROVE  /\ Asked(c, s) \subseteq system \cup Own(s)
               /\ \A n \in Own(s) \ {RunName} : Needs(n) \subseteq system \cup Own(s)
    <3>1. ServiceRight(WorldAt(c), Confs(c)[s], built[c].services[s])
      BY <2>2, <2>4 DEF ServicesRight
    <3>2. built[c].services[s] # NoService
      BY <2>4 DEF Left
    <3>3. /\ AskedBy(Confs(c)[s]) \subseteq system \cup Own(s)
          /\ \A n \in Own(s) \ {RunName} : NeedsOf(input, n) \subseteq system \cup Own(s)
      <4>1. /\ WorldAt(c).r = input /\ "known" \in WorldAt(c).flags
            /\ WorldAt(c).system = built[c].system
        BY <2>1, BuiltFacts
      <4>2. /\ FeatsRight(WorldAt(c), built[c].services[s].feats)
            /\ AskedBy(Confs(c)[s]) \subseteq
                 Names(WorldAt(c).system) \cup Names(built[c].services[s].feats)
        BY <3>1, <3>2, <4>1 DEF ServiceRight
      <4>3. QED
        BY <4>1, <4>2 DEF FeatsRight
    <3> HIDE DEF system, Own
    <3>4. QED
      BY <3>3, SameWords
  <2>5. QED
    BY <2>3, <2>4
<1>2. QED
  BY <1>1, ParserInvariance, PTL

(* A package is installed when the cluster has one of its managers, with   *)
(* what that one requires before it; a task becomes an empty one only when *)
(* nobody who has come before offers its package                           *)
(* (validateOrAddPackageManager, parse.go:583-614).                        *)
THEOREM PackagesInstallable == Spec => []InstallsPossible
<1>1. FInv => InstallsPossible
  <2> DEFINE F(c, i)    == built[c].system[i]
             T(c, i, k) == F(c, i).tasks[k]
             S(c, i, k) == TasksFor(input.features[F(c, i).name[1]], OsOf(c))[k]
  <2> SUFFICES ASSUME FInv, NoneMissing, Unambiguous, NEW c \in Oks,
                      NEW i \in DOMAIN built[c].system, NEW k \in DOMAIN F(c, i).tasks
               PROVE  /\ T(c, i, k).type = "install" => Installable(c, i, T(c, i, k))
                      /\ T(c, i, k).type = "" => Explained(F(c, i).name, S(c, i, k).package)
    BY Zenon DEF InstallsPossible
  <2> DEFINE w == WorldAt(c)
             f == F(c, i)
             t == T(c, i, k)
             B == NamesBefore(built[c].system, i)
  <2>1. "known" \in Flags /\ "plain" \in Flags /\ c \in DOMAIN built
    BY FlagFacts, OkBuilt
  <2>2. TasksPossible(w, f.name, f.tasks, B)
    BY <2>1, BuiltFacts DEF ListsRight
  <2>3. /\ w.r = input /\ w.os = OsOf(c)
        /\ ManagersIn(w) = {m.name : m \in ToSet(built[c].managers)}
    BY <2>1, BuiltFacts DEF ManagersIn
  <2>4. ASSUME t.type = "install" PROVE Installable(c, i, t)
    <3>1. Can(w, t, B)
      BY <2>2, <2>4, Zenon DEF TasksPossible
    <3> HIDE DEF w, t
    <3>2. \A m : Ready(w, m, B) =>
            \/ m \in ToSet(input.os[OsOf(c)])
            \/ \A n \in ToSet(input.pms[m].requires) :
                 IsOwn(c, n) \/ \E j \in 1 .. i - 1 : built[c].system[j].name = n
      BY <2>3, SameWords DEF Ready, NamesBefore
    <3>3. QED
      BY <2>3, <3>1, <3>2, FirstSame DEF Can, Installable
  <2>5. ASSUME t.type = "" PROVE Explained(f.name, S(c, i, k).package)
    <3> DEFINE p == S(c, i, k).package
    <3>1. Lost(input, f.name, p)
      BY <2>2, <2>3, <2>5, Zenon DEF TasksPossible
    <3>2. NeedsOf(input, f.name) = Needs(f.name)
      BY SameWords, Zenon
    <3> HIDE DEF f, p, S, t
    <3>3. Explained(f.name, p)
      BY <3>1, <3>2 DEF Lost, Explained
    <3>4. QED
      BY <3>3, Zenon DEF p
  <2> HIDE DEF F, T, S
  <2>6. QED
    BY <2>4, <2>5, Zenon
<1>2. QED
  BY <1>1, ParserInvariance, PTL

(* The port in the text of a service's properties is the one the system    *)
(* returns for it, in one line, and the other lines stay (Props,           *)
(* parse.go:538-581).                                                      *)
THEOREM OnePort == Spec => []PortsAgree
<1>1. FInv => PortsAgree
  <2> SUFFICES ASSUME FInv, NEW c \in Oks, NEW s \in DOMAIN built[c].services \ Left(c)
               PROVE  PortRight(ConfOf(c, s), built[c].services[s])
    BY Zenon DEF PortsAgree, PortRight
  <2>1. ServiceRight(WorldAt(c), Confs(c)[s], built[c].services[s])
    BY OkBuilt, BuiltFacts DEF ServicesRight
  <2>2. built[c].services[s] # NoService
    BY DEF Left
  <2>3. QED
    BY <2>1, <2>2, SameWords DEF ServiceRight
<1>2. QED
  BY <1>1, ParserInvariance, PTL

(* ParseSystem refuses a configuration, panics or runs out of stack for    *)
(* the reasons that are named only (parse.go:66-258, 390-536).             *)
THEOREM ResultExplained == Spec => []ResultRight
<1>1. FInv => ResultRight
  BY DEF FInv
<1>2. QED
  BY <1>1, ParserInvariance, PTL

USE HostAssumption

-----------------------------------------------------------------------------
(* The host: the invariant.                                                *)

IsHost(h) ==
  h = [users |-> h.users, files |-> h.files, exec |-> h.exec,
       packages |-> h.packages, services |-> h.services]

(* The host waits until the system is made of its configuration, which is  *)
(* final by then.                                                          *)
Waiting ==
  /\ Sequence(built)
  /\ IF node = 0
     THEN work = <<>> /\ done = 0 /\ pending = {} /\ cur = 0 /\ up = TRUE
          /\ host = NoHost
     ELSE result = "ok"

HostTyped ==
  /\ IsHost(host)
  /\ link \in {"catalogue", "other", "none"}
  /\ faults \in [FaultKind -> Nat]
  /\ \A k \in FaultKind : faults[k] <= MaxFaults[k]

(* The task that is executed was begun; what it writes is there.           *)
Begun ==
  /\ done \in Nat
  /\ pending \subseteq Nat \ {0}
  /\ cur # 0 => cur \in pending /\ cur \in DOMAIN work

(* The link leads to the catalogue's file but on a node of another         *)
(* architecture, or after buri replaced itself.                            *)
LinkLed ==
  node # 0 /\ link # "catalogue" =>
    input.clusters[node].arch # "amd64" \/ Spent("update")

Fetching == cur # 0 /\ IsFile(TaskAt(cur)) /\ TaskAt(cur).type \in Registered

(* That file is whole, but for a download that runs, broke off or brought  *)
(* something else.                                                         *)
BuriWhole ==
  node # 0 /\ link = "catalogue" /\ ~(Has(Buri) /\ host.files[Buri] = "whole") =>
    \/ Fetching /\ FileOf(TaskAt(cur)) = Buri
    \/ Spent("crash") \/ Spent("fail") \/ Spent("page")

(* What is done holds, and the files that were written are there.          *)
HoldsOn(k) == Holds(k) /\ (IsFile(TaskAt(k)) => Has(FileOf(TaskAt(k))))
Held       == \A k \in 1 .. done \ pending : HoldsOn(k)

IInv == Waiting /\ HostTyped /\ Begun /\ LinkLed /\ BuriWhole /\ Held

-----------------------------------------------------------------------------
(* Facts about the data the actions work on.                               *)

LEMMA NoZeroth ==
  ASSUME NEW s, Sequence(s), NEW i \in DOMAIN s
  PROVE  i # 0
<1>1. PICK S : s \in Seq(S)
  BY DEF Sequence
<1>2. QED
  BY <1>1

LEMMA SpendFacts ==
  ASSUME faults \in [FaultKind -> Nat], NEW k \in FaultKind, Spend(k),
         \A f \in FaultKind : faults[f] <= MaxFaults[f]
  PROVE  /\ faults' \in [FaultKind -> Nat]
         /\ \A f \in FaultKind : faults'[f] <= MaxFaults[f]
         /\ \A f \in FaultKind : faults'[f] <= faults[f]
         /\ Spent(k)'
<1>1. faults' = [faults EXCEPT ![k] = faults[k] - 1] /\ faults[k] > 0
  BY DEF Spend
<1>2. faults[k] \in Nat /\ MaxFaults[k] \in Nat /\ faults[k] <= MaxFaults[k]
  BY HostAssumption
<1>3. faults[k] - 1 \in Nat /\ faults[k] - 1 < MaxFaults[k]
  BY <1>1, <1>2
<1>4. faults' \in [FaultKind -> Nat]
  BY <1>1, <1>3
<1>5. ASSUME NEW f \in FaultKind
      PROVE  faults'[f] <= MaxFaults[f] /\ faults'[f] <= faults[f]
  <2>1. faults[f] \in Nat /\ MaxFaults[f] \in Nat /\ faults[f] <= MaxFaults[f]
    BY HostAssumption
  <2>2. faults'[f] = IF f = k THEN faults[k] - 1 ELSE faults[f]
    BY <1>1
  <2>3. QED
    BY <2>1, <2>2, <1>2
<1>6. faults'[k] < MaxFaults[k]
  BY <1>1, <1>3
<1>7. QED
  BY <1>4, <1>5, <1>6 DEF Spent

(* What was spent is gone.                                                 *)
LEMMA StaysSpent ==
  ASSUME faults \in [FaultKind -> Nat], faults' \in [FaultKind -> Nat],
         NEW k \in FaultKind, Spent(k), faults'[k] <= faults[k]
  PROVE  Spent(k)'
<1>1. faults[k] \in Nat /\ faults'[k] \in Nat /\ MaxFaults[k] \in Nat
  BY HostAssumption
<1>2. faults[k] < MaxFaults[k]
  BY DEF Spent
<1>3. faults'[k] < MaxFaults[k]
  BY <1>1, <1>2
<1>4. QED
  BY <1>3 DEF Spent

(* The host of a step has at least what it had.                            *)
Keeps(h) ==
  /\ IsHost(h)
  /\ host.users \subseteq h.users /\ host.packages \subseteq h.packages
  /\ host.services \subseteq h.services /\ host.exec \subseteq h.exec
  /\ DOMAIN host.files \subseteq DOMAIN h.files

(* No file but f changes.                                                  *)
Spares(h, f) == \A g \in DOMAIN host.files : g # f => h.files[g] = host.files[g]

LEMMA PutFacts ==
  ASSUME IsHost(host), NEW f, NEW v
  PROVE  /\ Keeps(Put(f, v)) /\ Spares(Put(f, v), f)
         /\ f \in DOMAIN Put(f, v).files /\ Put(f, v).files[f] = v
         /\ Put(f, v).users = host.users /\ Put(f, v).packages = host.packages
         /\ Put(f, v).services = host.services /\ Put(f, v).exec = host.exec
<1> DEFINE files == [g \in DOMAIN host.files \cup {f} |->
                       IF g = f THEN v ELSE host.files[g]]
<1>1. Put(f, v) = [users |-> host.users, files |-> files, exec |-> host.exec,
                   packages |-> host.packages, services |-> host.services]
  BY DEF Put, IsHost
<1>2. /\ DOMAIN files = DOMAIN host.files \cup {f} /\ files[f] = v
      /\ \A g \in DOMAIN host.files : g # f => files[g] = host.files[g]
  OBVIOUS
<1> HIDE DEF files
<1>3. QED
  BY <1>1, <1>2 DEF Keeps, Spares, IsHost

-----------------------------------------------------------------------------
(* A step of the agent leaves the configuration and the tasks alone.       *)

Settled == UNCHANGED <<vars, node, work>>

(* What may be written while something holds: another task's file.         *)
Elsewhere(k) ==
  \A g \in DOMAIN host.files :
    host'.files[g] # host.files[g] =>
      \E l \in DOMAIN work : l # k /\ IsFile(TaskAt(l)) /\ FileOf(TaskAt(l)) = g

LinkKept == link' # "catalogue" => link # "catalogue" \/ Spent("update")'

NoneReturned == \A f \in FaultKind : Spent(f) => Spent(f)'

(* What holds goes on to hold in a step that writes elsewhere.             *)
LEMMA StillHolds ==
  ASSUME Settled, Keeps(host'), LinkKept, NoneReturned,
         NEW k, HoldsOn(k), Elsewhere(k)
  PROVE  HoldsOn(k)'
<1> DEFINE t == TaskAt(k)
<1>1. TaskAt(k)' = t /\ Content(k)' = Content(k) /\ work' = work
  BY DEF Settled, TaskAt, Content, vars
<1>2. \A l : SameName(k, l)' <=> SameName(k, l)
  BY DEF Settled, SameName, TaskAt, IsFile, FileOf
<1>3. /\ FileOf(TaskAt(k))' = FileOf(t) /\ IsFile(TaskAt(k))' = IsFile(t)
      /\ IsChmod(TaskAt(k))' = IsChmod(t)
  BY <1>1 DEF FileOf, IsFile, IsChmod
<1>4. /\ host.users \subseteq host'.users /\ host.packages \subseteq host'.packages
      /\ host.services \subseteq host'.services /\ host.exec \subseteq host'.exec
      /\ DOMAIN host.files \subseteq DOMAIN host'.files
  BY DEF Keeps
<1>5. (Spent("update") => Spent("update")') /\ (Spent("page") => Spent("page")')
  BY DEF NoneReturned, FaultKind
<1>6. \A f : f \in DOMAIN host.files => f \in DOMAIN host'.files
  BY <1>4
<1> HIDE DEF t
<1>7. /\ t.type = "user" => t.of \in host'.users
      /\ t.type = "install" => t.package \in host'.packages
      /\ t.type = "enable" => t.what \in host'.services
  BY <1>4 DEF HoldsOn, Holds, t
<1>8. t.type = "link" => link' = "catalogue" \/ Spent("update")'
  BY <1>5 DEF HoldsOn, Holds, LinkKept, t
<1>9. IsChmod(t) => FileOf(t) \in DOMAIN host'.files /\ FileOf(t) \in host'.exec
  BY <1>4, <1>6 DEF HoldsOn, Holds, Has, t
<1>10. IsFile(t) => FileOf(t) \in DOMAIN host.files /\ FileOf(t) \in DOMAIN host'.files
  BY <1>6 DEF HoldsOn, Has, t
<1>11. ASSUME IsFile(t)
       PROVE  \/ host'.files[FileOf(t)] = Content(k)
              \/ t.type = "download" /\ Spent("page")'
              \/ \E l \in DOMAIN work : SameName(k, l)
  <2>1. \/ host.files[FileOf(t)] = Content(k)
        \/ t.type = "download" /\ Spent("page")
        \/ \E l \in DOMAIN work : SameName(k, l)
    BY <1>11 DEF HoldsOn, Holds, t
  <2>2. CASE host.files[FileOf(t)] = Content(k)
    <3>1. host'.files[FileOf(t)] # host.files[FileOf(t)] =>
            \E l \in DOMAIN work : SameName(k, l)
      BY <1>10, <1>11 DEF Elsewhere, SameName, t
    <3>2. QED
      BY <3>1, <2>2
  <2>3. QED
    BY <2>1, <2>2, <1>5
<1>12. Holds(k)'
  BY <1>1, <1>2, <1>3, <1>7, <1>8, <1>9, <1>11 DEF Holds, Has, t
<1>13. QED
  BY <1>12, <1>10, <1>3 DEF HoldsOn, Has, t

LEMMA NothingWritten ==
  ASSUME host'.files = host.files, NEW k
  PROVE  Elsewhere(k)
  BY DEF Elsewhere

LEMMA WrittenElsewhere ==
  ASSUME NEW l \in DOMAIN work, IsFile(TaskAt(l)), Spares(host', FileOf(TaskAt(l))),
         NEW k, k # l
  PROVE  Elsewhere(k)
  BY DEF Elsewhere, Spares

-----------------------------------------------------------------------------
(* What a task does, and when it can.                                      *)

LEMMA AfterFile ==
  ASSUME NEW t, IsFile(t)
  PROVE  After(t) = Put(FileOf(t), Content(cur))
<1>1. t.type \notin {"user", "install", "enable"} /\ ~IsChmod(t)
  BY DEF IsFile, IsChmod
<1>2. QED
  BY <1>1 DEF After

LEMMA AfterOther ==
  ASSUME NEW t, ~IsFile(t), IsHost(host)
  PROVE  /\ Keeps(After(t)) /\ After(t).files = host.files
         /\ t.type = "user" => t.of \in After(t).users
         /\ t.type = "install" => t.package \in After(t).packages
         /\ t.type = "enable" => t.what \in After(t).services
         /\ IsChmod(t) => FileOf(t) \in After(t).exec
<1>1. CASE t.type = "user"
  <2>1. After(t) = [host EXCEPT !.users = @ \cup {t.of}] /\ ~IsChmod(t)
    BY <1>1 DEF After, IsChmod
  <2>2. QED
    BY <1>1, <2>1 DEF IsHost, Keeps
<1>2. CASE t.type = "install"
  <2>1. After(t) = [host EXCEPT !.packages = @ \cup {t.package}] /\ ~IsChmod(t)
    BY <1>2 DEF After, IsChmod
  <2>2. QED
    BY <1>2, <2>1 DEF IsHost, Keeps
<1>3. CASE t.type = "enable"
  <2>1. After(t) = [host EXCEPT !.services = @ \cup {t.what}] /\ ~IsChmod(t)
    BY <1>3 DEF After, IsChmod
  <2>2. QED
    BY <1>3, <2>1 DEF IsHost, Keeps
<1>4. CASE t.type \notin {"user", "install", "enable"} /\ IsChmod(t)
  <2>1. After(t) = [host EXCEPT !.exec = @ \cup {FileOf(t)}]
    BY <1>4 DEF After
  <2>2. QED
    BY <1>4, <2>1 DEF IsHost, Keeps
<1>5. CASE t.type \notin {"user", "install", "enable"} /\ ~IsChmod(t)
  <2>1. After(t) = host
    BY <1>5 DEF After
  <2>2. QED
    BY <1>5, <2>1 DEF IsHost, Keeps
<1>6. QED
  BY <1>1, <1>2, <1>3, <1>4, <1>5

LEMMA WhyFacts ==
  ASSUME NEW k
  PROVE  /\ Why(k) = "" =>
              /\ TaskAt(k).type \in Registered
              /\ TaskAt(k).type = "link" => link = "catalogue"
              /\ IsChmod(TaskAt(k)) => Has(FileOf(TaskAt(k)))
         /\ Why(k) = "link" => link # "catalogue"
         /\ IsFile(TaskAt(k)) /\ TaskAt(k).type \in Registered
              /\ FileOf(TaskAt(k)) = Buri => Why(k) \in {"", "user"}
<1> DEFINE t == TaskAt(k)
<1>1. CASE t.type \notin Registered
  BY <1>1 DEF Why
<1>2. CASE t.type \in Registered /\ t.type = "install"
  <2>1. Why(k) \in {"", "manager", "user", "rights"}
    BY <1>2 DEF Why
  <2>2. QED
    BY <2>1, <1>2 DEF IsChmod, IsFile
<1>3. CASE t.type \in Registered /\ t.type \in {"user", "enable"}
  <2>1. Why(k) \in {"", "rights"}
    BY <1>3 DEF Why
  <2>2. QED
    BY <2>1, <1>3 DEF IsChmod, IsFile
<1>4. CASE t.type \in Registered /\ t.type = "link"
  BY <1>4 DEF Why, IsChmod, IsFile
<1>5. CASE t.type \in Registered /\ t.type \notin {"install", "user", "enable", "link"}
  <2>1. Why(k) = WhyService(k)
    BY <1>5 DEF Why
  <2>2. WhyService(k) \in {"", "empty", "user", "file", "buri"}
    BY DEF WhyService
  <2>3. WhyService(k) = "" => ~(IsChmod(t) /\ ~Has(FileOf(t)))
    BY DEF WhyService
  <2>4. ASSUME IsFile(t), FileOf(t) = Buri PROVE WhyService(k) \in {"", "user"}
    <3>1. t.what # "empty"
      BY <2>4 DEF FileOf, Buri
    <3>2. ~IsChmod(t) /\ ~IsBuri(t)
      BY <2>4 DEF IsFile, IsChmod, IsBuri
    <3>3. QED
      BY <3>1, <3>2 DEF WhyService
  <2>5. QED
    BY <2>1, <2>2, <2>3, <2>4, <1>5
<1>6. QED
  BY <1>1, <1>2, <1>3, <1>4, <1>5

-----------------------------------------------------------------------------
(* Every step keeps the invariant.                                         *)

LEMMA AgentStep ==
  ASSUME IInv, node # 0, Settled, Keeps(host'), LinkKept, NoneReturned,
         link' \in {"catalogue", "other", "none"},
         faults' \in [FaultKind -> Nat], \A f \in FaultKind : faults'[f] <= MaxFaults[f],
         Begun', BuriWhole',
         \A k \in 1 .. done' \ pending' : (HoldsOn(k) /\ Elsewhere(k)) \/ HoldsOn(k)'
  PROVE  IInv'
<1>1. Waiting'
  BY DEF IInv, Waiting, Settled, vars
<1>2. HostTyped'
  BY DEF HostTyped, Keeps
<1>3. LinkLed'
  <2>1. input' = input /\ node' = node
    BY DEF Settled, vars
  <2>2. Spent("update") => Spent("update")'
    BY DEF NoneReturned, FaultKind
  <2>3. link # "catalogue" =>
          input.clusters[node].arch # "amd64" \/ Spent("update")
    BY DEF IInv, LinkLed
  <2>4. QED
    BY <2>1, <2>2, <2>3 DEF LinkLed, LinkKept
<1>4. Held'
  BY StillHolds DEF Held
<1>5. QED
  BY <1>1, <1>2, <1>3, <1>4 DEF IInv

(* Spending a fault, or none, takes nothing back.                          *)
LEMMA SpendKeeps ==
  ASSUME HostTyped, NEW k \in FaultKind, Spend(k)
  PROVE  /\ NoneReturned /\ Spent(k)' /\ faults' \in [FaultKind -> Nat]
         /\ \A f \in FaultKind : faults'[f] <= MaxFaults[f]
<1>1. /\ faults' \in [FaultKind -> Nat] /\ Spent(k)'
      /\ \A f \in FaultKind : faults'[f] <= MaxFaults[f]
      /\ \A f \in FaultKind : faults'[f] <= faults[f]
  BY SpendFacts DEF HostTyped
<1>2. NoneReturned
  BY <1>1, StaysSpent DEF NoneReturned, HostTyped
<1>3. QED
  BY <1>1, <1>2

LEMMA KeepKeeps ==
  ASSUME HostTyped, UNCHANGED faults
  PROVE  /\ NoneReturned /\ faults' \in [FaultKind -> Nat]
         /\ \A f \in FaultKind : faults'[f] <= MaxFaults[f]
  BY DEF HostTyped, NoneReturned, Spent

LEMMA HostKept ==
  ASSUME HostTyped, UNCHANGED host
  PROVE  Keeps(host')
  BY DEF HostTyped, IsHost, Keeps

(* Only a host with a configuration has tasks.                             *)
LEMMA AtWork ==
  ASSUME IInv
  PROVE  /\ cur # 0 => node # 0 /\ cur \in DOMAIN work /\ cur \in pending
         /\ \A k \in DOMAIN work : node # 0
<1>1. node = 0 => DOMAIN work = {}
  BY DEF IInv, Waiting
<1>2. QED
  BY <1>1 DEF IInv, Begun

LEMMA StartStep ==
  ASSUME IInv, NEW k \in DOMAIN work, Begin(k) \/ BeginAgain(k)
  PROVE  IInv'
<1>1. /\ cur = 0 /\ cur' = k /\ pending' = pending \cup {k}
      /\ host' = (IF IsFile(TaskAt(k)) /\ TaskAt(k).type \in Registered
                  THEN Put(FileOf(TaskAt(k)), "partial") ELSE host)
      /\ UNCHANGED <<vars, node, work, done, failed, up, link>>
  BY DEF Begin, BeginAgain, Start
<1>2. k \in Nat \ {0}
  <2>1. done \in Nat /\ pending \subseteq Nat \ {0}
    BY DEF IInv, Begun
  <2>2. k \in pending \/ k = done + 1 \/ k \in 1 .. done
    BY DEF Begin, BeginAgain
  <2>3. CASE k \in pending
    BY <2>1, <2>3
  <2>4. CASE k = done + 1 \/ k \in 1 .. done
    BY <2>1, <2>4
  <2>5. QED
    BY <2>2, <2>3, <2>4
<1>3. HostTyped /\ node # 0
  BY AtWork DEF IInv
<1>4. /\ NoneReturned /\ faults' \in [FaultKind -> Nat]
      /\ \A f \in FaultKind : faults'[f] <= MaxFaults[f]
  <2>1. CASE Begin(k)
    BY <2>1, <1>3, KeepKeeps DEF Begin
  <2>2. CASE BeginAgain(k)
    BY <2>2, <1>3, SpendKeeps DEF BeginAgain, FaultKind
  <2>3. QED
    BY <2>1, <2>2
<1>5. Settled /\ LinkKept /\ link' \in {"catalogue", "other", "none"}
  BY <1>1, <1>3 DEF Settled, LinkKept, HostTyped
<1>6. Begun'
  BY <1>1, <1>2 DEF IInv, Begun
<1>7. TaskAt(k)' = TaskAt(k) /\ TaskAt(cur)' = TaskAt(k)
  BY <1>1 DEF TaskAt
<1>8. CASE IsFile(TaskAt(k)) /\ TaskAt(k).type \in Registered
  <2>1. Keeps(host') /\ Spares(host', FileOf(TaskAt(k)))
    BY <1>1, <1>8, <1>3, PutFacts DEF HostTyped
  <2>2. BuriWhole'
    <3>1. CASE FileOf(TaskAt(k)) = Buri
      <4>1. Fetching' /\ FileOf(TaskAt(cur))' = Buri
        BY <1>1, <1>2, <1>7, <1>8, <3>1 DEF Fetching, IsFile, FileOf
      <4>2. QED
        BY <4>1 DEF BuriWhole
    <3>2. CASE FileOf(TaskAt(k)) # Buri
      <4>1. Has(Buri) => Has(Buri)' /\ host'.files[Buri] = host.files[Buri]
        BY <2>1, <3>2 DEF Keeps, Spares, Has, Buri
      <4>2. QED
        BY <4>1, <1>1, <1>4 DEF IInv, BuriWhole, Fetching, NoneReturned, FaultKind
    <3>3. QED
      BY <3>1, <3>2
  <2>3. ASSUME NEW j \in 1 .. done' \ pending' PROVE HoldsOn(j) /\ Elsewhere(j)
    <3>1. j # k /\ j \in 1 .. done \ pending
      BY <1>1
    <3>2. QED
      BY <3>1, <2>1, <1>8, WrittenElsewhere DEF IInv, Held
  <2>4. QED
    BY <1>3, <1>4, <1>5, <1>6, <2>1, <2>2, <2>3, AgentStep
<1>9. CASE ~(IsFile(TaskAt(k)) /\ TaskAt(k).type \in Registered)
  <2>1. host' = host
    BY <1>1, <1>9
  <2>2. Keeps(host')
    BY <2>1, <1>3, HostKept
  <2>3. BuriWhole'
    <3>1. Has(Buri)' = Has(Buri) /\ Buri' = Buri
      BY <2>1 DEF Has, Buri
    <3>2. QED
      BY <3>1, <2>1, <1>1, <1>4 DEF IInv, BuriWhole, Fetching, NoneReturned, FaultKind
  <2>4. ASSUME NEW j \in 1 .. done' \ pending' PROVE HoldsOn(j) /\ Elsewhere(j)
    BY <1>1, <2>1, NothingWritten DEF IInv, Held
  <2>5. QED
    BY <1>3, <1>4, <1>5, <1>6, <2>2, <2>3, <2>4, AgentStep
<1>10. QED
  BY <1>8, <1>9

(* A task that is finished: done may go on to it.                          *)
LEMMA FinishedFacts ==
  ASSUME IInv, cur # 0, Finished
  PROVE  /\ Begun' /\ cur' = 0
         /\ \A k \in 1 .. done' \ pending' : k = cur \/ k \in 1 .. done \ pending
<1>1. /\ done \in Nat /\ pending \subseteq Nat \ {0} /\ cur \in pending
      /\ done' = (IF cur = done + 1 THEN cur ELSE done)
      /\ pending' = pending \ {cur} /\ cur' = 0
  BY DEF IInv, Begun, Finished
<1>2. Begun'
  BY <1>1 DEF Begun
<1>3. QED
  BY <1>1, <1>2

LEMMA SucceedStep ==
  ASSUME IInv, Succeed
  PROVE  IInv'
<1> PICK c : c = cur
  OBVIOUS
<1> DEFINE t == TaskAt(c)
<1>1. /\ cur # 0 /\ Why(cur) = "" /\ host' = After(t) /\ Finished
      /\ UNCHANGED <<vars, node, work, failed, up, link, faults>>
  BY DEF Succeed
<1>2. HostTyped /\ node # 0 /\ cur \in DOMAIN work /\ cur \in pending
  BY <1>1, AtWork DEF IInv
<1>3. /\ NoneReturned /\ faults' \in [FaultKind -> Nat]
      /\ \A f \in FaultKind : faults'[f] <= MaxFaults[f]
  BY <1>1, <1>2, KeepKeeps
<1>4. Settled /\ LinkKept /\ link' \in {"catalogue", "other", "none"}
  BY <1>1, <1>2 DEF Settled, LinkKept, HostTyped
<1>5. /\ Begun' /\ cur' = 0
      /\ \A k \in 1 .. done' \ pending' : k = cur \/ k \in 1 .. done \ pending
  BY <1>1, FinishedFacts
<1>6. \A k : TaskAt(k)' = TaskAt(k) /\ Content(k)' = Content(k)
  BY <1>1 DEF TaskAt, Content, vars
<1>7. /\ t.type = "link" => link = "catalogue"
      /\ IsChmod(t) => Has(FileOf(t))
  BY <1>1, WhyFacts
<1>8. CASE IsFile(t)
  <2>1. host' = Put(FileOf(t), Content(cur))
    BY <1>1, <1>8, AfterFile
  <2>2. /\ Keeps(host') /\ Spares(host', FileOf(t))
        /\ FileOf(t) \in DOMAIN host'.files /\ host'.files[FileOf(t)] = Content(cur)
    BY <2>1, <1>2, PutFacts DEF HostTyped
  <2>3. BuriWhole'
    <3>1. CASE FileOf(t) = Buri
      <4>1. Content(cur) = "whole"
        BY <3>1 DEF FileOf, Buri, Content
      <4>2. Has(Buri)' /\ host'.files[Buri] = "whole"
        BY <2>2, <3>1, <4>1 DEF Has, Buri
      <4>3. QED
        BY <4>2 DEF BuriWhole, Buri
    <3>2. CASE FileOf(t) # Buri
      <4>1. Has(Buri) => Has(Buri)' /\ host'.files[Buri] = host.files[Buri]
        BY <2>2, <3>2 DEF Keeps, Spares, Has, Buri
      <4>2. QED
        BY <4>1, <3>2, <1>1, <1>3 DEF IInv, BuriWhole, NoneReturned, FaultKind
    <3>3. QED
      BY <3>1, <3>2
  <2>4. HoldsOn(c)'
    <3>1. FileOf(TaskAt(c))' = FileOf(t) /\ Content(c)' = Content(c)
          /\ (IsFile(TaskAt(c)) /\ ~IsChmod(TaskAt(c)))' /\ TaskAt(c)' = t
      BY <1>6, <1>8 DEF FileOf, IsFile, IsChmod
    <3>2. t.type \notin {"user", "install", "enable", "link"}
      BY <1>8 DEF IsFile
    <3>3. QED
      BY <3>1, <3>2, <2>2 DEF HoldsOn, Holds, Has
  <2>5. ASSUME NEW j \in 1 .. done' \ pending'
        PROVE  (HoldsOn(j) /\ Elsewhere(j)) \/ HoldsOn(j)'
    <3>1. CASE j = c
      BY <3>1, <2>4
    <3>2. CASE j # c
      BY <3>2, <1>5, <2>2, <1>2, <1>8, WrittenElsewhere DEF IInv, Held
    <3>3. QED
      BY <3>1, <3>2
  <2>6. QED
    BY <1>2, <1>3, <1>4, <1>5, <2>2, <2>3, <2>5, AgentStep
<1>9. CASE ~IsFile(t)
  <2>1. /\ Keeps(host') /\ host'.files = host.files
        /\ t.type = "user" => t.of \in host'.users
        /\ t.type = "install" => t.package \in host'.packages
        /\ t.type = "enable" => t.what \in host'.services
        /\ IsChmod(t) => FileOf(t) \in host'.exec
    BY <1>1, <1>9, <1>2, AfterOther DEF HostTyped
  <2>3. BuriWhole'
    <3>1. Has(Buri)' = Has(Buri) /\ Buri' = Buri /\ ~Fetching
      BY <2>1, <1>9 DEF Has, Buri, Fetching
    <3>2. QED
      BY <3>1, <2>1, <1>1, <1>3 DEF IInv, BuriWhole, NoneReturned, FaultKind
  <2>4. HoldsOn(c)'
    <3>1. FileOf(TaskAt(c))' = FileOf(t) /\ IsChmod(TaskAt(c))' = IsChmod(t)
          /\ ~IsFile(TaskAt(c))' /\ TaskAt(c)' = t
      BY <1>6, <1>9 DEF FileOf, IsFile, IsChmod
    <3>2. IsChmod(t) => Has(FileOf(t))'
      BY <1>7, <2>1, <3>1 DEF Has
    <3>3. QED
      BY <3>1, <3>2, <1>7, <1>1, <2>1 DEF HoldsOn, Holds
  <2>5. ASSUME NEW j \in 1 .. done' \ pending'
        PROVE  (HoldsOn(j) /\ Elsewhere(j)) \/ HoldsOn(j)'
    <3>1. CASE j = c
      BY <3>1, <2>4
    <3>2. CASE j # c
      BY <3>2, <1>5, <2>1, NothingWritten DEF IInv, Held
    <3>3. QED
      BY <3>1, <3>2
  <2>6. QED
    BY <1>2, <1>3, <1>4, <1>5, <2>1, <2>3, <2>5, AgentStep
<1>10. QED
  BY <1>8, <1>9

LEMMA PageStep ==
  ASSUME IInv, Page
  PROVE  IInv'
<1> PICK c : c = cur
  OBVIOUS
<1> DEFINE t == TaskAt(c)
<1>1. /\ cur # 0 /\ t.type = "download" /\ Spend("page") /\ Finished
      /\ host' = Put(FileOf(t), "page")
      /\ UNCHANGED <<vars, node, work, failed, up, link>>
  BY DEF Page
<1>2. HostTyped /\ node # 0 /\ c \in DOMAIN work
  BY <1>1, AtWork DEF IInv
<1>3. /\ NoneReturned /\ faults' \in [FaultKind -> Nat] /\ Spent("page")'
      /\ \A f \in FaultKind : faults'[f] <= MaxFaults[f]
  BY <1>1, <1>2, SpendKeeps DEF FaultKind
<1>4. Settled /\ LinkKept /\ link' \in {"catalogue", "other", "none"}
  BY <1>1, <1>2 DEF Settled, LinkKept, HostTyped
<1>5. /\ Begun' /\ cur' = 0
      /\ \A k \in 1 .. done' \ pending' : k = cur \/ k \in 1 .. done \ pending
  BY <1>1, FinishedFacts
<1>6. IsFile(t)
  BY <1>1 DEF IsFile
<1>7. /\ Keeps(host') /\ Spares(host', FileOf(t)) /\ FileOf(t) \in DOMAIN host'.files
  BY <1>1, <1>2, PutFacts DEF HostTyped
<1>8. BuriWhole'
  BY <1>3 DEF BuriWhole
<1>9. HoldsOn(c)'
  <2>1. FileOf(TaskAt(c))' = FileOf(t) /\ TaskAt(c)' = t
        /\ (IsFile(TaskAt(c)) /\ ~IsChmod(TaskAt(c)))'
    BY <1>1 DEF FileOf, TaskAt, IsFile, IsChmod
  <2>2. QED
    BY <2>1, <1>1, <1>3, <1>7 DEF HoldsOn, Holds, Has
<1>10. ASSUME NEW j \in 1 .. done' \ pending'
       PROVE  (HoldsOn(j) /\ Elsewhere(j)) \/ HoldsOn(j)'
  <2>1. CASE j = c
    BY <2>1, <1>9
  <2>2. CASE j # c
    BY <2>2, <1>5, <1>7, <1>2, <1>6, WrittenElsewhere DEF IInv, Held
  <2>3. QED
    BY <2>1, <2>2
<1>11. QED
  BY <1>2, <1>3, <1>4, <1>5, <1>7, <1>8, <1>10, AgentStep

LEMMA BlockedStep ==
  ASSUME IInv, Blocked
  PROVE  IInv'
<1> PICK c : c = cur
  OBVIOUS
<1> DEFINE t == TaskAt(c)
<1>1. /\ cur # 0 /\ Why(c) # "" /\ Failing
      /\ host' = (IF IsFile(t) /\ Why(c) = "user" THEN After(t) ELSE host)
      /\ link' = (IF Why(c) = "link" THEN "none" ELSE link)
      /\ UNCHANGED <<vars, node, work, up, faults>>
  BY DEF Blocked
<1>2. HostTyped /\ node # 0 /\ c \in DOMAIN work /\ c \in pending
  BY <1>1, AtWork DEF IInv
<1>3. /\ NoneReturned /\ faults' \in [FaultKind -> Nat]
      /\ \A f \in FaultKind : faults'[f] <= MaxFaults[f]
  BY <1>1, <1>2, KeepKeeps
<1>4. Settled /\ LinkKept /\ link' \in {"catalogue", "other", "none"}
  BY <1>1, <1>2, WhyFacts DEF Settled, LinkKept, HostTyped
<1>5. Begun' /\ cur' = 0 /\ done' = done /\ pending' = pending
  BY <1>1 DEF Failing, IInv, Begun
<1>6. CASE IsFile(t) /\ Why(c) = "user"
  <2>1. host' = Put(FileOf(t), Content(c))
    BY <1>1, <1>6, AfterFile
  <2>2. /\ Keeps(host') /\ Spares(host', FileOf(t))
        /\ FileOf(t) \in DOMAIN host'.files /\ host'.files[FileOf(t)] = Content(c)
    BY <2>1, <1>2, PutFacts DEF HostTyped
  <2>3. BuriWhole'
    <3>1. CASE FileOf(t) = Buri
      <4>1. Content(c) = "whole"
        BY <3>1 DEF FileOf, Buri, Content
      <4>2. Has(Buri)' /\ host'.files[Buri] = "whole"
        BY <2>2, <3>1, <4>1 DEF Has, Buri
      <4>3. QED
        BY <4>2 DEF BuriWhole, Buri
    <3>2. CASE FileOf(t) # Buri
      <4>1. Has(Buri) => Has(Buri)' /\ host'.files[Buri] = host.files[Buri]
        BY <2>2, <3>2 DEF Keeps, Spares, Has, Buri
      <4>2. link' = link
        BY <1>1, <1>6
      <4>3. QED
        BY <4>1, <4>2, <3>2, <1>1, <1>3 DEF IInv, BuriWhole, NoneReturned, FaultKind
    <3>3. QED
      BY <3>1, <3>2
  <2>4. ASSUME NEW j \in 1 .. done' \ pending' PROVE HoldsOn(j) /\ Elsewhere(j)
    BY <1>2, <1>5, <1>6, <2>2, WrittenElsewhere DEF IInv, Held
  <2>5. QED
    BY <1>2, <1>3, <1>4, <1>5, <2>2, <2>3, <2>4, AgentStep
<1>7. CASE ~(IsFile(t) /\ Why(c) = "user")
  <2>1. host' = host
    BY <1>1, <1>7
  <2>2. Keeps(host')
    BY <2>1, <1>2, HostKept
  <2>3. BuriWhole'
    <3>1. Has(Buri)' = Has(Buri) /\ Buri' = Buri
      BY <2>1 DEF Has, Buri
    <3>2. link' = "catalogue" => link = "catalogue"
      BY <1>1
    <3>3. ~(Fetching /\ FileOf(t) = Buri)
      BY <1>1, <1>7, WhyFacts DEF Fetching
    <3>4. QED
      BY <3>1, <3>2, <3>3, <2>1, <1>1, <1>3
      DEF IInv, BuriWhole, NoneReturned, FaultKind
  <2>4. ASSUME NEW j \in 1 .. done' \ pending' PROVE HoldsOn(j) /\ Elsewhere(j)
    BY <1>5, <2>1, NothingWritten DEF IInv, Held
  <2>5. QED
    BY <1>2, <1>3, <1>4, <1>5, <2>2, <2>3, <2>4, AgentStep
<1>8. QED
  BY <1>6, <1>7

(* A step that leaves host and progress alone: what can then be lost of    *)
(* the invariant is what is said of the link and buri's file.              *)
LEMMA QuietStep ==
  ASSUME IInv, node # 0, Settled, UNCHANGED <<host, done, pending>>,
         cur' \in {0, cur}, LinkKept, NoneReturned, BuriWhole',
         link' \in {"catalogue", "other", "none"},
         faults' \in [FaultKind -> Nat], \A f \in FaultKind : faults'[f] <= MaxFaults[f]
  PROVE  IInv'
<1>1. Keeps(host')
  BY HostKept DEF IInv
<1>2. Begun'
  BY DEF IInv, Begun, Settled
<1>3. ASSUME NEW j \in 1 .. done' \ pending' PROVE HoldsOn(j) /\ Elsewhere(j)
  BY NothingWritten DEF IInv, Held
<1>4. QED
  BY <1>1, <1>2, <1>3, AgentStep

LEMMA FailStep ==
  ASSUME IInv, Fail
  PROVE  IInv'
<1>1. HostTyped /\ node # 0
  BY AtWork DEF Fail, IInv
<1>2. /\ NoneReturned /\ faults' \in [FaultKind -> Nat] /\ Spent("fail")'
      /\ \A f \in FaultKind : faults'[f] <= MaxFaults[f]
  BY <1>1, SpendKeeps DEF Fail, FaultKind
<1>3. /\ Settled /\ LinkKept /\ link' \in {"catalogue", "other", "none"} /\ BuriWhole'
      /\ UNCHANGED <<host, done, pending>> /\ cur' = 0
  BY <1>1, <1>2 DEF Fail, Failing, Settled, LinkKept, HostTyped, BuriWhole
<1>4. QED
  BY <1>1, <1>2, <1>3, QuietStep

LEMMA CrashStep ==
  ASSUME IInv, Crash
  PROVE  IInv'
<1>1. HostTyped /\ node # 0
  BY DEF Crash, IInv
<1>2. /\ NoneReturned /\ faults' \in [FaultKind -> Nat] /\ Spent("crash")'
      /\ \A f \in FaultKind : faults'[f] <= MaxFaults[f]
  BY <1>1, SpendKeeps DEF Crash, FaultKind
<1>3. /\ Settled /\ LinkKept /\ link' \in {"catalogue", "other", "none"} /\ BuriWhole'
      /\ UNCHANGED <<host, done, pending>> /\ cur' = 0
  BY <1>1, <1>2 DEF Crash, Settled, LinkKept, HostTyped, BuriWhole
<1>4. QED
  BY <1>1, <1>2, <1>3, QuietStep

LEMMA RestartStep ==
  ASSUME IInv, Restart
  PROVE  IInv'
<1>1. HostTyped /\ node # 0
  BY DEF Restart, IInv, Waiting
<1>2. /\ NoneReturned /\ faults' \in [FaultKind -> Nat]
      /\ \A f \in FaultKind : faults'[f] <= MaxFaults[f]
  BY <1>1, KeepKeeps DEF Restart
<1>3. /\ Settled /\ LinkKept /\ link' \in {"catalogue", "other", "none"}
      /\ UNCHANGED <<host, done, pending, cur, link>>
  BY <1>1 DEF Restart, Settled, LinkKept, HostTyped
<1>4. BuriWhole'
  <2>1. /\ Has(Buri)' = Has(Buri) /\ Buri' = Buri /\ Fetching' = Fetching
        /\ FileOf(TaskAt(cur))' = FileOf(TaskAt(cur))
    BY <1>3 DEF Has, Buri, Fetching, FileOf, IsFile, TaskAt, Settled
  <2>2. QED
    BY <2>1, <1>2, <1>3 DEF IInv, BuriWhole, NoneReturned, FaultKind, Settled
<1>5. QED
  BY <1>1, <1>2, <1>3, <1>4, QuietStep

LEMMA UpdateStep ==
  ASSUME IInv, Update
  PROVE  IInv'
<1>1. HostTyped /\ node # 0
  BY DEF Update, IInv
<1>2. /\ NoneReturned /\ faults' \in [FaultKind -> Nat] /\ Spent("update")'
      /\ \A f \in FaultKind : faults'[f] <= MaxFaults[f]
  BY <1>1, SpendKeeps DEF Update, FaultKind
<1>3. /\ Settled /\ LinkKept /\ link' \in {"catalogue", "other", "none"} /\ BuriWhole'
      /\ UNCHANGED <<host, done, pending, cur>>
  BY <1>1, <1>2 DEF Update, Settled, LinkKept, BuriWhole
<1>4. QED
  BY <1>1, <1>2, <1>3, QuietStep

LEMMA NoHostTyped == IsHost(NoHost)
  BY DEF IsHost, NoHost

LEMMA DeliverStep ==
  ASSUME IInv, Deliver
  PROVE  IInv'
<1>1. PICK c \in DOMAIN built :
        /\ node' = c /\ work' = WorkOf(built[c])
        /\ IF input.clusters[c].arch = "amd64"
           THEN /\ link' = "catalogue"
                /\ host' = [Put(Buri, "whole") EXCEPT !.exec = {Buri}]
           ELSE link' = "other" /\ UNCHANGED host
  BY DEF Deliver
<1>2. /\ result = "ok" /\ node = 0
      /\ UNCHANGED <<vars, done, pending, failed, cur, up, faults>>
  BY DEF Deliver
<1>3. done = 0 /\ pending = {} /\ cur = 0 /\ host = NoHost /\ IsHost(host)
  BY <1>2, NoHostTyped DEF IInv, Waiting
<1>4. node' # 0 /\ Waiting'
  BY <1>1, <1>2, NoZeroth DEF IInv, Waiting, vars
<1>5. CASE input.clusters[c].arch = "amd64"
  <2>1. /\ IsHost(Put(Buri, "whole")) /\ Buri \in DOMAIN Put(Buri, "whole").files
        /\ Put(Buri, "whole").files[Buri] = "whole"
    BY <1>3, PutFacts DEF Keeps
  <2>2. /\ link' = "catalogue"
        /\ host' = [Put(Buri, "whole") EXCEPT !.exec = {Buri}]
    BY <1>1, <1>5
  <2>3. IsHost(host') /\ host'.files = Put(Buri, "whole").files
    BY <2>1, <2>2 DEF IsHost
  <2>4. HostTyped'
    BY <1>2, <2>2, <2>3 DEF IInv, HostTyped
  <2>5. LinkLed' /\ BuriWhole'
    BY <2>1, <2>2, <2>3 DEF LinkLed, BuriWhole, Has, Buri
  <2>6. QED
    BY <1>2, <1>3, <1>4, <2>4, <2>5 DEF IInv, Begun, Held
<1>6. CASE input.clusters[c].arch # "amd64"
  <2>1. link' = "other" /\ host' = host
    BY <1>1, <1>6
  <2>2. HostTyped'
    BY <1>2, <1>3, <2>1 DEF IInv, HostTyped
  <2>3. LinkLed' /\ BuriWhole'
    BY <1>1, <1>2, <1>6, <2>1 DEF LinkLed, BuriWhole, vars
  <2>4. QED
    BY <1>2, <1>3, <1>4, <2>2, <2>3 DEF IInv, Begun, Held
<1>7. QED
  BY <1>5, <1>6

(* The parser has ended once there is a result; what it has built is a     *)
(* sequence of clusters.                                                   *)
LEMMA FeaturesStep ==
  ASSUME FeaturesNext, Sequence(built)
  PROVE  result = "" /\ Sequence(built')
<1>1. CASE FeatureToFeature
  BY <1>1, Zenon DEF FeatureToFeature, Visit, Missing, Return, Required, TaskPlain,
     TaskManager, ManagerAdded, FeatureDone, Running, AtTask
<1>2. CASE BeginCluster \/ BeginService \/ BuiltIn \/ EndSystem
  BY <1>2 DEF BeginCluster, BeginService, BuiltIn, EndSystem, Parsing, Give
<1>3. CASE FinishService
  <2>1. result = ""
    BY <1>3 DEF FinishService, Parsing
  <2>2. \/ Give("panic") \/ Give("error") \/ \E s : NextService(s)
    BY <1>3 DEF FinishService
  <2>3. built' = built
    BY <2>2 DEF Give, NextService
  <2>4. QED
    BY <2>1, <2>3
<1>4. CASE EndCluster
  BY <1>4, Appended DEF EndCluster, Parsing
<1>5. CASE ParseSystem
  BY <1>2, <1>3, <1>4, <1>5, Zenon DEF ParseSystem
<1>6. QED
  BY <1>1, <1>5, Zenon DEF FeaturesNext

LEMMA Asleep ==
  ASSUME IInv, FeaturesNext, UNCHANGED hostVars
  PROVE  IInv'
<1>1. result = "" /\ Sequence(built')
  BY FeaturesStep DEF IInv, Waiting
<1>2. node = 0
  BY <1>1 DEF IInv, Waiting
<1>3. done = 0 /\ node' = 0 /\ done' = 0
  BY <1>2 DEF IInv, Waiting, hostVars
<1>4. Waiting' /\ HostTyped' /\ Begun'
  BY <1>1, <1>2 DEF IInv, Waiting, HostTyped, Begun, hostVars
<1>5. LinkLed' /\ BuriWhole' /\ Held'
  BY <1>3 DEF LinkLed, BuriWhole, Held
<1>6. QED
  BY <1>4, <1>5 DEF IInv

LEMMA Stuttering ==
  ASSUME IInv, UNCHANGED allVars
  PROVE  IInv'
<1>1. CASE node = 0
  <2>1. done' = 0 /\ node' = 0
    BY <1>1 DEF IInv, Waiting, allVars, hostVars
  <2>2. Waiting' /\ HostTyped' /\ Begun'
    BY DEF IInv, Waiting, HostTyped, Begun, allVars, vars, hostVars
  <2>3. QED
    BY <2>1, <2>2 DEF IInv, LinkLed, BuriWhole, Held
<1>2. CASE node # 0
  <2>1. /\ NoneReturned /\ faults' \in [FaultKind -> Nat]
        /\ \A f \in FaultKind : faults'[f] <= MaxFaults[f]
    BY KeepKeeps DEF allVars, hostVars, IInv
  <2>2. /\ Settled /\ LinkKept /\ link' \in {"catalogue", "other", "none"}
        /\ UNCHANGED <<host, done, pending, cur, link>>
    BY DEF allVars, hostVars, Settled, LinkKept, IInv, HostTyped
  <2>3. BuriWhole'
    <3>1. /\ Has(Buri)' = Has(Buri) /\ Buri' = Buri /\ Fetching' = Fetching
          /\ FileOf(TaskAt(cur))' = FileOf(TaskAt(cur))
      BY <2>2 DEF Has, Buri, Fetching, FileOf, IsFile, TaskAt, Settled
    <3>2. QED
      BY <3>1, <2>1, <2>2 DEF IInv, BuriWhole, NoneReturned, FaultKind, Settled
  <2>4. QED
    BY <1>2, <2>1, <2>2, <2>3, QuietStep
<1>3. QED
  BY <1>1, <1>2

LEMMA EveryStep ==
  ASSUME IInv, [Next]_allVars
  PROVE  IInv'
<1>1. CASE FeaturesNext /\ UNCHANGED hostVars
  BY <1>1, Asleep
<1>2. CASE Deliver
  BY <1>2, DeliverStep
<1>3. ASSUME NEW k \in DOMAIN work, Begin(k) \/ BeginAgain(k) PROVE IInv'
  BY <1>3, StartStep
<1>4. CASE Succeed \/ Page \/ Blocked \/ Fail
  BY <1>4, SucceedStep, PageStep, BlockedStep, FailStep
<1>5. CASE Crash \/ Restart \/ Update
  BY <1>5, CrashStep, RestartStep, UpdateStep
<1>6. CASE UNCHANGED allVars
  BY <1>6, Stuttering
<1>7. QED
  BY <1>1, <1>2, <1>3, <1>4, <1>5, <1>6 DEF Next, Execute

LEMMA AtFirst == Init => IInv
<1> SUFFICES ASSUME Init PROVE IInv
  OBVIOUS
<1>1. Sequence(built)
  <2>1. <<>> \in Seq({})
    OBVIOUS
  <2>2. QED
    BY <2>1 DEF Init, FeaturesInit, Sequence
<1>2. Waiting /\ Begun /\ LinkLed /\ BuriWhole /\ Held
  BY <1>1 DEF Init, HostInit, Waiting, Begun, LinkLed, BuriWhole, Held
<1>3. \A k \in FaultKind : MaxFaults[k] \in Nat
  BY HostAssumption
<1>4. HostTyped
  BY <1>3, NoHostTyped, HostAssumption DEF Init, HostInit, HostTyped
<1>5. QED
  BY <1>2, <1>4 DEF IInv

(* The invariant holds of every host, whatever its configuration is and    *)
(* whatever fails on it.                                                   *)
THEOREM Invariance == Spec => []IInv
  BY AtFirst, EveryStep, PTL DEF Spec

-----------------------------------------------------------------------------
(* What follows of it.                                                     *)

(* The effect of every task that is done is on the host, however often     *)
(* tasks are delivered again, break off, fail or bring the wrong file      *)
(* (probe/actions, probe/statemachine/sm.go:83).                           *)
THEOREM DoneStays == Spec => []DoneHolds
<1>1. IInv => DoneHolds
  BY DEF IInv, Held, HoldsOn, DoneHolds
<1>2. QED
  BY <1>1, Invariance, PTL

(* buri, which alone starts the agent again, is lost only with its link    *)
(* (link.go:45) or to a download of it that broke off or brought something *)
(* else (download.go:86).                                                  *)
THEOREM BuriKept == Spec => []BuriStays
<1>1. IInv => BuriStays
  <2> SUFFICES ASSUME IInv, node # 0, ~BuriWorks
               PROVE  \/ /\ link = "none"
                         /\ input.clusters[node].arch # "amd64" \/ Spent("update")
                      \/ /\ link = "catalogue"
                         /\ \/ cur # 0 /\ FileOf(TaskAt(cur)) = Buri
                            \/ Spent("crash") \/ Spent("fail") \/ Spent("page")
    BY DEF BuriStays
  <2>1. link \in {"none", "catalogue"}
    BY DEF IInv, HostTyped, BuriWorks
  <2>2. CASE link = "none"
    BY <2>2 DEF IInv, LinkLed
  <2>3. CASE link = "catalogue"
    BY <2>3 DEF IInv, BuriWhole, BuriWorks, Fetching
  <2>4. QED
    BY <2>1, <2>2, <2>3
<1>2. QED
  BY <1>1, Invariance, PTL

=============================================================================
