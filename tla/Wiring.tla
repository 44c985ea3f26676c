-------------------------------- MODULE Wiring --------------------------------
(***************************************************************************)
(* How the parts of a story get their arguments.                           *)
(*                                                                         *)
(* reader.New and repeatable.New check a story against its adapters by     *)
(* NAME: a part's adapter requires the adapters of the parts before it, and *)
(* nothing else.  adapter.Execute hands out the data by TYPE: each required *)
(* adapter takes the first datum of its type that is not taken yet, the    *)
(* data being in the order of the part's Prev, which is the order in which *)
(* the story defines its parts.  This module asks whether what the one     *)
(* accepts is what the other can run.                                      *)
(***************************************************************************)
EXTENDS Naturals, FiniteSets, SequencesExt

CONSTANTS
  IdStart, IdEnd,     \* the first and the last part
  StartName, EndName, \* the names of their adapters
  AnyName,            \* the adapter the default end adapter requires
  NilType,            \* the type of adapters without a result
  NoType,             \* the type of AnyName, an interface: the empty string
  Stories             \* [parts, prev, adapter, adapters, type, reqs]

(* What StoryBuilder and the adapters' constructor make of a story: it     *)
(* begins with one part and ends with another, the parts before a part     *)
(* are parts of the story, each listed once                                *)
(* (Inngoing), the end has the end's adapter (End), and the adapter of a   *)
(* part has a list of requirements.                                        *)
ASSUME WiringAssumption ==
  /\ NilType # NoType /\ IdStart # IdEnd
  /\ \A s \in Stories :
       LET parts == ToSet(s.parts)
       IN  /\ s.prev \in [parts -> Seq(parts)]
           /\ \A p \in parts : \A i, k \in DOMAIN s.prev[p] :
                s.prev[p][i] = s.prev[p][k] => i = k
           /\ s.adapter[IdEnd] = EndName
           /\ \A p \in parts :
                s.reqs[s.adapter[p]] \in Seq(ToSet(s.reqs[s.adapter[p]]))

VARIABLES
  story,     \* the story and the adapters New is called with
  verdict,   \* what New said
  outcome,   \* of each part: "waiting", "done", or why Execute refused
  args       \* what each part's function was called with

vars == <<story, verdict, outcome, args>>

Parts == ToSet(story.parts)
Names == DOMAIN story.reqs

(* What leads to a part, from the links of all parts in the order in which *)
(* they are defined.                                                       *)
InnLinks(parts, next) ==
  [p \in ToSet(parts) |-> SelectSeq(parts, LAMBDA v : p \in next[v])]

Prev(p)    == story.prev[p]
Adapter(p) == story.adapter[p]
Reqs(p)    == story.reqs[Adapter(p)]

(* The start's and the end's adapter are added when they are not given. *)
Adapters ==
  story.adapters
    \o (IF StartName \in ToSet(story.adapters) THEN <<>> ELSE <<StartName>>)
    \o (IF EndName \in ToSet(story.adapters) THEN <<>> ELSE <<EndName>>)

-----------------------------------------------------------------------------
(* New's checks.                                                           *)

(* Mutant: required adapters are looked for in the whole story.            *)
PartAcceptedLoosely(p) ==
  /\ Adapter(p) \in ToSet(Adapters)
  /\ p # IdEnd => \A q \in ToSet(Prev(p)) \ {IdStart} :
                    Adapter(q) \in ToSet(Reqs(p))
  /\ p # IdStart => \A n \in ToSet(Reqs(p)) \ {AnyName} :
                      \E q \in Parts : Adapter(q) = n

PartAccepted(p) ==
  /\ Adapter(p) \in ToSet(Adapters)
  /\ p # IdEnd => \A q \in ToSet(Prev(p)) \ {IdStart} :
                    Adapter(q) \in ToSet(Reqs(p))
  /\ p # IdStart => \A n \in ToSet(Reqs(p)) \ {AnyName} :
                      \E q \in ToSet(Prev(p)) : Adapter(q) = n

AllUsed == Len(Adapters) <= Cardinality({Adapter(p) : p \in Parts})

New ==
  /\ verdict = "unknown"
  /\ verdict' = IF AllUsed /\ \A p \in Parts : PartAccepted(p)
                THEN "accepted" ELSE "rejected"
  /\ UNCHANGED <<story, outcome, args>>

-----------------------------------------------------------------------------
(* Execute.                                                                *)

(* The data of a part: its type, and the part it comes from.  The start    *)
(* gets what New was called with, under the type of its own adapter.       *)
Data(p) ==
  IF p = IdStart THEN <<[type |-> story.type[StartName], from |-> IdStart]>>
  ELSE LET prev == Prev(p)
       IN  [i \in DOMAIN prev |->
              [type |-> story.type[Adapter(prev[i])], from |-> prev[i]]]

(* What has been handed out: the data that is used, the arguments, and     *)
(* whether a requirement found nothing.                                    *)
Nothing == [used |-> {}, args |-> <<>>, short |-> FALSE]

Given(p, m, i) ==
  [used  |-> m.used \cup {i},
   args  |-> Append(m.args, IF Data(p)[i].type = NilType THEN NilType
                            ELSE Data(p)[i].from),
   short |-> FALSE]

OfType(p, j) ==
  {i \in DOMAIN Data(p) : /\ Data(p)[i].type = story.type[Reqs(p)[j]]
                          /\ Data(p)[i].type # NoType}

First(S) == CHOOSE k \in S : \A l \in S : k <= l

(* Mutant: a datum may be given to several required adapters.              *)
TakeUsed(p, m, j) ==
  IF m.short \/ OfType(p, j) = {} THEN [m EXCEPT !.short = TRUE]
  ELSE Given(p, m, First(OfType(p, j)))

(* The j-th required adapter takes the first free datum of its type; one   *)
(* without a type takes none.                                              *)
Take(p, m, j) ==
  LET free == OfType(p, j) \ m.used
  IN  IF m.short \/ free = {} THEN [m EXCEPT !.short = TRUE]
      ELSE Given(p, m, First(free))

(* Mutant: data is handed out by position.                                 *)
MatchByPosition(p) ==
  LET ds == Data(p)
      n  == IF Len(ds) < Len(Reqs(p)) THEN Len(ds) ELSE Len(Reqs(p))
  IN  [used  |-> 1 .. n,
       args  |-> [j \in 1 .. n |-> IF ds[j].type = NilType THEN NilType
                                   ELSE ds[j].from],
       short |-> n < Len(Reqs(p))]

Match(p) ==
  LET taken[j \in 0 .. Len(Reqs(p))] ==
        IF j = 0 THEN Nothing ELSE Take(p, taken[j-1], j)
  IN  taken[Len(Reqs(p))]

LeftOver(p, used) ==
  /\ Adapter(p) # EndName
  /\ \E i \in DOMAIN Data(p) \ used : Data(p)[i].type # NilType

Execute(p) ==
  /\ verdict = "accepted" /\ outcome[p] = "waiting"
  /\ p = IdStart \/ Prev(p) # <<>>
  /\ \A q \in ToSet(Prev(p)) : outcome[q] = "done"
  /\ LET m == Match(p)
     IN  IF m.short
         THEN outcome' = [outcome EXCEPT ![p] = "short"] /\ UNCHANGED args
         ELSE IF LeftOver(p, m.used)
         THEN outcome' = [outcome EXCEPT ![p] = "left"] /\ UNCHANGED args
         ELSE /\ outcome' = [outcome EXCEPT ![p] = "done"]
              /\ args' = [args EXCEPT ![p] = m.args]
  /\ UNCHANGED <<story, verdict>>

Init ==
  /\ story \in Stories
  /\ verdict = "unknown"
  /\ outcome = [p \in Parts |-> "waiting"]
  /\ args = [p \in Parts |-> <<>>]

Next == New \/ \E p \in Parts : Execute(p)

Spec == Init /\ [][Next]_vars

-----------------------------------------------------------------------------
(* What New does not check: a requirement is stated once, has a type and   *)
(* is not the one New passes over; no two parts before this one have the   *)
(* same adapter; and the start's data is only sent where it is required.   *)
Sound(p) ==
  LET prev == Prev(p)  reqs == Reqs(p)
  IN  /\ \A j, k \in DOMAIN reqs : reqs[j] = reqs[k] => j = k
      /\ \A n \in ToSet(reqs) : n # AnyName /\ story.type[n] # NoType
      /\ \A q, r \in ToSet(prev) : Adapter(q) = Adapter(r) => q = r
      /\ IdStart \in ToSet(prev) =>
           \/ Adapter(IdStart) \in ToSet(reqs)
           \/ story.type[Adapter(IdStart)] = NilType

(* A part of an accepted story gets enough data, and all data it gets is   *)
(* used, even where adapters share a type.                                 *)
AcceptedRuns ==
  \A p \in Parts \ {IdStart} :
    Sound(p) => outcome[p] \in {"waiting", "done"}

(* A part's function is called with the results of the parts whose         *)
(* adapters it requires, in the order in which it requires them, when      *)
(* their types tell them apart.                                            *)
RightArguments ==
  \A p \in Parts \ {IdStart} :
    /\ outcome[p] = "done" /\ Sound(p)
    /\ \A q, r \in ToSet(Prev(p)) :
         story.type[Adapter(q)] = story.type[Adapter(r)] => q = r
    => /\ Len(args[p]) = Len(Reqs(p))
       /\ \A j \in DOMAIN args[p] :
            IF story.type[Reqs(p)[j]] = NilType THEN args[p][j] = NilType
            ELSE args[p][j] \in Parts /\ Adapter(args[p][j]) = Reqs(p)[j]

(* No part's function sees the result of one part twice.                   *)
EachResultOnce ==
  \A p \in Parts :
    \A j, k \in DOMAIN args[p] :
      j # k /\ args[p][j] = args[p][k] => args[p][j] = NilType
=============================================================================
