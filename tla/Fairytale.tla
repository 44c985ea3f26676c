------------------------------ MODULE Fairytale ------------------------------
(***************************************************************************)
(* From the builder to the readers (fairytale/story, repeatable, reader):  *)
(* End() sorts and checks a graph, the story it returns is given to New    *)
(* with adapters that require what the links say, and its parts are        *)
(* executed.  Besides, stories may be given to New as they are.            *)
(***************************************************************************)
EXTENDS Wiring

CONSTANTS
  Inputs,   \* builders, see StoryBuilder
  Types     \* what adapters return: functions from their names to types

VARIABLES builder, nodes, free, cur, todo, pc

B == INSTANCE StoryBuilder WITH input <- builder, i <- free

builderVars == <<builder, nodes, free, cur, todo, pc>>

(* Adapters for a story that End() returned: one per part, with a result   *)
(* of its own type or of the start's, which requires the parts before it   *)
(* in their order or in the opposite one.                                  *)
Name(p) == CASE p = IdStart -> StartName [] p = IdEnd -> EndName [] OTHER -> p

Named(type, order(_)) ==
  LET parts   == ToSet(nodes) \ {B!Blank}
      prev    == InnLinks(nodes, [q \in ToSet(nodes) |-> B!Out(q)])
      names   == {Name(p) : p \in parts}
      part(n) == CHOOSE p \in parts : Name(p) = n
      wants(n) == LET ps == order(prev[part(n)])
                  IN  [k \in DOMAIN ps |-> Name(ps[k])]
  IN  [parts    |-> nodes,
       prev     |-> prev,
       adapter  |-> [p \in ToSet(nodes) |-> IF p = B!Blank THEN NoType ELSE Name(p)],
       adapters |-> SetToSeq(names),
       type     |-> [n \in names \cup {NoType} |-> IF n = NoType THEN n ELSE type[n]],
       reqs     |-> [n \in names \cup {NoType} |->
                       CASE n = NoType -> <<>> [] n = StartName -> <<n>> [] OTHER -> wants(n)]]

AsIs(s) == s

(* A builder that links back to the start is not handed on, see            *)
(* StoryBuilder.  A story with a blank is refused for its adapter; in the  *)
(* code New may panic before, for a part before it that is not there.      *)
HandOver ==
  /\ pc = "ok" /\ verdict = "none" /\ ~B!BackToStart
  /\ verdict' = "unknown"
  /\ \E type \in Types : story' \in {Named(type, AsIs), Named(type, Reverse)}
  /\ outcome' = [p \in ToSet(nodes) |-> "waiting"]
  /\ args' = [p \in ToSet(nodes) |-> <<>>]
  /\ UNCHANGED builderVars

Unbuilt == [parts |-> <<>>]
NoGraph == [defs |-> <<>>]

BuilderInit ==
  /\ B!Init
  /\ story = Unbuilt /\ verdict = "none" /\ outcome = <<>> /\ args = <<>>

GivenInit ==
  /\ Init
  /\ builder = NoGraph /\ nodes = <<>> /\ free = 0 /\ cur = 0 /\ todo = {} /\ pc = "given"

StoriesNext ==
  \/ B!Next /\ UNCHANGED vars
  \/ HandOver
  \/ Next /\ UNCHANGED builderVars

StoriesSpec == (BuilderInit \/ GivenInit) /\ [][StoriesNext]_<<builderVars, vars>>

(* The properties of StoryBuilder.                                         *)
ResultRight   == B!ResultRight
StoryComplete == B!StoryComplete
=============================================================================
