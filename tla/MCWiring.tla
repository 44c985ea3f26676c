------------------------------- MODULE MCWiring -------------------------------
(***************************************************************************)
(* Instances of Wiring for TLC: stories of two parts with every way of     *)
(* linking them and of declaring their adapters, and the deployment.       *)
(***************************************************************************)
EXTENDS MCDeployment

CONSTANTS X, Y, T, U, V

Pa == "a"
Pb == "b"

Links ==
  {n \in {IdStart :> s @@ Pa :> a @@ Pb :> b @@ IdEnd :> {} :
            s \in {{Pa}, {Pa, Pb}}, a \in SUBSET {Pb, IdEnd}, b \in SUBSET {IdEnd}} :
     Pb \in n[IdStart] \cup n[Pa] /\ IdEnd \in n[Pa] \cup n[Pb]}

(* Lists of at most two required adapters, X twice among them. *)
Required ==
  {<<>>} \cup
  {<<n>> : n \in {StartName, X, Y}} \cup
  ({<<n, o>> : n, o \in {StartName, X, Y}} \ {<<n, n>> : n \in {StartName, Y}})

Declared(tx, ty, ts, rx, ry, re) ==
  [type |-> (StartName :> ts @@ EndName :> V @@ AnyName :> NoType
             @@ X :> tx @@ Y :> ty),
   reqs |-> (StartName :> (IF ts = NilType THEN <<>> ELSE <<StartName>>)
             @@ EndName :> re @@ X :> rx @@ Y :> ry)]

Declarations ==
  {Declared(tx, ty, ts, rx, ry, re) :
     tx \in {T, NilType}, ty \in {T, U, NilType}, ts \in {T, V, NilType},
     rx \in Required, ry \in Required, re \in {<<AnyName>>, <<Y, X>>}}

(* The adapters of the two parts, and those New is given. *)
UseBoth == <<X, Y, <<X, Y>> >>
UseX    == {<<X, X, <<X>> >>, <<X, X, <<X, Y>> >>}

Small(n, u, d) ==
  [parts    |-> <<IdStart, Pa, Pb, IdEnd>>,
   prev     |-> InnLinks(<<IdStart, Pa, Pb, IdEnd>>, n),
   adapter  |-> (IdStart :> StartName @@ Pa :> u[1] @@ Pb :> u[2] @@ IdEnd :> EndName),
   adapters |-> u[3],
   type     |-> d.type,
   reqs     |-> d.reqs]

(* Where both parts use X, it does not matter what Y is; where only the    *)
(* first does, it has the start before it and nothing else.                *)
Leading == {<<>>, <<StartName>>, <<X>>, <<Y>>, <<StartName, Y>>}

Cases ==
  {<<UseBoth, d>> : d \in {e \in Declarations : e.reqs[X] \in Leading}}
    \cup (UseX \X {e \in Declarations : e.type[Y] = T /\ e.reqs[Y] = <<>>})

AllStories ==
  {Small(n, c[1], c[2]) : n \in Links, c \in Cases} \cup Deployment
=============================================================================
