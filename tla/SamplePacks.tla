----------------------------- MODULE SamplePacks -----------------------------
(***************************************************************************)
(* The packages that TLC tries the package check on: one good package and  *)
(* what a change of one of its parts, or any mix of changes to one of its  *)
(* cubes, makes of it.                                                     *)
(***************************************************************************)
EXTENDS Integers

CONSTANT None

Field(n, t, r) ==
  [name |-> n, type |-> t, required |-> r, editable |-> TRUE, custom |-> FALSE,
   enum |-> FALSE, enforced |-> r, filtered |-> TRUE]

title == Field("title", "string", TRUE)
state == [Field("state", "string", TRUE) EXCEPT !.enum = TRUE, !.filtered = FALSE]

GoodCube ==
  [loads |-> TRUE, metadata |-> "good", named |-> {"create", "list"},
   routes |-> {[auth |-> TRUE, permission |-> TRUE, gate |-> {401, 403}],
               [auth |-> FALSE, permission |-> FALSE, gate |-> {}]},
   fields |-> {title, state}, searchable |-> {"title"}, relations |-> {"account"}]

FieldSets ==
  {{title, state}, {},
   {[title EXCEPT !.enforced = FALSE], state},
   {[title EXCEPT !.filtered = FALSE], state},
   {[title EXCEPT !.required = FALSE, !.enforced = FALSE], state},
   {title, Field("state", "object", TRUE)},
   {title, [Field("state", "integer", FALSE) EXCEPT !.filtered = FALSE]},
   {title, [Field("state", "string", TRUE) EXCEPT !.custom = TRUE, !.enforced = FALSE]},
   {title, [Field("state", "string", FALSE) EXCEPT !.editable = FALSE, !.filtered = FALSE]}}

CubesOf ==
  {[GoodCube EXCEPT !.metadata = m, !.named = n, !.relations = r, !.fields = f, !.searchable = s] :
     m \in {"none", "good", "bad"}, n \in SUBSET {"create", "list"},
     r \in {{}, {"account"}, {"ghost"}}, f \in FieldSets, s \in SUBSET {"title", "state"}}
  \cup {[GoodCube EXCEPT !.routes = {[auth |-> a, permission |-> p, gate |-> g]}] :
          a \in BOOLEAN, p \in BOOLEAN, g \in SUBSET {401, 403}}
  \cup {[GoodCube EXCEPT !.loads = FALSE]}

GoodPack ==
  [files |-> {}, manifest |-> "good", onDisk |-> {"a", "b"}, cubes |-> [c \in {"a", "b"} |-> GoodCube],
   sizes |-> [c \in {"a", "b"} |-> <<1, 1>>], ownCaps |-> FALSE, boots |-> "serves",
   probes |-> <<0>>, json |-> "good", test |-> "qwbe check .", dependency |-> "version", resolves |-> "own"]

Pack ==
  {[GoodPack EXCEPT !.cubes["a"] = c] : c \in CubesOf}
  \cup {[GoodPack EXCEPT !.files = {[where |-> w, names |-> n]}] :
          w \in {"cube", "test", "beside", "tooling"}, n \in {"public", "internal", "builtin"}}
  \cup {[GoodPack EXCEPT !.manifest = m] : m \in {"missing", "undecodable", "nocubes"}}
  \cup {[GoodPack EXCEPT !.onDisk = d] : d \in SUBSET {"a", "b", "c"}}
  \cup {[GoodPack EXCEPT !.sizes["a"] = s] : s \in {<<>>, <<4>>, <<3>>, <<2, 2>>, <<1, 1, 1>>}}
  \cup {[GoodPack EXCEPT !.ownCaps = TRUE], [GoodPack EXCEPT !.cubes = <<>>, !.onDisk = {}]}
  \cup {[GoodPack EXCEPT !.boots = b] : b \in {"exits", "hangs"}}
  \cup {[GoodPack EXCEPT !.probes = p] : p \in {<<>>, <<0, 1>>, <<1, 0>>, <<None>>, <<0, 0>>}}
  \cup {[GoodPack EXCEPT !.json = "missing"], [GoodPack EXCEPT !.test = "vitest"]}
  \cup {[GoodPack EXCEPT !.dependency = d] : d \in {"absent", "checkout"}}
  \cup {[GoodPack EXCEPT !.resolves = r] : r \in {"nowhere", "outside"}}

KernelCaps == [file |-> 3, files |-> 2, unit |-> 3]
=============================================================================
