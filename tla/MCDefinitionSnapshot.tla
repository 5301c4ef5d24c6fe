------------------------ MODULE MCDefinitionSnapshot ------------------------
(***************************************************************************)
(* Custom fields for TLC, side by side: DefinitionSnapshot, what the       *)
(* catalogue publishes, and CustomFields, what requests validate against.  *)
(* `part` says which one a behaviour is of; the other stays at its start.  *)
(***************************************************************************)
EXTENDS DefinitionSnapshot, TLC

CONSTANTS
  Fields, Options, Payloads,                       \* of CustomFields
  f, g, x, y,                                      \* fields and values, for the run
  Callers, Blank, MaxKeys, PageSize, MaxDefs, MaxRows, MaxAsked

VARIABLES part, defs, items, serving, served

NoValues == [n \in {} |-> Blank]
MCOptions == {{x}, {y}}
MCPayloads == {[flat |-> f :> x, nested |-> NoValues], [flat |-> f :> Blank, nested |-> NoValues],
               [flat |-> NoValues, nested |-> g :> y]}

F == INSTANCE CustomFields

ASSUME FieldsAssumption == MaxKeys \in Nat \ {0} /\ PageSize \in Nat \ {0} /\ MaxRows \in Nat

fieldsOnly == <<defs, items, serving, served>>

InitBoth ==
  \/ part = "snapshot" /\ Init /\ defs = <<>> /\ F!InitFields
  \/ part = "fields" /\ F!InitFields /\ Init /\ db = None

NextBoth ==
  /\ part' = part
  /\ \/ part = "snapshot" /\ Next /\ UNCHANGED fieldsOnly
     \/ part = "fields" /\ F!NextFields /\ UNCHANGED vars

SpecBoth == InitBoth /\ [][NextBoth]_<<part, vars, fieldsOnly>>

Symmetry == Permutations(Writers) \cup Permutations(Cubes) \cup Permutations(Callers)

(* What requests store is what definitions allow, however they interleave: *)
(* no row grows past the caps (CustomFields!CapsHold), every value was     *)
(* accepted by a definition of its name (CustomFields!ValuesWereAccepted), *)
(* a required field is never emptied (CustomFields!RequiredStay), and two  *)
(* active definitions share a name only when their calls, or an update and *)
(* a removal, overlapped (CustomFields!TwinsHaveACause).                   *)
(* custom-values.ts:35-40 and 169-181, schema.ts:173-179,                  *)
(* handlers.ts:76-79.                                                      *)
FieldsHold == F!CapsHold /\ F!ValuesWereAccepted /\ F!RequiredStay /\ F!TwinsHaveACause

(* Values without a definition are reported and not shown: the report      *)
(* misses none that stood all the while it paged, unless a lost update     *)
(* shifts the pages (CustomFields!ReportIsComplete), and a form shows only *)
(* fields active at some time of its call (CustomFields!FormsHideOrphans). *)
(* values.ts:29-39 and 95-106, custom-rows.ts:7-9.                         *)
OrphansAreReported == F!ReportIsComplete /\ F!FormsHideOrphans
=============================================================================
