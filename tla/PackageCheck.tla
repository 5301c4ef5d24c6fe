---------------------------- MODULE PackageCheck ----------------------------
(***************************************************************************)
(* `qwbe check <dir>`: the command that says whether a package is done.    *)
(* Four stages in order, the first that finds something stops the check:   *)
(* the source contract, the size caps, a kernel booted with the package    *)
(* mounted (probed by the check and then by the package's own probes), and *)
(* how the package invokes the check.  The runtime stage owns a sandbox    *)
(* directory, a database and a kernel process, given back however the      *)
(* stage ends: a verdict, an error, or an interrupt (Ctrl-C).              *)
(*                                                                         *)
(* A package is what the check can see of it: a record of Packs.  What a   *)
(* file says is reduced to the one thing a rule asks of it, and a finding  *)
(* to its rule.  Every check has a port of its own.                        *)
(***************************************************************************)
EXTENDS Integers, Sequences, FiniteSets, FiniteSetsExt

CONSTANTS Packs,       \* the packages that may be checked, a set of records
          Caps,        \* [file, files, unit]: the kernel's size caps
          System,      \* the cubes every kernel mounts
          MaxFaults,   \* bound: calls of the environment that fail
          None         \* not a string or number

VARIABLES pack,    \* the package
          step,    \* where the check is
          server,  \* the kernel process: "off", "starting", "up" or "gone"
          held,    \* what the scope of the runtime stage owns, in order
          left,    \* what was not given back
          todo,    \* the cubes the generic probes have yet to judge
          tokens,  \* what the probes got hold of: "reader" token, "catalog"
          unread,  \* the cubes whose metadata was asked for and not answered
          runs,    \* the exits of the package's own probes, in order
          findings, code, faults

vars == <<pack, step, server, held, left, todo, tokens, unread, runs, findings, code, faults>>

Declared == DOMAIN pack.cubes
Mounted  == System \cup Declared

----------------------------------------------------------------------------
(* Stages 1, 2 and 4: pure readings of the package.                        *)

(* Where a scanned file is: in a cube, a test, or beside the cubes; what   *)
(* it imports.  Top-level tooling directories are not scanned at all.      *)
ImportFindings ==
  {"imports-internal" : f \in {g \in pack.files : g.where # "tooling" /\ g.names = "internal"}}
  \cup {"cube-builtins" : f \in {g \in pack.files : g.where = "cube" /\ g.names = "builtin"}}

(* It decodes, names its cubes, and they are the directories of cubes/,    *)
(* both ways.                                                              *)
ManifestFindings ==
  IF pack.manifest # "good" \/ pack.onDisk # Declared THEN {"manifest"} ELSE {}

SourceFindings == ManifestFindings \cup ImportFindings

Sum(sizes) == MapThenSumSet(LAMBDA i : sizes[i], DOMAIN sizes)

SizeFindings ==
  UNION {LET sizes == pack.sizes[c] IN
         {"size-file" : i \in {j \in DOMAIN sizes : sizes[j] > Caps.file}}
         \cup IF Len(sizes) > Caps.files \/ Sum(sizes) > Caps.unit THEN {"size-unit"} ELSE {}
         : c \in DOMAIN pack.sizes}

CapsFindings == SizeFindings \cup IF pack.ownCaps THEN {"caps-source"} ELSE {}

InvocationFindings ==
  IF pack.json # "good" THEN {"invocation"}
  ELSE (IF pack.test # "qwbe check ." THEN {"invocation-test"} ELSE {})
       \cup (IF pack.dependency # "version" THEN {"invocation-dependency"} ELSE {})
       \cup (IF pack.resolves # "own" THEN {"invocation-install"} ELSE {})

----------------------------------------------------------------------------
(* Stage 3, the generic probes of one cube: requests to the booted kernel, *)
(* made from what the cube declares and what the kernel publishes of it.   *)

(* Mutant: a text for every field that is not an object.                   *)
ValueOfType(f) == IF f.type = "object" THEN None ELSE "free"

(* A value of the field can be made up: an enumerated one is taken from    *)
(* the list, an object has a shape the probe does not know.                *)
ValueFor(f) == IF f.enum THEN "listed" ELSE IF f.type = "object" THEN None ELSE "free"

Payload(fields) ==
  {<<f.name, ValueFor(f)>> : f \in {g \in fields :
      g.editable /\ g.required /\ ~g.custom /\ ValueFor(g) # None}}

(* The handler's answer to a create is 2xx: what it insists on is there,   *)
(* and no enumerated field has a made-up value.                            *)
Accepts(fields, body) ==
  \A f \in fields :
    /\ f.enforced => \E p \in body : p[1] = f.name
    /\ f.enum => <<f.name, "free">> \notin body

With(body, n, value) == {p \in body : p[1] # n} \cup {<<n, value>>}

ProbeRoutes(cube) ==
  {"route-auth" : r \in {q \in cube.routes : q.auth /\ 401 \notin q.gate}}
  \cup {"route-permission" : r \in {q \in cube.routes :
          q.permission /\ ("reader" \notin tokens \/ 403 \notin q.gate)}}

ProbeRequired(cube) ==
  LET required == {f \in cube.fields : f.required /\ f.editable /\ ~f.custom}
      body == Payload(cube.fields)
  IN IF /\ "create" \in cube.named /\ required # {}
        /\ \/ ~Accepts(cube.fields, body)
           \/ \E f \in required : Accepts(cube.fields, {p \in body : p[1] # f.name})
     THEN {"required-field"} ELSE {}

(* Two rows that differ in the field, and a filter that must answer one.   *)
ProbeSearchable(cube) ==
  LET fails(n) == LET named == {f \in cube.fields : f.name = n} IN
        \/ named = {}
        \/ \E f \in named : /\ f.type = "string" /\ f.editable
                            /\ \/ ~Accepts(cube.fields, With(Payload(cube.fields), n, "free"))
                               \/ ~f.filtered
  IN IF {"create", "list"} \subseteq cube.named /\ \E n \in cube.searchable : fails(n)
     THEN {"searchable"} ELSE {}

Catalog == IF "catalog" \in tokens THEN Mounted ELSE {}
ProbeRelations(cube) ==
  IF \E t \in cube.relations : t \notin Catalog THEN {"relation-target"} ELSE {}

(* Mutant: a cube that publishes no metadata is skipped altogether.        *)
ProbesOfPublished(cube) ==
  IF cube.metadata # "good" THEN {}
  ELSE ProbeRoutes(cube) \cup ProbeRequired(cube) \cup ProbeSearchable(cube) \cup ProbeRelations(cube)

Probes(cube) ==
  ProbeRelations(cube) \cup
  IF cube.metadata = "none" THEN {}
  ELSE IF cube.metadata = "bad" THEN {"generic-probes"}
  ELSE ProbeRoutes(cube) \cup ProbeRequired(cube) \cup ProbeSearchable(cube)

(* What a request of a probe that the kernel answers with an error makes   *)
(* the probe report: every family takes it for the cube's doing.           *)
Spoilt(cube) ==
  IF cube.metadata # "good" THEN {}
  ELSE {"route-auth" : r \in {q \in cube.routes : q.auth}}
       \cup {"route-permission" : r \in {q \in cube.routes : q.permission}}
       \cup {"required-field" : f \in {g \in cube.fields :
               "create" \in cube.named /\ g.required /\ g.editable /\ ~g.custom}}
       \cup {"searchable" : f \in {g \in cube.fields :
               /\ {"create", "list"} \subseteq cube.named /\ g.name \in cube.searchable
               /\ g.type = "string" /\ g.editable}}

----------------------------------------------------------------------------
Init ==
  /\ pack \in Packs
  /\ step = "source" /\ server = "off" /\ held = <<>> /\ left = {}
  /\ todo = {} /\ tokens = {} /\ unread = {} /\ runs = <<>> /\ findings = {} /\ code = None /\ faults = 0

Scope == <<server, held, left>>
Probing == <<todo, tokens, unread, runs>>

(* A stage is over: with findings the check is, once the scope is closed.  *)
Judge(found, next) ==
  /\ findings' = found
  /\ step' = IF found # {} THEN "unwind" ELSE next
  /\ code' = IF found # {} THEN 1 ELSE code

(* A defect: no verdict.  Whatever the scope holds is given back first.    *)
Die == step' = "unwind" /\ code' = 2 /\ findings' = findings

Fault == faults < MaxFaults /\ faults' = faults + 1

Source == step = "source" /\ Judge(SourceFindings, "caps") /\ UNCHANGED <<pack, Scope, Probing, faults>>

CapsStage ==
  /\ step = "caps"
  /\ \/ Judge(CapsFindings, "probes") /\ faults' = faults
     \/ Fault /\ Die                     \* no kernel root, or no caps in its config
  /\ UNCHANGED <<pack, Scope, Probing>>

OwnProbes ==
  /\ step = "probes"
  /\ Judge(IF pack.probes = <<>> THEN {"probes"} ELSE {}, "sandbox")
  /\ UNCHANGED <<pack, Scope, Probing, faults>>

(* Each is acquired uninterruptibly and owned by the scope from then on:   *)
(* a CREATE DATABASE that is late leaves a database, and its finalizer.    *)
Acquire(what, next) ==
  /\ step = what
  /\ \/ /\ held' = Append(held, what) /\ step' = next
        /\ server' = IF what = "kernel" THEN "starting" ELSE server
        /\ UNCHANGED <<findings, code, faults>>
     \/ /\ Fault /\ Die /\ UNCHANGED server
        /\ held' \in {held} \cup IF what = "database" THEN {Append(held, what)} ELSE {}
  /\ UNCHANGED <<pack, left, Probing>>

Sandbox == Acquire("sandbox", "client")
Database == Acquire("client", "database") \/ Acquire("database", "kernel")
StartKernel == Acquire("kernel", "wait")
Scratch == Acquire("scratch", "dump")

(* The kernel process by itself.                                           *)
Kernel ==
  /\ \/ server = "starting" /\ pack.boots = "serves" /\ server' = "up" /\ faults' = faults
     \/ server = "starting" /\ pack.boots = "exits" /\ server' = "gone" /\ faults' = faults
     \/ server \in {"starting", "up"} /\ Fault /\ server' = "gone"
  /\ UNCHANGED <<pack, step, held, left, Probing, findings, code>>

(* The first of an answer, an exit, and fifteen seconds.  The timeout      *)
(* counts as a fault of the environment when the kernel would have served. *)
WaitReady ==
  /\ step = "wait"
  /\ \/ /\ server = "up" /\ Judge({}, IF Declared = {} THEN "own" ELSE "scratch") /\ faults' = faults
     \/ /\ server = "gone" /\ Judge({"boot"}, "own") /\ faults' = faults
     \/ /\ server = "starting" /\ Judge({"boot"}, "own")
        /\ IF pack.boots = "hangs" THEN faults' = faults ELSE Fault
  /\ UNCHANGED <<pack, Scope, Probing>>

(* The dump imports every declared cube in a process of its own; a cube it *)
(* cannot import is an entry of its result, and a finding.                 *)
Dumped == {c \in Declared : pack.cubes[c].loads}

Dump ==
  /\ step = "dump"
  /\ \/ /\ todo' = Declared /\ step' = "login" /\ UNCHANGED <<findings, code, faults, held>>
     \/ /\ Fault /\ Judge({"declarations"}, "own") /\ UNCHANGED <<todo, held>>
  /\ UNCHANGED <<pack, server, left, tokens, unread, runs>>

(* The probes need the kernel: a call it does not answer is a defect.      *)
Ask(answered) ==
  \/ server = "up" /\ answered
  \/ server # "up" /\ Die /\ UNCHANGED <<todo, tokens, unread, faults>>

(* Logs in as admin, makes a user without permissions and reads the        *)
(* catalog; a refusal of one of the last two is a finding, and goes on.    *)
Login ==
  /\ step = "login"
  /\ Ask(/\ \/ /\ tokens' = {"reader", "catalog"} /\ step' = "cubes" /\ UNCHANGED <<findings, code, todo, faults>>
            \/ /\ Fault /\ step' = "cubes" /\ findings' = {"generic-probes"} /\ UNCHANGED <<code, todo>>
               /\ tokens' \in {{"reader"}, {"catalog"}}
            \/ /\ Fault /\ Judge({"generic-probes"}, "own") /\ UNCHANGED <<todo, tokens>>
         /\ UNCHANGED unread)
  /\ UNCHANGED <<pack, Scope, runs>>

(* What the probes report of the cube, and which cubes they took for ones  *)
(* without metadata: any answer but 200 to that request says "none".       *)
Reports(c, found, missed) ==
  /\ todo' = todo \ {c}
  /\ findings' = findings \cup found
  /\ unread' = unread \cup missed
  /\ UNCHANGED <<step, tokens, code>>

ProbeCube ==
  /\ step = "cubes" /\ todo # {}
  /\ \E c \in todo :
       LET cube == pack.cubes[c] IN
       Ask(\/ Reports(c, IF c \in Dumped THEN Probes(cube) ELSE {"declarations"}, {}) /\ faults' = faults
           \/ c \in Dumped /\ Fault /\ Reports(c, ProbeRelations(cube), {c})
           \/ /\ c \in Dumped /\ Fault
              /\ \E rule \in Spoilt(cube) : Reports(c, Probes(cube) \cup {rule}, {}))
  /\ UNCHANGED <<pack, Scope, runs>>

(* What the scope owns once h is given back.                               *)
Without(h) == [i \in 1 .. Len(held) - 1 |-> IF h \in {held[j] : j \in 1 .. i} THEN held[i + 1] ELSE held[i]]

(* The scratch directory goes with the inner scope.                        *)
Probed ==
  /\ step = "cubes" /\ todo = {}
  /\ held' = Without("scratch")
  /\ Judge(findings, "own")
  /\ UNCHANGED <<pack, server, left, Probing, faults>>

(* The package's own probes, one after the other, all of them.  One that   *)
(* needs the kernel and finds it gone exits as it likes.                   *)
RunProbe ==
  /\ step = "own" /\ Len(runs) < Len(pack.probes)
  /\ \/ runs' = Append(runs, pack.probes[Len(runs) + 1])
     \/ server # "up" /\ runs' = Append(runs, 1)
  /\ UNCHANGED <<pack, step, Scope, todo, tokens, unread, findings, code, faults>>

ProbeFindings == IF \E i \in DOMAIN runs : runs[i] # 0 THEN {"probe"} ELSE {}

RuntimeDone ==
  /\ step = "own" /\ Len(runs) = Len(pack.probes)
  /\ Judge(ProbeFindings, "close")
  /\ UNCHANGED <<pack, Scope, Probing, faults>>

----------------------------------------------------------------------------
(* Closing the scope: the last that was acquired first.  The kernel gets   *)
(* SIGTERM and then SIGKILL, the DROP has twenty seconds and is ignored    *)
(* when it fails; a directory or a client simply goes.                     *)

(* Mutant: in the order of acquisition.                                    *)
FirstIn == Head(held)

Last == held[Len(held)]

Release ==
  /\ step \in {"unwind", "close"} /\ held # <<>>
  /\ LET out == Last IN
     /\ held' = Without(out)
     /\ server' = IF out = "kernel" THEN "gone" ELSE server
     /\ \/ left' = left /\ faults' = faults
        \/ out = "database" /\ Fault /\ left' = left \cup {out}
  /\ UNCHANGED <<pack, step, Probing, findings, code>>

Closed ==
  /\ step \in {"unwind", "close"} /\ held = <<>>
  /\ step' = IF step = "close" THEN "invocation" ELSE "end"
  /\ UNCHANGED <<pack, Scope, Probing, findings, code, faults>>

Invocation ==
  /\ step = "invocation"
  /\ LET found == InvocationFindings IN
     findings' = found /\ step' = "end" /\ code' = IF found # {} THEN 1 ELSE 0
  /\ UNCHANGED <<pack, Scope, Probing, faults>>

(* Mutant: Ctrl-C ends the command at once.                                *)
InterruptAtOnce ==
  /\ step \notin {"unwind", "end"} /\ code = None
  /\ step' = "end" /\ code' = 130
  /\ left' = left \cup {held[i] : i \in DOMAIN held}
  /\ UNCHANGED <<pack, server, held, Probing, findings, faults>>

Interrupt ==
  /\ step \notin {"unwind", "end"} /\ code = None
  /\ step' = "unwind" /\ code' = 130
  /\ UNCHANGED <<pack, Scope, Probing, findings, faults>>

Next ==
  \/ Source \/ CapsStage \/ OwnProbes \/ Sandbox \/ Database \/ StartKernel \/ Kernel
  \/ WaitReady \/ Scratch \/ Dump \/ Login \/ ProbeCube \/ Probed \/ RunProbe \/ RuntimeDone
  \/ Release \/ Closed \/ Invocation \/ Interrupt

Spec == Init /\ [][Next]_vars

----------------------------------------------------------------------------
(* What the usage text and the head of check-probes.ts promise of a        *)
(* package that passes, read off the package alone.                        *)
KeepsRoutes(cube) ==
  \A r \in cube.routes : (r.auth => 401 \in r.gate) /\ (r.permission => 403 \in r.gate)
KeepsFields(cube) ==
  /\ "create" \in cube.named =>
       \A f \in cube.fields : f.required /\ f.editable /\ ~f.custom => f.enforced
  /\ {"create", "list"} \subseteq cube.named =>
       \A n \in cube.searchable : \E f \in cube.fields :
         f.name = n /\ (f.type = "string" /\ f.editable => f.filtered)
MountsWell(cube) == cube.loads /\ cube.relations \subseteq Mounted
KeepsWord(cube) ==
  /\ MountsWell(cube) /\ cube.metadata # "bad"
  /\ cube.metadata = "good" => KeepsRoutes(cube) /\ KeepsFields(cube)

(* What the probes need besides to judge a cube: values they can make up   *)
(* for what a create insists on, and for a searchable field.               *)
CanBeJudged(cube) ==
  cube.metadata = "good" /\ "create" \in cube.named =>
    \A f \in cube.fields :
      /\ f.enforced => f.required /\ f.editable /\ ~f.custom
      /\ f.required /\ f.editable /\ ~f.custom => f.enum \/ f.type # "object"
      /\ f.name \in cube.searchable => ~f.enum

(* The package keeps the contract, and of the cubes in C what it takes to  *)
(* be mounted.                                                             *)
SoundBut(C) ==
  /\ SourceFindings = {} /\ CapsFindings = {} /\ InvocationFindings = {}
  /\ pack.boots = "serves" /\ pack.probes # <<>> /\ \A i \in DOMAIN pack.probes : pack.probes[i] = 0
  /\ \A c \in Declared : IF c \in C THEN MountsWell(pack.cubes[c]) ELSE KeepsWord(pack.cubes[c])

Sound == SoundBut({})

(* A pass means what the four stages are said to judge holds of the        *)
(* package (check-package.ts:414-448, check-probes.ts:6-11), whatever a    *)
(* probe skipped for want of a value, with one exception: a cube whose     *)
(* metadata the kernel failed to answer for counts as one that publishes   *)
(* none (check-probes.ts:263-269), and passes unprobed but for its         *)
(* relations.                                                              *)
PassIsSound == step = "end" /\ code = 0 => SoundBut(unread) /\ (faults = 0 => Sound)

(* A refusal is the package's doing: an environment in which every call    *)
(* succeeds refuses no sound package the probes can judge                  *)
(* (check-probes.ts:331-421).                                              *)
RefusalIsEarned ==
  step = "end" /\ code = 1 /\ faults = 0 =>
    ~Sound \/ \E c \in Declared : ~CanBeJudged(pack.cubes[c])

(* The kernel under check never outlives its database or its sandbox: one  *)
(* scope gives them back in reverse (check-package.ts:216-222).            *)
KernelKeepsItsGround ==
  server \in {"starting", "up"} =>
    {"sandbox", "database", "kernel"} \subseteq {held[i] : i \in DOMAIN held}

(* However a check ends, by a verdict, an error or Ctrl-C, nothing of it   *)
(* is left but a database whose DROP failed (qwbe-cli.ts:99-104,           *)
(* test-db.ts:39-60).                                                      *)
NothingIsLeft ==
  step = "end" => held = <<>> /\ left \subseteq {"database"} /\ (left # {} => faults > 0)
                  /\ server \notin {"starting", "up"}

TypeOK ==
  /\ server \in {"off", "starting", "up", "gone"}
  /\ code \in {None, 0, 1, 2, 130} /\ faults \in 0..MaxFaults
  /\ unread \subseteq Declared /\ (unread # {} => faults > 0)
  /\ step = "end" => code # None
  /\ code = 0 => findings = {}
  /\ code = 1 => findings # {}
=============================================================================
