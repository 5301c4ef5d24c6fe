-------------------------- MODULE MCOperations_proofs --------------------------
(***************************************************************************)
(* Proofs about operations made of several store calls that run side by    *)
(* side, for any number of calls, users, rows and cubes: what              *)
(* SpecOperations says of Assignments, StagingImport, Sharing,             *)
(* SettingsReplay with its Switches and SortKeys, each by an invariant of  *)
(* its own that holds while its part runs.                                 *)
(***************************************************************************)
EXTENDS MCOperations, FiniteSetTheorems, SequenceTheorems, WellFoundedInduction, TLAPS

-----------------------------------------------------------------------------
(* Assignments.                                                            *)

(* A row is of the giving that inserted it, which is past that; what a     *)
(* call found given was given by then, so no row of it comes back.  Hence  *)
(* a giving that found no row never has a row beside an earlier giving's,  *)
(* and what a revoke has still to delete of what was given before it is    *)
(* among the rows it found.                                                *)
RightsInv ==
  /\ A!TypeOK
  /\ \A t \in Tables : \A r \in rows[t] : table[r] = t /\ stage[r] \notin {"idle", "insert"} /\ op[r] = "give"
  /\ \A c \in Assigning : \A r \in before[c] : stage[r] = "done"
  /\ \A c \in Assigning : stage[c] \in {"insert", "audit"} => op[c] = "give"
  /\ \A c \in Assigning : stage[c] = "find" => op[c] = "take"
  /\ \A c \in Assigning :
       op[c] = "give" /\ (stage[c] = "insert" \/ c \in rows[table[c]]) => rows[table[c]] \cap before[c] = {}
  /\ \A c \in Assigning :
       /\ op[c] = "take" /\ table[c] \in Twins
       /\ stage[c] \in {"delete", "done"}
       => rows[table[c]] \cap before[c] \subseteq doomed[c]

LEMMA RightsInit == A!Init => RightsInv
  BY DEF A!Init, RightsInv, A!TypeOK, A!Ops, A!Stages

LEMMA RightsStep ==
  ASSUME RightsInv, NEW c \in Assigning,
         \/ A!Give(c) \/ A!Insert(c) \/ A!TakeFirst(c) \/ A!TakeById(c) \/ A!FindTwins(c)
         \/ (\E r \in Assigning : A!Delete(c, r)) \/ A!Audit(c) \/ A!Die(c)
  PROVE  RightsInv'
<1>1. CASE A!Give(c)
  BY <1>1 DEF A!Give, A!Begin, A!Go, A!Done, RightsInv, A!TypeOK, A!Stages, A!Ops
<1>2. CASE A!Insert(c)
  BY <1>2 DEF A!Insert, A!Go, RightsInv, A!TypeOK, A!Stages, A!Ops
<1>3. CASE A!TakeFirst(c)
  BY <1>3 DEF A!TakeFirst, A!Begin, A!Go, A!Done, RightsInv, A!TypeOK, A!Stages, A!Ops
<1>4. CASE A!TakeById(c)
  BY <1>4 DEF A!TakeById, A!Begin, A!Go, A!Done, RightsInv, A!TypeOK, A!Stages, A!Ops
<1>5. CASE A!FindTwins(c)
  BY <1>5 DEF A!FindTwins, A!Go, RightsInv, A!TypeOK, A!Stages, A!Ops
<1>6. ASSUME NEW r \in Assigning, A!Delete(c, r)
      PROVE  RightsInv'
  BY <1>6 DEF A!Delete, RightsInv, A!TypeOK, A!Stages, A!Ops
<1>7. CASE A!Audit(c)
  BY <1>7 DEF A!Audit, A!Go, RightsInv, A!TypeOK, A!Stages, A!Ops
<1>8. CASE A!Die(c)
  BY <1>8 DEF A!Die, A!Go, RightsInv, A!TypeOK, A!Stages, A!Ops
<1> QED
  BY <1>1, <1>2, <1>3, <1>4, <1>5, <1>6, <1>7, <1>8

(* A right taken back is gone, whatever ran beside the taking and whoever  *)
(* died: two rows of one right come only from givings that overlap, and a  *)
(* revoke that succeeded left nothing that was given before it began.      *)
THEOREM RevokedIsGone == SpecOperations => []RightsAreRevoked
<1> DEFINE Inv == part = "assignments" => RightsInv
<1>1. InitOperations => Inv
  BY RightsInit DEF InitOperations
<1>2. Inv /\ [NextOperations]_all => Inv'
  <2> SUFFICES ASSUME Inv, [NextOperations]_all, part' = "assignments" PROVE RightsInv'
    OBVIOUS
  <2>1. CASE NextOperations
    <3>1. part = "assignments" /\ A!Next
      BY <2>1 DEF NextOperations
    <3> QED
      BY <3>1, RightsStep DEF A!Next
  <2>2. CASE UNCHANGED all
    <3>1. part' = part /\ UNCHANGED <<rows, stage, op, table, doomed, before>>
      BY <2>2 DEF all, assignmentsOnly
    <3> QED
      BY <3>1 DEF RightsInv, A!TypeOK
  <2> QED
    BY <2>1, <2>2
<1>3. Inv => RightsAreRevoked
  <2> SUFFICES ASSUME RightsInv PROVE A!TypeOK /\ A!DuplicatesOverlap /\ A!RevokeIsComplete
    BY DEF RightsAreRevoked
  <2>1. A!DuplicatesOverlap
    BY DEF RightsInv, A!TypeOK, A!DuplicatesOverlap
  <2>2. A!RevokeIsComplete
    BY DEF RightsInv, A!TypeOK, A!RevokeIsComplete, A!Ended
  <2> QED
    BY <2>1, <2>2 DEF RightsInv
<1> QED
  BY <1>1, <1>2, <1>3, PTL DEF SpecOperations

-----------------------------------------------------------------------------
(* StagingImport.                                                          *)

(* The rows of a chunk's open transaction are of its first lines, one of   *)
(* each, in order; a chunk of one INSERT has either none or all of them,   *)
(* with the next numbers of the set.  So the numbers of such a chunk are   *)
(* below the count once it has committed, and above it until then.         *)
NumberInv ==
  /\ IsFiniteSet(rows)
  /\ \A r \in rows : stage[r[1]] = "done"
  /\ \A c \in Requests :
       /\ IsFiniteSet(own[c])
       /\ own[c] # {} => stage[c] = "locked" /\ Cardinality(own[c]) <= G!Parsed(c)
       /\ \A r \in own[c] : r[1] = c /\ r[2] < Cardinality(own[c])
       /\ \A r, s \in own[c] : r[2] = s[2] => r = s
  /\ set # NoSet => \A r \in rows : ~ G!Long(r[1]) => r[3] < Cardinality(rows)
  /\ set # NoSet =>
       \A c \in Requests :
         /\ \A r \in own[c] : r[3] < Cardinality(rows) + 2 * Cardinality(own[c])
         /\ \A r, s \in own[c] : r[2] < s[2] => r[3] < s[3]
         /\ own[c] # {} /\ ~ G!Long(c) =>
              own[c] = {<<c, i, Cardinality(rows) + i>> : i \in 0..(G!Parsed(c) - 1)}
  /\ G!RowsAreNumbered

(* The one chunk that is in its batch holds the lock.  What an update read *)
(* is what it writes to, unless it was crossed.  And what a delete leaves  *)
(* of the rows it did not find is of requests that were still under way    *)
(* when it began.                                                          *)
StagingInv ==
  /\ G!TypeOK /\ NumberInv
  /\ \A c \in Requests : stage[c] = "locked" => lock = c
  /\ \A c \in Requests : op[c] = "chunk" => lines[c] > 0
  /\ \A c \in Requests :
       stage[c] = "updating" =>
         /\ op[c] # "delete"
         /\ read[c] # NoSet /\ read[c].rowCount >= 0
         /\ set # NoSet /\ ~ crossed => read[c] = set
  /\ \A c \in Requests : stage[c] \in {"locked", "broken"} => op[c] = "chunk"
  /\ \A c \in Requests : stage[c] = "cleared" => op[c] = "delete"
  /\ \A d \in Requests : \A c \in prior[d] : stage[c] \in G!Over
  /\ \A d \in Requests :
       stage[d] = "cleared" => \A r \in rows : r[1] \in prior[d] => r \in erased[d]
  /\ G!DeleteTakesTheRows /\ G!TallyCountsRows /\ G!ThrownChunkShows

(* The module counts with a Cardinality of its own: it is the library's.   *)
LEMMA CardinalityIs ==
  ASSUME NEW Q
  PROVE  G!Cardinality(Q) = Cardinality(Q)
  BY DEF G!Cardinality, Cardinality

LEMMA ParsedType ==
  ASSUME G!TypeOK, NEW c \in Requests, lines[c] > 0
  PROVE  G!Parsed(c) \in Nat
  BY StagingAssumption DEF G!TypeOK, G!Parsed

(* A chunk's parsed lines stay what they were from its load on.            *)
LEMMA ParsedStays ==
  ASSUME UNCHANGED <<format, lines>>, NEW c, seen'[c] = seen[c]
  PROVE  G!Parsed(c)' = G!Parsed(c) /\ (G!Long(c)' <=> G!Long(c))
<1>1. G!Parsed(c)' = G!Parsed(c)
  BY DEF G!Parsed, G!IsFirst
<1> QED
  BY <1>1 DEF G!Long

(* The numbers stand while no row comes in, in the table or in a batch.    *)
LEMMA NumbersStay ==
  ASSUME G!TypeOK, NumberInv, UNCHANGED <<format, lines>>,
         \A d \in Requests : stage[d] = "done" => stage'[d] = "done",
         \A d \in Requests : own'[d] = {} \/ (own'[d] = own[d] /\ stage'[d] = stage[d]),
         \A d \in Requests : stage[d] # "idle" => seen'[d] = seen[d],
         rows' \subseteq rows,
         set' = NoSet \/ (set # NoSet /\ rows' = rows)
  PROVE  NumberInv'
<1> USE DEF NumberInv
<1>1. \A r \in rows : r[1] \in Requests
  BY DEF G!TypeOK
<1>2. IsFiniteSet(rows') /\ \A r \in rows' : stage'[r[1]] = "done"
  BY <1>1, FS_Subset
<1>3. \A d \in Requests : stage[d] # "idle" =>
        G!Parsed(d)' = G!Parsed(d) /\ (G!Long(d)' <=> G!Long(d))
  BY ParsedStays
<1>4. ASSUME NEW d \in Requests
      PROVE  /\ IsFiniteSet(own'[d])
             /\ own'[d] # {} => stage'[d] = "locked" /\ Cardinality(own'[d]) <= G!Parsed(d)'
             /\ \A r \in own'[d] : r[1] = d /\ r[2] < Cardinality(own'[d])
             /\ \A r, s \in own'[d] : r[2] = s[2] => r = s
  <2>1. CASE own'[d] = {}
    BY <2>1, FS_EmptySet
  <2>2. CASE own'[d] = own[d] /\ own[d] # {} /\ stage'[d] = stage[d]
    <3>1. G!Parsed(d)' = G!Parsed(d)
      BY <1>3, <2>2
    <3> QED
      BY <2>2, <3>1
  <2> QED
    BY <2>1, <2>2
<1>5. ASSUME set' # NoSet
      PROVE  /\ \A r \in rows' : ~ G!Long(r[1])' => r[3] < Cardinality(rows')
             /\ \A d \in Requests :
                  /\ \A r \in own'[d] : r[3] < Cardinality(rows') + 2 * Cardinality(own'[d])
                  /\ \A r, s \in own'[d] : r[2] < s[2] => r[3] < s[3]
                  /\ own'[d] # {} /\ ~ G!Long(d)' =>
                       own'[d] = {<<d, i, Cardinality(rows') + i>> : i \in 0..(G!Parsed(d)' - 1)}
  <2>1. set # NoSet /\ rows' = rows
    BY <1>5
  <2>2. \A r \in rows : G!Long(r[1])' <=> G!Long(r[1])
    BY <1>1, <1>3
  <2>3. \A r \in rows' : ~ G!Long(r[1])' => r[3] < Cardinality(rows')
    BY <2>1, <2>2
  <2>4. ASSUME NEW d \in Requests, own'[d] # {}
        PROVE  /\ \A r \in own'[d] : r[3] < Cardinality(rows') + 2 * Cardinality(own'[d])
               /\ \A r, s \in own'[d] : r[2] < s[2] => r[3] < s[3]
               /\ ~ G!Long(d)' =>
                    own'[d] = {<<d, i, Cardinality(rows') + i>> : i \in 0..(G!Parsed(d)' - 1)}
    <3>1. own'[d] = own[d] /\ own[d] # {}
      BY <2>4
    <3>2. G!Parsed(d)' = G!Parsed(d) /\ (G!Long(d)' <=> G!Long(d))
      BY <1>3, <3>1
    <3> QED
      BY <2>1, <3>1, <3>2
  <2> QED
    BY <2>3, <2>4
<1>6. G!RowsAreNumbered'
  <2> SUFFICES ASSUME set' # NoSet
               PROVE  /\ (\A r \in rows' : ~ G!Long(r[1])')
                           => {r[3] : r \in rows'} = 0..(G!Cardinality(rows') - 1)
                      /\ \A r, s \in rows' :
                           /\ r[1] # s[1] /\ r[3] = s[3] => G!Long(r[1])' \/ G!Long(s[1])'
                           /\ r[1] = s[1] /\ r[2] < s[2] => r[3] < s[3]
                           /\ r[1] = s[1] /\ r[2] = s[2] => r = s
    BY CardinalityIs DEF G!RowsAreNumbered
  <2>1. set # NoSet /\ rows' = rows
    OBVIOUS
  <2>2. \A r \in rows : G!Long(r[1])' <=> G!Long(r[1])
    BY <1>1, <1>3
  <2> QED
    BY <2>1, <2>2, CardinalityIs DEF G!RowsAreNumbered
<1> QED
  BY <1>2, <1>4, <1>5, <1>6

LEMMA StagingInit == G!Init => StagingInv
<1> SUFFICES ASSUME G!Init PROVE StagingInv
  OBVIOUS
<1>1. set \in G!SetRow /\ set # NoSet /\ set.rowCount = 0 /\ rows = {} /\ ~ crossed
  <2>1. G!NewSet \in G!SetRow /\ G!NewSet.rowCount = 0
    BY DEF G!SetRow, G!NewSet
  <2>2. set = G!NewSet /\ rows = {} /\ ~ crossed
    BY DEF G!Init
  <2> QED
    BY <2>1, <2>2, StagingAssumption
<1>2. IsFiniteSet(rows) /\ Cardinality(rows) = 0 /\ G!Cardinality(rows) = 0
  BY <1>1, FS_EmptySet, CardinalityIs
<1>3. G!TypeOK
  <2>1. /\ format \in {"csv", "jsonl"}
        /\ op \in [Requests -> G!Ops]
        /\ lines \in [Requests -> 0..MaxLines]
    BY DEF G!Init
  <2>2. /\ stage \in [Requests -> G!Stages]
        /\ seen \in [Requests -> G!SetRow \cup {NoSet}]
        /\ read \in [Requests -> G!SetRow \cup {NoSet}]
    BY DEF G!Init, G!Stages, G!Over
  <2>3. /\ own \in [Requests -> SUBSET (Requests \X Nat \X Nat)]
        /\ erased \in [Requests -> SUBSET (Requests \X Nat \X Nat)]
        /\ prior \in [Requests -> SUBSET Requests]
        /\ lock \in Requests \cup {None}
        /\ crossed \in BOOLEAN
    BY DEF G!Init
  <2> QED
    BY <1>1, <2>1, <2>2, <2>3 DEF G!TypeOK
<1>4. NumberInv
  <2>1. \A c \in Requests : own[c] = {}
    BY DEF G!Init
  <2>2. G!RowsAreNumbered
    BY <1>1, <1>2 DEF G!RowsAreNumbered
  <2> QED
    BY <1>1, <1>2, <2>1, <2>2, FS_EmptySet DEF NumberInv
<1>5. G!DeleteTakesTheRows /\ G!TallyCountsRows /\ G!ThrownChunkShows
  BY <1>1, <1>2 DEF G!Init, G!DeleteTakesTheRows, G!TallyCountsRows, G!ThrownChunkShows
<1>6. /\ \A c \in Requests : stage[c] = "idle"
      /\ \A d \in Requests : prior[d] = {}
  BY DEF G!Init
<1>7. \A c \in Requests : op[c] = "chunk" => lines[c] > 0
  BY <1>3 DEF G!Init, G!TypeOK
<1> QED
  BY <1>3, <1>4, <1>5, <1>6, <1>7 DEF StagingInv

(* Steps that move a call and leave the set and its rows alone.            *)
LEMMA StagingQuiet ==
  ASSUME StagingInv, NEW c \in Requests, NEW then \in G!Stages,
         stage' = [stage EXCEPT ![c] = then],
         stage[c] \notin G!Over,
         UNCHANGED <<format, op, lines, set, rows, crossed>>,
         \/ UNCHANGED own /\ stage[c] # "locked"
         \/ own' = [own EXCEPT ![c] = {}],
         \/ UNCHANGED <<seen, prior>>
         \/ /\ stage[c] = "idle" /\ then \in {"loaded", "refused"}
            /\ \E loaded \in G!SetRow \cup {NoSet} : seen' = [seen EXCEPT ![c] = loaded]
            /\ \E past \in SUBSET {d \in Requests : stage[d] \in G!Over} :
                 prior' = [prior EXCEPT ![c] = past],
         \/ UNCHANGED erased /\ then # "cleared"
         \/ then = "cleared" /\ op[c] = "delete" /\ erased' = [erased EXCEPT ![c] = rows],
         \/ UNCHANGED read /\ then # "updating"
         \/ /\ read' = [read EXCEPT ![c] = set]
            /\ then = "updating" => set # NoSet /\ op[c] # "delete",
         \/ UNCHANGED lock /\ (then = "locked" => lock = c)
         \/ then = "locked" /\ lock = None /\ lock' = c
         \/ then # "locked" /\ lock' = (IF lock = c THEN None ELSE lock),
         then \in {"locked", "broken"} => op[c] = "chunk",
         then = "thrown" => set = NoSet
  PROVE  StagingInv'
<1> USE DEF StagingInv
<1>1. /\ stage'[c] = then
      /\ \A d \in Requests : d # c => stage'[d] = stage[d]
      /\ \A d \in Requests : stage[d] \in G!Over => stage'[d] = stage[d]
      /\ stage' \in [Requests -> G!Stages]
  BY DEF G!TypeOK
<1>2. G!TypeOK'
  <2>1. seen' \in [Requests -> G!SetRow \cup {NoSet}] /\ prior' \in [Requests -> SUBSET Requests]
    BY DEF G!TypeOK
  <2>2. erased' \in [Requests -> SUBSET (Requests \X Nat \X Nat)]
    BY DEF G!TypeOK
  <2>3. read' \in [Requests -> G!SetRow \cup {NoSet}] /\ lock' \in Requests \cup {None}
    BY DEF G!TypeOK
  <2>4. /\ format' \in {"csv", "jsonl"}
        /\ op' \in [Requests -> G!Ops]
        /\ lines' \in [Requests -> 0..MaxLines]
    BY DEF G!TypeOK
  <2>5. /\ set' \in G!SetRow \cup {NoSet}
        /\ set' # NoSet => set'.rowCount >= 0
        /\ rows' \subseteq Requests \X Nat \X Nat
        /\ crossed' \in BOOLEAN
    BY DEF G!TypeOK
  <2>6. own' \in [Requests -> SUBSET (Requests \X Nat \X Nat)]
    BY DEF G!TypeOK
  <2> HIDE DEF StagingInv
  <2> QED
    BY <1>1, <2>1, <2>2, <2>3, <2>4, <2>5, <2>6 DEF G!TypeOK
<1>3. \A d \in Requests : stage'[d] = "locked" => lock' = d
  BY <1>1, StagingAssumption
<1>4. NumberInv'
  <2>1. \A d \in Requests : stage[d] = "done" => stage'[d] = "done"
    BY <1>1 DEF G!Over
  <2>2. \A d \in Requests : own'[d] = {} \/ (own'[d] = own[d] /\ stage'[d] = stage[d])
    BY <1>1 DEF G!TypeOK, NumberInv
  <2>3. \A d \in Requests : stage[d] # "idle" => seen'[d] = seen[d]
    BY DEF G!TypeOK
  <2>4. G!TypeOK /\ NumberInv /\ UNCHANGED <<format, lines>> /\ rows' = rows /\ set' = set
    OBVIOUS
  <2> HIDE DEF StagingInv
  <2> QED
    BY <2>1, <2>2, <2>3, <2>4, NumbersStay
<1>5. \A d \in Requests :
        stage'[d] = "updating" =>
          /\ op'[d] # "delete"
          /\ read'[d] # NoSet /\ read'[d].rowCount >= 0
          /\ set' # NoSet /\ ~ crossed' => read'[d] = set'
  BY <1>1 DEF G!TypeOK
<1>6. /\ \A d \in Requests : stage'[d] \in {"locked", "broken"} => op'[d] = "chunk"
      /\ \A d \in Requests : stage'[d] = "cleared" => op'[d] = "delete"
      /\ \A d \in Requests : op'[d] = "chunk" => lines'[d] > 0
  BY <1>1
<1>7. \A d \in Requests : \A e \in prior'[d] : stage'[e] \in G!Over
  BY <1>1 DEF G!TypeOK
<1>8. \A d \in Requests :
        stage'[d] = "cleared" => \A r \in rows' : r[1] \in prior'[d] => r \in erased'[d]
  BY <1>1 DEF G!TypeOK
<1>9. G!TallyCountsRows'
  BY DEF G!TallyCountsRows
<1>10. G!DeleteTakesTheRows'
  <2> SUFFICES ASSUME set = NoSet
               PROVE  \E d \in Requests : /\ op[d] = "delete" /\ stage'[d] = "done"
                                          /\ \A r \in rows : r[1] \notin prior'[d]
    BY DEF G!DeleteTakesTheRows
  <2>1. PICK d \in Requests : /\ op[d] = "delete" /\ stage[d] = "done"
                              /\ \A r \in rows : r[1] \notin prior[d]
    BY DEF G!DeleteTakesTheRows
  <2>2. d # c /\ prior'[d] = prior[d]
    BY <2>1 DEF G!Over, G!TypeOK
  <2> QED
    BY <1>1, <2>1, <2>2
<1>11. G!ThrownChunkShows'
  BY <1>1 DEF G!ThrownChunkShows
<1> QED
  BY <1>2, <1>3, <1>4, <1>5, <1>6, <1>7, <1>8, <1>9, <1>10, <1>11

(* An INSERT takes the next lines, at most BatchSize, and numbers them     *)
(* above every row of the set and of the chunk.                            *)
LEMMA NumbersInsert ==
  ASSUME G!TypeOK, NumberInv, NEW c \in Requests, G!Parsed(c) \in Nat, G!InsertRows(c)
  PROVE  NumberInv' /\ own' \in [Requests -> SUBSET (Requests \X Nat \X Nat)]
<1> DEFINE k == G!Parsed(c)
           start == Cardinality(own[c])
           end == IF k < start + BatchSize THEN k ELSE start + BatchSize
           base == Cardinality(rows) + start
           more == {<<c, i, base + i>> : i \in start..(end - 1)}
<1>1. /\ stage[c] = "locked" /\ stage' = stage
      /\ UNCHANGED <<format, lines, seen, set, rows>>
  BY DEF G!InsertRows, G!Go, G!request, G!TypeOK
<1>2. /\ IsFiniteSet(own[c]) /\ IsFiniteSet(rows) /\ start \in Nat /\ Cardinality(rows) \in Nat
      /\ \A r \in own[c] : r[1] = c /\ r[2] < start
      /\ \A r, s \in own[c] : r[2] = s[2] => r = s
  BY FS_CardinalityType DEF NumberInv
<1>3. Cardinality(rows \cup own[c]) = base
  <2>1. \A r \in own[c] : r \notin rows
    BY <1>1 DEF NumberInv
  <2>2. rows \cap own[c] = {}
    BY <2>1
  <2>3. Cardinality(rows \cup own[c]) = Cardinality(rows) + Cardinality(own[c]) - Cardinality(rows \cap own[c])
    BY <1>2, FS_Union
  <2> QED
    BY <1>2, <2>2, <2>3, FS_EmptySet
<1>4. start < k /\ own' = [own EXCEPT ![c] = @ \cup more]
  BY <1>3, CardinalityIs DEF G!InsertRows, G!Row
<1>5. /\ k \in Nat /\ BatchSize \in Nat /\ BatchSize > 0 /\ end \in Nat /\ base \in Nat
      /\ start < end /\ end <= k
      /\ G!Long(c) <=> k > BatchSize
  BY <1>2, <1>4, StagingAssumption DEF G!Long
<1>6. ~ G!Long(c) /\ start = 0 => end = k
  BY <1>2, <1>5
<1> HIDE DEF k, end
<1>7. /\ \A r \in more : /\ r \in Requests \X Nat \X Nat
                         /\ r[1] = c /\ r[2] \in start..(end - 1) /\ r[3] = base + r[2]
      /\ \A r, s \in more : r[2] = s[2] => r = s
  BY <1>2, <1>5
<1>8. own'[c] = own[c] \cup more /\ \A d \in Requests : d # c => own'[d] = own[d]
  BY <1>4 DEF G!TypeOK
<1>9. IsFiniteSet(own'[c]) /\ Cardinality(own'[c]) = end
  <2>1. IsFiniteSet(start..(end - 1)) /\ Cardinality(start..(end - 1)) = end - start
    <3>1. \A a, b \in Int : IsFiniteSet(a..b) /\ Cardinality(a..b) = IF a > b THEN 0 ELSE b - a + 1
      BY FS_Interval
    <3>2. start \in Int /\ end - 1 \in Int /\ ~ (start > end - 1)
      BY <1>2, <1>5
    <3> QED
      BY <1>2, <1>5, <3>1, <3>2
  <2>2. IsFiniteSet(more) /\ Cardinality(more) = Cardinality(start..(end - 1))
    <3> DEFINE lots == start..(end - 1)
               f == [i \in lots |-> <<c, i, base + i>>]
    <3>1. f \in [lots -> more] /\ \A i \in lots : f[i][2] = i
      OBVIOUS
    <3>2. \A r \in more : \E i \in lots : f[i] = r
      OBVIOUS
    <3> HIDE DEF f, lots, more
    <3>3. f \in Bijection(lots, more)
      BY <3>1, <3>2 DEF Bijection, Injection, Surjection, IsInjective
    <3>4. ExistsBijection(lots, more)
      BY <3>3 DEF ExistsBijection
    <3> QED
      BY <2>1, <3>4, FS_Bijection DEF lots
  <2>3. own[c] \cap more = {}
    BY <1>2, <1>5, <1>7
  <2>4. /\ IsFiniteSet(own[c] \cup more)
        /\ Cardinality(own[c] \cup more) = Cardinality(own[c]) + Cardinality(more) - Cardinality(own[c] \cap more)
    BY <1>2, <2>2, FS_Union
  <2>5. Cardinality(own[c] \cap more) = 0
    BY <2>3, FS_EmptySet
  <2> QED
    BY <1>2, <1>5, <1>8, <2>1, <2>2, <2>4, <2>5
<1> HIDE DEF more
<1>10. \A d \in Requests : G!Parsed(d)' = G!Parsed(d) /\ (G!Long(d)' <=> G!Long(d))
  BY <1>1, ParsedStays
<1>11. ASSUME NEW d \in Requests
       PROVE  /\ IsFiniteSet(own'[d])
              /\ own'[d] # {} => stage'[d] = "locked" /\ Cardinality(own'[d]) <= G!Parsed(d)'
              /\ \A r \in own'[d] : r[1] = d /\ r[2] < Cardinality(own'[d])
              /\ \A r, s \in own'[d] : r[2] = s[2] => r = s
  <2>1. CASE d # c
    BY <1>1, <1>8, <1>10, <2>1 DEF NumberInv
  <2>2. CASE d = c
    <3>1. \A r \in own'[c] : r[1] = c /\ r[2] < end
      BY <1>2, <1>5, <1>7, <1>8, <1>9 DEF G!TypeOK
    <3>2. \A r, s \in own'[c] : r[2] = s[2] => r = s
      BY <1>2, <1>5, <1>7, <1>8
    <3>3. Cardinality(own'[c]) <= G!Parsed(c)'
      BY <1>5, <1>9, <1>10 DEF k
    <3> QED
      BY <1>1, <1>9, <2>2, <3>1, <3>2, <3>3
  <2> QED
    BY <2>1, <2>2
<1>12. ASSUME set # NoSet, NEW d \in Requests
       PROVE  /\ \A r \in own'[d] : r[3] < Cardinality(rows) + 2 * Cardinality(own'[d])
              /\ \A r, s \in own'[d] : r[2] < s[2] => r[3] < s[3]
              /\ own'[d] # {} /\ ~ G!Long(d)' =>
                   own'[d] = {<<d, i, Cardinality(rows) + i>> : i \in 0..(G!Parsed(d)' - 1)}
  <2>1. CASE d # c
    BY <1>8, <1>10, <1>12, <2>1 DEF NumberInv
  <2>2. CASE d = c
    <3>1. /\ \A r \in own[c] : /\ r[2] \in Nat /\ r[3] \in Nat /\ r[2] < start
                               /\ r[3] < Cardinality(rows) + 2 * start
          /\ \A r, s \in own[c] : r[2] < s[2] => r[3] < s[3]
      BY <1>2, <1>12 DEF NumberInv, G!TypeOK
    <3>2. \A r \in more : /\ r[2] \in Nat /\ r[2] >= start /\ r[2] < end
                          /\ r[3] = Cardinality(rows) + start + r[2]
      BY <1>2, <1>5, <1>7
    <3>3. \A r \in own'[c] : r[3] < Cardinality(rows) + 2 * end
      BY <1>2, <1>5, <1>8, <3>1, <3>2
    <3>4. \A r, s \in own'[c] : r[2] < s[2] => r[3] < s[3]
      BY <1>2, <1>5, <1>8, <3>1, <3>2
    <3>5. ASSUME ~ G!Long(c)
          PROVE  own'[c] = {<<c, i, Cardinality(rows) + i>> : i \in 0..(k - 1)}
      <4>1. ASSUME own[c] # {} PROVE FALSE
        <5>1. own[c] = {<<c, i, Cardinality(rows) + i>> : i \in 0..(k - 1)}
          BY <1>12, <3>5, <4>1 DEF NumberInv, k
        <5>2. <<c, k - 1, Cardinality(rows) + (k - 1)>> \in own[c]
          BY <1>2, <1>4, <1>5, <5>1
        <5>3. k - 1 < start
          BY <1>2, <5>2
        <5> QED
          BY <1>2, <1>4, <1>5, <5>3
      <4>2. start = 0 /\ own'[c] = more
        BY <1>8, <4>1, FS_EmptySet
      <4>3. end = k /\ base = Cardinality(rows)
        BY <1>2, <1>6, <3>5, <4>2
      <4> QED
        BY <4>2, <4>3 DEF more
    <3> QED
      BY <1>9, <1>10, <2>2, <3>3, <3>4, <3>5 DEF k
  <2> QED
    BY <2>1, <2>2
<1>13. G!RowsAreNumbered'
  <2>1. \A r \in rows : G!Long(r[1])' <=> G!Long(r[1])
    BY <1>10 DEF G!TypeOK
  <2>2. G!RowsAreNumbered
    BY DEF NumberInv
  <2> QED
    BY <1>1, <2>1, <2>2 DEF G!RowsAreNumbered
<1>14. set' # NoSet => \A r \in rows' : ~ G!Long(r[1])' => r[3] < Cardinality(rows')
  <2>1. \A r \in rows : G!Long(r[1])' <=> G!Long(r[1])
    BY <1>10 DEF G!TypeOK
  <2> QED
    BY <1>1, <2>1 DEF NumberInv
<1>15. IsFiniteSet(rows') /\ \A r \in rows' : stage'[r[1]] = "done"
  BY <1>1 DEF NumberInv
<1>16. NumberInv'
  BY <1>1, <1>11, <1>12, <1>13, <1>14, <1>15 DEF NumberInv
<1>17. own' \in [Requests -> SUBSET (Requests \X Nat \X Nat)]
  BY <1>4, <1>7 DEF G!TypeOK
<1> QED
  BY <1>16, <1>17

LEMMA StagingInsert == ASSUME StagingInv, NEW c \in Requests, G!InsertRows(c) PROVE StagingInv'
<1> USE DEF StagingInv
<1>1. /\ stage' = stage
      /\ UNCHANGED <<format, op, lines, seen, read, erased, prior, lock, set, rows, crossed>>
  BY DEF G!InsertRows, G!Go, G!request, G!TypeOK
<1>2. NumberInv' /\ own' \in [Requests -> SUBSET (Requests \X Nat \X Nat)]
  <2>1. G!TypeOK /\ NumberInv
    OBVIOUS
  <2>2. G!Parsed(c) \in Nat
    BY ParsedType DEF G!InsertRows
  <2> HIDE DEF StagingInv
  <2> QED
    BY <2>1, <2>2, NumbersInsert
<1>3. G!TypeOK'
  <2>1. G!TypeOK
    OBVIOUS
  <2> HIDE DEF StagingInv
  <2> QED
    BY <1>1, <1>2, <2>1 DEF G!TypeOK
<1>4. G!TallyCountsRows' /\ G!DeleteTakesTheRows' /\ G!ThrownChunkShows'
  BY <1>1 DEF G!TallyCountsRows, G!DeleteTakesTheRows, G!ThrownChunkShows
<1> QED
  BY <1>1, <1>2, <1>3, <1>4

(* The rows a chunk commits come after those the set has: a chunk of one   *)
(* INSERT takes the next numbers, since it holds the lock from the count   *)
(* to the commit.                                                          *)
LEMMA NumbersCommit ==
  ASSUME G!TypeOK, NumberInv, NEW c \in Requests, G!Parsed(c) \in Nat, G!Commit(c),
         \A d \in Requests : stage[d] = "locked" => d = c
  PROVE  /\ NumberInv'
         /\ rows' \subseteq Requests \X Nat \X Nat
         /\ Cardinality(rows') = Cardinality(rows) + G!Parsed(c)
<1> DEFINE k == G!Parsed(c)
           base == Cardinality(rows)
<1>1. /\ stage[c] = "locked" /\ Cardinality(own[c]) = k
      /\ rows' = rows \cup own[c] /\ own' = [own EXCEPT ![c] = {}]
      /\ set' # NoSet => set # NoSet
      /\ UNCHANGED <<format, lines, seen>>
  BY CardinalityIs DEF G!Commit, G!Go, G!request
<1>2. stage'[c] = "done" /\ \A d \in Requests : d # c => stage'[d] = stage[d]
  BY DEF G!Commit, G!Go, G!TypeOK
<1>3. \A d \in Requests : own'[d] = {}
  <2>1. \A d \in Requests : d # c => own[d] = {}
    BY DEF NumberInv
  <2> QED
    BY <1>1, <2>1 DEF G!TypeOK
<1>4. /\ IsFiniteSet(own[c]) /\ IsFiniteSet(rows) /\ k \in Nat /\ base \in Nat
      /\ \A r \in rows : r[1] \in Requests /\ r[3] \in Nat /\ stage[r[1]] = "done" /\ r[1] # c
      /\ \A r \in own[c] : r[1] = c /\ r[3] \in Nat
      /\ \A r, s \in own[c] : r[2] = s[2] => r = s
  BY <1>1, FS_CardinalityType DEF NumberInv, G!TypeOK
<1>5. IsFiniteSet(rows') /\ Cardinality(rows') = base + k
  <2>1. rows \cap own[c] = {}
    BY <1>4
  <2>2. /\ IsFiniteSet(rows \cup own[c])
        /\ Cardinality(rows \cup own[c]) = base + Cardinality(own[c]) - Cardinality(rows \cap own[c])
    BY <1>4, FS_Union
  <2>3. Cardinality(rows \cap own[c]) = 0
    BY <2>1, FS_EmptySet
  <2> QED
    BY <1>1, <1>4, <2>2, <2>3
<1>6. \A d \in Requests : G!Long(d)' <=> G!Long(d)
  BY <1>1, ParsedStays
<1>7. \A r \in rows' : r[1] \in Requests /\ stage'[r[1]] = "done" /\ (G!Long(r[1])' <=> G!Long(r[1]))
  BY <1>1, <1>2, <1>4, <1>6
<1>8. ASSUME set # NoSet, ~ G!Long(c)
      PROVE  /\ own[c] = {<<c, i, base + i>> : i \in 0..(k - 1)}
             /\ \A r \in own[c] : r[3] >= base /\ r[3] < base + k
             /\ {r[3] : r \in own[c]} = base..(base + k - 1)
  <2>1. own[c] = {<<c, i, base + i>> : i \in 0..(k - 1)}
    <3>1. CASE own[c] = {}
      <4>1. k = 0
        BY <1>1, <3>1, FS_EmptySet
      <4> QED
        BY <3>1, <4>1
    <3>2. CASE own[c] # {}
      BY <1>8, <3>2 DEF NumberInv
    <3> QED
      BY <3>1, <3>2
  <2>2. \A r \in own[c] : r[3] >= base /\ r[3] < base + k
    BY <1>4, <2>1
  <2>3. \A j \in base..(base + k - 1) : j - base \in 0..(k - 1) /\ base + (j - base) = j
    BY <1>4
  <2>4. \A j \in base..(base + k - 1) : \E r \in own[c] : r[3] = j
    <3> SUFFICES ASSUME NEW j \in base..(base + k - 1) PROVE \E r \in own[c] : r[3] = j
      OBVIOUS
    <3>1. <<c, j - base, base + (j - base)>> \in own[c]
      BY <2>1, <2>3
    <3> QED
      BY <2>3, <3>1
  <2>5. {r[3] : r \in own[c]} \subseteq base..(base + k - 1)
    BY <1>4, <2>2
  <2> QED
    BY <2>1, <2>2, <2>4, <2>5
<1>9. set' # NoSet => \A r \in rows' : ~ G!Long(r[1])' => r[3] < Cardinality(rows')
  <2> SUFFICES ASSUME set # NoSet, NEW r \in rows', ~ G!Long(r[1])
               PROVE  r[3] < base + k
    BY <1>1, <1>5, <1>7
  <2>1. CASE r \in rows
    <3>1. r[3] < base
      BY <2>1 DEF NumberInv
    <3> QED
      BY <1>4, <2>1, <3>1
  <2>2. CASE r \in own[c]
    BY <1>4, <1>8, <2>2
  <2> QED
    BY <1>1, <2>1, <2>2
<1> HIDE DEF k, base
<1>10. ASSUME set # NoSet, \A r \in rows' : ~ G!Long(r[1])
       PROVE  {r[3] : r \in rows'} = 0..(base + k - 1)
  <2>1. {r[3] : r \in rows} = 0..(base - 1)
    BY <1>1, <1>10, CardinalityIs DEF NumberInv, G!RowsAreNumbered, base
  <2>2. {r[3] : r \in own[c]} = base..(base + k - 1)
    <3>1. CASE own[c] = {}
      <4>1. k = 0
        BY <1>1, <3>1, FS_EmptySet
      <4> QED
        BY <1>4, <3>1, <4>1
    <3>2. CASE own[c] # {}
      <4>1. ~ G!Long(c)
        BY <1>1, <1>4, <1>10, <3>2
      <4> QED
        BY <1>8, <1>10, <4>1
    <3> QED
      BY <3>1, <3>2
  <2>3. {r[3] : r \in rows'} = {r[3] : r \in rows} \cup {r[3] : r \in own[c]}
    BY <1>1
  <2>4. 0..(base - 1) \cup base..(base + k - 1) = 0..(base + k - 1)
    BY <1>4
  <2> QED
    BY <2>1, <2>2, <2>3, <2>4
<1>11. ASSUME set # NoSet, NEW r \in rows', NEW s \in rows'
       PROVE  /\ r[1] # s[1] /\ r[3] = s[3] => G!Long(r[1]) \/ G!Long(s[1])
              /\ r[1] = s[1] /\ r[2] < s[2] => r[3] < s[3]
              /\ r[1] = s[1] /\ r[2] = s[2] => r = s
  <2>1. CASE r \in rows /\ s \in rows
    BY <1>11, <2>1 DEF NumberInv, G!RowsAreNumbered
  <2>2. CASE r \in own[c] /\ s \in own[c]
    BY <1>4, <1>11, <2>2 DEF NumberInv
  <2>3. ASSUME NEW a \in rows, NEW b \in own[c]
        PROVE  a[1] # b[1] /\ (a[3] = b[3] => G!Long(a[1]) \/ G!Long(b[1]))
    <3>1. a[1] # b[1] /\ b[1] = c
      BY <1>4
    <3>2. ~ G!Long(a[1]) => a[3] < base
      BY <1>11 DEF NumberInv, base
    <3>3. ~ G!Long(c) => b[3] >= base
      BY <1>8, <1>11
    <3> QED
      BY <1>4, <3>1, <3>2, <3>3
  <2>4. CASE r \in rows /\ s \in own[c]
    BY <2>3, <2>4
  <2>5. CASE r \in own[c] /\ s \in rows
    BY <2>3, <2>5
  <2> QED
    BY <1>1, <2>1, <2>2, <2>4, <2>5
<1>12. G!RowsAreNumbered'
  <2> SUFFICES ASSUME set' # NoSet
               PROVE  /\ (\A r \in rows' : ~ G!Long(r[1])')
                           => {r[3] : r \in rows'} = 0..(G!Cardinality(rows') - 1)
                      /\ \A r, s \in rows' :
                           /\ r[1] # s[1] /\ r[3] = s[3] => G!Long(r[1])' \/ G!Long(s[1])'
                           /\ r[1] = s[1] /\ r[2] < s[2] => r[3] < s[3]
                           /\ r[1] = s[1] /\ r[2] = s[2] => r = s
    BY CardinalityIs DEF G!RowsAreNumbered
  <2>1. set # NoSet
    BY <1>1
  <2>2. G!Cardinality(rows') - 1 = base + k - 1
    <3>1. G!Cardinality(rows') = Cardinality(rows')
      BY CardinalityIs
    <3>2. Cardinality(rows') = base + k
      BY <1>5 DEF k, base
    <3>3. base \in Nat /\ k \in Nat
      BY <1>4
    <3> QED
      BY <3>1, <3>2, <3>3
  <2>3. (\A r \in rows' : ~ G!Long(r[1])') => {r[3] : r \in rows'} = 0..(G!Cardinality(rows') - 1)
    BY <1>7, <1>10, <2>1, <2>2
  <2> QED
    BY <1>7, <1>11, <2>1, <2>3
<1>13. NumberInv'
  <2>1. \A d \in Requests : IsFiniteSet(own'[d])
    BY <1>3, FS_EmptySet
  <2> QED
    BY <1>3, <1>5, <1>7, <1>9, <1>12, <2>1 DEF NumberInv
<1>14. rows' \subseteq Requests \X Nat \X Nat
  BY <1>1 DEF G!TypeOK
<1> QED
  BY <1>5, <1>13, <1>14 DEF k, base

(* What is committed is tallied, if the set is there.                      *)
LEMMA StagingCommit == ASSUME StagingInv, NEW c \in Requests, G!Commit(c) PROVE StagingInv'
<1> DEFINE k == G!Parsed(c)
<1>1. /\ stage[c] = "locked" /\ lock = c /\ lock' = None /\ rows' = rows \cup own[c]
      /\ own' = [own EXCEPT ![c] = {}]
      /\ UNCHANGED <<format, op, lines, seen, read, erased, prior>>
  BY DEF G!Commit, G!Go, G!request, StagingInv
<1>2. /\ stage'[c] = "done" /\ stage' \in [Requests -> G!Stages]
      /\ \A d \in Requests : d # c => stage'[d] = stage[d] /\ stage[d] # "locked"
      /\ \A d \in Requests : stage[d] \in G!Over => stage'[d] = stage[d]
  BY <1>1 DEF G!Commit, G!Go, StagingInv, G!TypeOK, G!Stages, G!Over
<1>3. k \in Nat
  BY <1>1, ParsedType DEF StagingInv
<1>4. /\ NumberInv'
      /\ rows' \subseteq Requests \X Nat \X Nat
      /\ Cardinality(rows') = Cardinality(rows) + k
  <2>1. G!TypeOK /\ NumberInv
    BY DEF StagingInv
  <2>2. \A d \in Requests : stage[d] = "locked" => d = c
    BY <1>2
  <2> QED
    BY <1>3, <2>1, <2>2, NumbersCommit
<1> HIDE DEF k
<1>5. set # NoSet => /\ set' # NoSet /\ set' \in G!SetRow
                     /\ set'.rowCount = set.rowCount + k /\ set'.rowCount >= 0
                     /\ set'.state = set.state
  <2> SUFFICES ASSUME set # NoSet
               PROVE  /\ set' # NoSet /\ set' \in G!SetRow
                      /\ set'.rowCount = set.rowCount + k /\ set'.rowCount >= 0
                      /\ set'.state = set.state
    OBVIOUS
  <2>1. set \in G!SetRow /\ set.rowCount >= 0
    BY DEF StagingInv, G!TypeOK
  <2>2. set' = G!Tally(c)
    BY DEF G!Commit
  <2>3. set' = [state |-> set.state, rowCount |-> set.rowCount + k,
                header |-> IF G!IsFirst(c) THEN c ELSE set.header, sensitive |-> set.sensitive]
    BY <2>1, <2>2 DEF G!Tally, G!SetRow, k
  <2>4. /\ set' \in G!SetRow
        /\ set'.rowCount = set.rowCount + k /\ set'.state = set.state
    BY <1>3, <2>1, <2>3 DEF G!SetRow
  <2> QED
    BY <1>3, <2>1, <2>4, StagingAssumption DEF G!SetRow
<1>6. set = NoSet => set' = NoSet
  BY DEF G!Commit
<1>7. crossed' \in BOOLEAN /\ (~ crossed' => ~ crossed /\ \A d \in Requests : stage[d] # "updating")
  BY DEF G!Commit, StagingInv, G!TypeOK
<1>8. G!TypeOK'
  <2>1. G!TypeOK
    BY DEF StagingInv
  <2>2. set' \in G!SetRow \cup {NoSet} /\ (set' # NoSet => set'.rowCount >= 0)
    BY <1>5, <1>6
  <2>3. own' \in [Requests -> SUBSET (Requests \X Nat \X Nat)] /\ lock' \in Requests \cup {None}
    BY <1>1, <2>1 DEF G!TypeOK
  <2> QED
    BY <1>1, <1>2, <1>4, <1>7, <2>1, <2>2, <2>3 DEF G!TypeOK
<1>9. G!TallyCountsRows'
  <2> SUFFICES ASSUME set # NoSet, ~ crossed'
               PROVE  set'.rowCount = Cardinality(rows')
    BY <1>6, CardinalityIs DEF G!TallyCountsRows
  <2>1. set.rowCount = Cardinality(rows)
    BY <1>7, CardinalityIs DEF StagingInv, G!TallyCountsRows
  <2> QED
    BY <1>4, <1>5, <2>1
<1>10. G!ThrownChunkShows'
  BY <1>2, <1>5, <1>6, <1>7 DEF StagingInv, G!ThrownChunkShows
<1>11. /\ \A d \in Requests : c \notin prior[d]
       /\ \A r \in own[c] : r[1] = c
  BY <1>1 DEF StagingInv, NumberInv, G!Over
<1>12. G!DeleteTakesTheRows'
  <2> SUFFICES ASSUME set = NoSet
               PROVE  \E d \in Requests : /\ op[d] = "delete" /\ stage'[d] = "done"
                                          /\ \A r \in rows' : r[1] \notin prior[d]
    BY <1>1, <1>5 DEF G!DeleteTakesTheRows
  <2>1. PICK d \in Requests : /\ op[d] = "delete" /\ stage[d] = "done"
                              /\ \A r \in rows : r[1] \notin prior[d]
    BY DEF StagingInv, G!DeleteTakesTheRows
  <2>2. stage'[d] = "done"
    BY <1>2, <2>1 DEF G!Over
  <2>3. \A r \in rows' : r[1] \notin prior[d]
    BY <1>1, <1>11, <2>1
  <2> QED
    BY <2>1, <2>2, <2>3
<1>13. \A d \in Requests : stage'[d] = "locked" => lock' = d
  BY <1>2
<1>14. /\ \A d \in Requests :
            stage'[d] = "updating" =>
              /\ op'[d] # "delete"
              /\ read'[d] # NoSet /\ read'[d].rowCount >= 0
              /\ set' # NoSet /\ ~ crossed' => read'[d] = set'
       /\ \A d \in Requests : stage'[d] \in {"locked", "broken"} => op'[d] = "chunk"
       /\ \A d \in Requests : stage'[d] = "cleared" => op'[d] = "delete"
       /\ \A d \in Requests : op'[d] = "chunk" => lines'[d] > 0
  BY <1>1, <1>2, <1>7 DEF StagingInv
<1>15. /\ \A d \in Requests : \A e \in prior'[d] : stage'[e] \in G!Over
       /\ \A d \in Requests :
            stage'[d] = "cleared" => \A r \in rows' : r[1] \in prior'[d] => r \in erased'[d]
  <2>1. \A d \in Requests : \A e \in prior[d] : e \in Requests /\ stage[e] \in G!Over
    BY DEF StagingInv, G!TypeOK
  <2>2. \A d \in Requests : \A e \in prior'[d] : stage'[e] \in G!Over
    BY <1>1, <1>2, <2>1
  <2>3. \A d \in Requests : stage'[d] = "cleared" => stage[d] = "cleared"
    BY <1>2
  <2> QED
    BY <1>1, <1>11, <2>2, <2>3 DEF StagingInv
<1> QED
  BY <1>4, <1>8, <1>9, <1>10, <1>12, <1>13, <1>14, <1>15 DEF StagingInv

(* An update writes back what it read, which is the set unless crossed.    *)
LEMMA StagingWrite == ASSUME StagingInv, NEW c \in Requests, G!Write(c) PROVE StagingInv'
<1>1. /\ stage[c] = "updating"
      /\ UNCHANGED <<format, op, lines, seen, read, own, erased, prior, lock, rows>>
  BY DEF G!Write, G!Go, G!request
<1>2. /\ stage'[c] = G!Ended(c) /\ stage' \in [Requests -> G!Stages]
      /\ \A d \in Requests : d # c => stage'[d] = stage[d]
      /\ \A d \in Requests : stage[d] \in G!Over => stage'[d] = stage[d]
      /\ G!Ended(c) \in {"done", "thrown"} /\ (G!Ended(c) = "thrown" => op[c] = "chunk")
  BY <1>1 DEF G!Write, G!Go, StagingInv, G!TypeOK, G!Ended, G!Stages, G!Over
<1>3. /\ op[c] \in {"chunk", "finish", "sensitive"}
      /\ read[c] \in G!SetRow /\ read[c].rowCount >= 0
      /\ set # NoSet /\ ~ crossed => read[c] = set
  BY <1>1 DEF StagingInv, G!TypeOK, G!Ops
<1>4. /\ G!Patched(c) \in G!SetRow /\ G!Patched(c).rowCount = read[c].rowCount
      /\ op[c] = "chunk" => G!Patched(c).state = "failed"
      /\ read[c].state # "importing" => G!Patched(c).state # "importing"
  <2>1. CASE op[c] = "chunk"
    BY <1>3, <2>1 DEF G!Patched, G!SetRow
  <2>2. CASE op[c] = "finish"
    BY <1>3, <2>2 DEF G!Patched, G!SetRow
  <2>3. CASE op[c] = "sensitive"
    BY <1>3, <2>3 DEF G!Patched, G!SetRow
  <2> QED
    BY <1>3, <2>1, <2>2, <2>3
<1>5. /\ set # NoSet => set' # NoSet /\ set' = G!Patched(c)
      /\ set = NoSet => set' = NoSet
  BY <1>4, StagingAssumption DEF G!Write
<1>6. crossed' \in BOOLEAN /\ (~ crossed' => ~ crossed /\ \A d \in Requests \ {c} : stage[d] # "updating")
  BY DEF G!Write, StagingInv, G!TypeOK
<1>7. G!TypeOK'
  <2>1. G!TypeOK
    BY DEF StagingInv
  <2>2. set' \in G!SetRow \cup {NoSet} /\ (set' # NoSet => set'.rowCount >= 0)
    BY <1>3, <1>4, <1>5
  <2> QED
    BY <1>1, <1>2, <1>6, <2>1, <2>2 DEF G!TypeOK
<1>8. NumberInv'
  <2>1. \A d \in Requests : stage[d] = "done" => stage'[d] = "done"
    BY <1>2 DEF G!Over
  <2>2. \A d \in Requests : own'[d] = {} \/ (own'[d] = own[d] /\ stage'[d] = stage[d])
    BY <1>1, <1>2 DEF StagingInv, NumberInv
  <2>3. set' = NoSet \/ (set # NoSet /\ rows' = rows)
    BY <1>1, <1>5
  <2>4. G!TypeOK /\ NumberInv
    BY DEF StagingInv
  <2> QED
    BY <1>1, <2>1, <2>2, <2>3, <2>4, NumbersStay
<1>9. G!TallyCountsRows'
  BY <1>1, <1>3, <1>4, <1>5, <1>6 DEF StagingInv, G!TallyCountsRows
<1>10. G!ThrownChunkShows'
  BY <1>2, <1>3, <1>4, <1>5, <1>6 DEF StagingInv, G!ThrownChunkShows
<1>11. G!DeleteTakesTheRows'
  <2> SUFFICES ASSUME set = NoSet
               PROVE  \E d \in Requests : /\ op[d] = "delete" /\ stage'[d] = "done"
                                          /\ \A r \in rows : r[1] \notin prior[d]
    BY <1>1, <1>5 DEF G!DeleteTakesTheRows
  <2> QED
    BY <1>2 DEF StagingInv, G!DeleteTakesTheRows, G!Over
<1>12. \A d \in Requests : stage'[d] = "locked" => lock' = d
  BY <1>1, <1>2 DEF StagingInv
<1>13. /\ \A d \in Requests :
            stage'[d] = "updating" =>
              /\ op'[d] # "delete"
              /\ read'[d] # NoSet /\ read'[d].rowCount >= 0
              /\ set' # NoSet /\ ~ crossed' => read'[d] = set'
       /\ \A d \in Requests : stage'[d] \in {"locked", "broken"} => op'[d] = "chunk"
       /\ \A d \in Requests : stage'[d] = "cleared" => op'[d] = "delete"
       /\ \A d \in Requests : op'[d] = "chunk" => lines'[d] > 0
  BY <1>1, <1>2, <1>6 DEF StagingInv
<1>14. /\ \A d \in Requests : \A e \in prior'[d] : stage'[e] \in G!Over
       /\ \A d \in Requests :
            stage'[d] = "cleared" => \A r \in rows' : r[1] \in prior'[d] => r \in erased'[d]
  BY <1>1, <1>2 DEF StagingInv, G!TypeOK
<1> QED
  BY <1>1, <1>7, <1>8, <1>9, <1>10, <1>11, <1>12, <1>13, <1>14 DEF StagingInv

(* A delete takes the rows it found.  It found those of every request that *)
(* had ended when it began: later ones are of requests under way then.     *)
LEMMA StagingDelete == ASSUME StagingInv, NEW c \in Requests, G!DeleteSet(c) PROVE StagingInv'
<1>1. /\ stage[c] = "cleared" /\ op[c] = "delete" /\ set' = NoSet /\ rows' = rows \ erased[c]
      /\ UNCHANGED <<format, op, lines, seen, read, own, erased, prior, lock, crossed>>
  BY DEF G!DeleteSet, G!Go, G!request, StagingInv
<1>2. /\ stage'[c] = "done" /\ stage' \in [Requests -> G!Stages]
      /\ \A d \in Requests : d # c => stage'[d] = stage[d]
      /\ \A d \in Requests : stage[d] \in G!Over => stage'[d] = stage[d]
  BY <1>1 DEF G!DeleteSet, G!Go, StagingInv, G!TypeOK, G!Stages, G!Over
<1>3. G!TypeOK'
  <2>1. G!TypeOK
    BY DEF StagingInv
  <2> QED
    BY <1>1, <1>2, <2>1 DEF G!TypeOK
<1>4. G!DeleteTakesTheRows'
  <2>1. \A r \in rows' : r[1] \notin prior[c]
    BY <1>1 DEF StagingInv
  <2> QED
    BY <1>1, <1>2, <2>1 DEF G!DeleteTakesTheRows
<1>5. G!TallyCountsRows' /\ G!ThrownChunkShows'
  BY <1>1 DEF G!TallyCountsRows, G!ThrownChunkShows
<1>6. NumberInv'
  <2>1. \A d \in Requests : stage[d] = "done" => stage'[d] = "done"
    BY <1>2 DEF G!Over
  <2>2. \A d \in Requests : own'[d] = {} \/ (own'[d] = own[d] /\ stage'[d] = stage[d])
    BY <1>1, <1>2 DEF StagingInv, NumberInv
  <2>3. rows' \subseteq rows
    BY <1>1
  <2>4. G!TypeOK /\ NumberInv
    BY DEF StagingInv
  <2> QED
    BY <1>1, <2>1, <2>2, <2>3, <2>4, NumbersStay
<1>7. \A d \in Requests : stage'[d] = "locked" => lock' = d
  BY <1>1, <1>2 DEF StagingInv
<1>8. /\ \A d \in Requests :
           stage'[d] = "updating" =>
             /\ op'[d] # "delete"
             /\ read'[d] # NoSet /\ read'[d].rowCount >= 0
             /\ set' # NoSet /\ ~ crossed' => read'[d] = set'
      /\ \A d \in Requests : stage'[d] \in {"locked", "broken"} => op'[d] = "chunk"
      /\ \A d \in Requests : stage'[d] = "cleared" => op'[d] = "delete"
      /\ \A d \in Requests : op'[d] = "chunk" => lines'[d] > 0
  BY <1>1, <1>2 DEF StagingInv
<1>9. /\ \A d \in Requests : \A e \in prior'[d] : stage'[e] \in G!Over
      /\ \A d \in Requests :
           stage'[d] = "cleared" => \A r \in rows' : r[1] \in prior'[d] => r \in erased'[d]
  BY <1>1, <1>2 DEF StagingInv, G!TypeOK
<1> QED
  BY <1>3, <1>4, <1>5, <1>6, <1>7, <1>8, <1>9 DEF StagingInv

LEMMA StagingStep ==
  ASSUME StagingInv, NEW c \in Requests,
         \/ G!Load(c) \/ G!Lock(c) \/ G!InsertRows(c) \/ G!Commit(c) \/ G!Throw(c)
         \/ G!Select(c) \/ G!Write(c) \/ G!DeleteRows(c) \/ G!DeleteSet(c) \/ G!Die(c)
  PROVE  StagingInv'
<1>1. CASE G!Load(c)
  <2>1. PICK then \in {"loaded", "refused"} : stage' = [stage EXCEPT ![c] = then]
    BY <1>1 DEF G!Load, G!Go
  <2>2. /\ stage[c] = "idle"
        /\ \E loaded \in G!SetRow \cup {NoSet} : seen' = [seen EXCEPT ![c] = loaded]
    BY <1>1 DEF G!Load, StagingInv, G!TypeOK
  <2>3. \E past \in SUBSET {d \in Requests : stage[d] \in G!Over} :
          prior' = [prior EXCEPT ![c] = past]
    BY <1>1 DEF G!Load
  <2>4. UNCHANGED <<format, op, lines, set, rows, crossed>> /\ UNCHANGED <<own, erased, read, lock>>
    BY <1>1 DEF G!Load, G!Go, G!request
  <2>5. then \in G!Stages /\ stage[c] \notin G!Over
    BY <2>2 DEF G!Stages, G!Over
  <2> QED
    BY <2>1, <2>2, <2>3, <2>4, <2>5, StagingQuiet
<1>2. CASE G!Lock(c)
  <2>1. "locked" \in G!Stages /\ stage[c] \notin G!Over
    BY <1>2 DEF G!Lock, G!Stages, G!Over
  <2> QED
    BY <1>2, <2>1, StagingQuiet DEF G!Lock, G!Go, G!request
<1>3. CASE G!InsertRows(c)
  BY <1>3, StagingInsert
<1>4. CASE G!Commit(c)
  BY <1>4, StagingCommit
<1>5. CASE G!Throw(c)
  <2>1. "broken" \in G!Stages /\ stage[c] \notin G!Over
    BY <1>5 DEF G!Throw, G!Stages, G!Over
  <2>2. op[c] = "chunk"
    BY <1>5 DEF G!Throw, StagingInv
  <2> QED
    BY <1>5, <2>1, <2>2, StagingQuiet DEF G!Throw, G!Go, G!request
<1>6. CASE G!Select(c)
  <2>1. PICK then \in {G!Ended(c), "updating"} :
          /\ stage' = [stage EXCEPT ![c] = then]
          /\ then = G!Ended(c) <=> set = NoSet
    BY <1>6 DEF G!Select, G!Go, G!Ended
  <2>2. then \in {"updating", "done", "thrown"} /\ (then = "updating" <=> set # NoSet)
    BY <2>1 DEF G!Ended
  <2>3. then \in G!Stages /\ stage[c] \notin G!Over
    BY <1>6, <2>2 DEF G!Select, G!Stages, G!Over
  <2>4. op[c] # "delete"
    BY <1>6 DEF G!Select, StagingInv
  <2>5. /\ UNCHANGED <<format, op, lines, set, rows, crossed>>
        /\ UNCHANGED own /\ stage[c] # "locked"
        /\ UNCHANGED <<seen, prior>> /\ UNCHANGED erased /\ UNCHANGED lock
        /\ read' = [read EXCEPT ![c] = set]
    BY <1>6 DEF G!Select, G!Go, G!request
  <2> QED
    BY <2>1, <2>2, <2>3, <2>4, <2>5, StagingQuiet
<1>7. CASE G!Write(c)
  BY <1>7, StagingWrite
<1>8. CASE G!DeleteRows(c)
  <2>1. "cleared" \in G!Stages /\ stage[c] \notin G!Over
    BY <1>8 DEF G!DeleteRows, G!Stages, G!Over
  <2> QED
    BY <1>8, <2>1, StagingQuiet DEF G!DeleteRows, G!Go, G!request
<1>9. CASE G!DeleteSet(c)
  BY <1>9, StagingDelete
<1>10. CASE G!Die(c)
  <2>1. "dead" \in G!Stages /\ stage[c] \notin G!Over
    BY <1>10 DEF G!Die, G!Stages, G!Over
  <2> QED
    BY <1>10, <2>1, StagingQuiet DEF G!Die, G!Go, G!request
<1> QED
  BY <1>1, <1>2, <1>3, <1>4, <1>5, <1>6, <1>7, <1>8, <1>9, <1>10

(* However many requests there are and however they race, fail or die: the *)
(* rows of a set are numbered 0, 1, ... without gap or repeat as long as   *)
(* each chunk is one INSERT, and in the order of a chunk's lines in any    *)
(* case; its tally counts them and a thrown chunk shows unless updates     *)
(* overlapped, and the rows that outlive their set are of requests that    *)
(* were under way when its delete began.                                   *)
THEOREM ImportKeepsItsCount == SpecOperations => []StagingStands
<1> DEFINE Inv == part = "staging" => StagingInv
<1>1. InitOperations => Inv
  BY StagingInit DEF InitOperations
<1>2. Inv /\ [NextOperations]_all => Inv'
  <2> SUFFICES ASSUME Inv, [NextOperations]_all, part' = "staging" PROVE StagingInv'
    OBVIOUS
  <2>1. CASE NextOperations
    <3>1. part = "staging" /\ G!Next
      BY <2>1 DEF NextOperations
    <3> QED
      BY <3>1, StagingStep DEF G!Next
  <2>2. CASE UNCHANGED all
    <3>1. /\ part' = part
          /\ UNCHANGED <<rows, stage, op, read, format, lines, seen, own, erased, prior, lock, set, crossed>>
      BY <2>2 DEF all, stagingOnly
    <3>2. StagingInv
      BY <3>1
    <3> QED
      BY <3>1, <3>2 DEF StagingInv, NumberInv, G!TypeOK, G!RowsAreNumbered, G!Long, G!Parsed,
                        G!IsFirst, G!DeleteTakesTheRows, G!TallyCountsRows, G!ThrownChunkShows
  <2> QED
    BY <2>1, <2>2
<1>3. Inv => StagingStands
  BY DEF StagingStands, StagingInv, NumberInv
<1> QED
  BY <1>1, <1>2, <1>3, PTL DEF SpecOperations

-----------------------------------------------------------------------------
(* Sharing.                                                                *)

After == {"recount", "recounted", "storing", "writing", "done"}

(* Ownership rows are never deleted, each is of the claim that inserted it *)
(* and keeps the createdAt which that claim drew, so that an update which  *)
(* read a row writes it back as old as it is, and readers go on trusting   *)
(* the same one.                                                           *)
OwnersInv ==
  /\ S!TypeOK
  /\ IsFiniteSet(grants)
  /\ \A r \in S!Rows : /\ owners[r].at = at[r] /\ at[r] > 0
                       /\ op[r] = "claim" /\ stage[r] \in {"audit", "done", "dead"}
  /\ \A c \in Calls : at[c] <= clock
  /\ \A c, d \in Calls : at[c] = at[d] /\ at[c] > 0 => c = d
  /\ \A c \in Calls : stage[c] = "counted" => at[c] > 0
  /\ \A c \in Calls : stage[c] \in {"counted", "audit"} => op[c] = "claim"
  /\ \A c \in Calls : stage[c] \in {"asked", "recount", "recounted", "storing", "writing"} => op[c] # "claim"
  /\ \A c \in Calls : stage[c] = "asked" => op[c] \in {"revoke", "transfer"}
  /\ \A c \in Calls : stage[c] = "allowed" => op[c] # "transfer"
  /\ \A c \in Calls : stage[c] \in {"moving", "moved"} => op[c] = "transfer"
  /\ \A c \in Calls :
       \/ op[c] = "transfer" /\ stage[c] \in {"asked", "moving", "moved"}
       \/ stage[c] = "writing"
       => row[c] \in S!Rows
  /\ \A c \in Calls : stage[c] \in {"moved", "writing"} => read[c] # NoRow /\ read[c].at = at[row[c]]
  /\ \A c \in Calls : todo[c] \subseteq S!Rows

(* The row readers trust is the one of the claim that drew first.          *)
OldestIsFirst ==
  \A Q \in SUBSET S!Rows :
    Q # {} => /\ S!Oldest(Q) \in Q
              /\ \A r \in Q : r = S!Oldest(Q) <=> \A s \in Q : at[r] <= at[s]

(* What a call that runs alone has done so far stands.                     *)
AloneStands(c) ==
  /\ op[c] = "claim" =>
       /\ stage[c] \in {"allowed", "counted"} => S!Rows = {}
       /\ stage[c] \in {"audit", "done"} => S!Rows = {c} /\ owners[c].owner = actor[c]
  /\ op[c] = "grant" /\ stage[c] \in After => c \in grants
  /\ op[c] = "revoke" /\ stage[c] \in After => gone[c] \notin grants
  /\ op[c] = "transfer" =>
       /\ stage[c] \in {"asked", "moving", "moved"} => row[c] = S!Oldest(S!Rows)
       /\ stage[c] \in After => S!Rows # {} /\ owners[S!Oldest(S!Rows)].owner = subject[c]

(* And the counts it has stored, or is about to, are right.                *)
AloneCounts(c) ==
  /\ stage[c] \in {"counted", "recounted", "storing", "writing"} => n[c] = S!Cardinality(grants)
  /\ stage[c] = "audit" => \A r \in S!Rows : owners[r].count = S!Cardinality(grants)
  /\ stage[c] \in {"moved", "writing"} => read[c] = owners[row[c]]
  /\ stage[c] \in {"storing", "writing"} =>
       \A r \in S!Rows : \/ r \in todo[c]
                         \/ stage[c] = "writing" /\ r = row[c]
                         \/ owners[r].count = S!Cardinality(grants)

SoloInv ==
  /\ solo # None => /\ \A d \in Calls : d # solo => stage[d] \in S!Over \cup {"idle"}
                    /\ AloneStands(solo) /\ AloneCounts(solo)
  /\ settled # None => /\ settled = solo /\ stage[settled] = "done"
                       /\ \A r \in S!Rows : owners[r].count = S!Cardinality(grants)

LEMMA Least ==
  ASSUME NEW T \in SUBSET Nat, T # {}
  PROVE  \E x \in T : \A y \in T : x <= y
<1> DEFINE R == OpToRel(<, Nat)
<1>1. \A x, y \in Nat : x < y => <<x, y>> \in R
  BY DEF OpToRel
<1>2. IsWellFoundedOn(R, Nat)
  BY NatLessThanWellFounded
<1> HIDE DEF R
<1>3. PICK x \in T : \A y \in T : ~ (<<y, x>> \in R)
  BY <1>2, WFMin
<1>4. \A y \in T : x <= y
  <2> TAKE y \in T
  <2>1. x \in Nat /\ y \in Nat
    OBVIOUS
  <2>2. ~ (y < x)
    BY <1>1, <1>3, <2>1
  <2> QED
    BY <2>1, <2>2
<1> QED
  BY <1>4

LEMMA OldestExists == OwnersInv => OldestIsFirst
<1> SUFFICES ASSUME OwnersInv, NEW Q \in SUBSET S!Rows, Q # {}
             PROVE  /\ S!Oldest(Q) \in Q
                    /\ \A r \in Q : r = S!Oldest(Q) <=> \A s \in Q : at[r] <= at[s]
  BY DEF OldestIsFirst
<1>1. \A r \in Q : r \in Calls /\ at[r] \in Nat /\ at[r] > 0 /\ owners[r].at = at[r]
  BY DEF OwnersInv, S!TypeOK, S!Rows
<1>2. PICK r \in Q : \A s \in Q : at[r] <= at[s]
  <2> DEFINE T == {at[r] : r \in Q}
  <2>1. T \in SUBSET Nat /\ T # {}
    BY <1>1
  <2>2. PICK x \in T : \A y \in T : x <= y
    BY <2>1, Least
  <2> QED
    BY <2>2
<1>3. S!Oldest(Q) \in Q /\ \A s \in Q : owners[S!Oldest(Q)].at <= owners[s].at
  <2>1. \E q \in Q : \A s \in Q : owners[q].at <= owners[s].at
    BY <1>1, <1>2
  <2> QED
    BY <2>1 DEF S!Oldest
<1>4. \A s \in Q : at[S!Oldest(Q)] <= at[s]
  BY <1>1, <1>3
<1>5. ASSUME NEW q \in Q, \A s \in Q : at[q] <= at[s]
      PROVE  q = S!Oldest(Q)
  <2>1. at[q] = at[S!Oldest(Q)]
    BY <1>1, <1>3, <1>4, <1>5
  <2> QED
    BY <1>1, <1>3, <2>1 DEF OwnersInv
<1> QED
  BY <1>3, <1>4, <1>5

LEMMA CardinalityOfGrants ==
  ASSUME NEW Q
  PROVE  S!Cardinality(Q) = Cardinality(Q)
  BY DEF S!Cardinality, Cardinality

LEMMA SharesInit == S!Init => OwnersInv /\ SoloInv
<1> SUFFICES ASSUME S!Init PROVE OwnersInv /\ SoloInv
  OBVIOUS
<1>1. S!TypeOK
  BY DEF S!Init, S!TypeOK, S!Stages, S!Over
<1>2. IsFiniteSet(grants)
  BY FS_EmptySet DEF S!Init
<1>3. S!Rows = {}
  BY DEF S!Init, S!Rows
<1> QED
  BY <1>1, <1>2, <1>3 DEF S!Init, OwnersInv, SoloInv

(* A step of a call that inserts no row and draws no createdAt.            *)
LEMMA OwnersQuiet ==
  ASSUME OwnersInv, NEW c \in Calls, NEW then \in S!Stages,
         stage' = [stage EXCEPT ![c] = then], 
         stage[c] \in {"audit", "done", "dead"} => then \in {"done", "dead"},
         UNCHANGED <<clock, op, actor, subject, at>>,
         S!Rows' = S!Rows, \A r \in S!Rows : owners'[r].at = owners[r].at,
         IsFiniteSet(grants'),
         S!TypeOK',
         then # "counted", then # "audit",
         then \in {"asked", "recount", "recounted", "storing", "writing"} => op[c] # "claim",
         then = "asked" => op[c] \in {"revoke", "transfer"},
         then = "allowed" => op[c] # "transfer",
         then \in {"moving", "moved"} => op[c] = "transfer",
         \A d \in Calls : d # c => row'[d] = row[d] /\ read'[d] = read[d] /\ todo'[d] = todo[d],
         \/ op[c] = "transfer" /\ then \in {"asked", "moving", "moved"}
         \/ then = "writing"
         => row'[c] \in S!Rows,
         then \in {"moved", "writing"} => read'[c] = owners[row'[c]],
         todo'[c] \subseteq S!Rows
  PROVE  OwnersInv'
<1>1. /\ stage'[c] = then
      /\ \A d \in Calls : d # c => stage'[d] = stage[d]
  BY DEF OwnersInv, S!TypeOK
<1>2. \A r \in S!Rows : stage'[r] \in {"audit", "done", "dead"}
  BY <1>1 DEF OwnersInv
<1>3. \A d \in Calls : stage'[d] \in {"moved", "writing"} => read'[d] # NoRow /\ read'[d].at = at'[row'[d]]
  BY <1>1 DEF OwnersInv, S!Rows
<1>4. /\ \A r \in S!Rows' : /\ owners'[r].at = at'[r] /\ at'[r] > 0
                            /\ op'[r] = "claim" /\ stage'[r] \in {"audit", "done", "dead"}
      /\ \A d \in Calls : at'[d] <= clock'
      /\ \A d, e \in Calls : at'[d] = at'[e] /\ at'[d] > 0 => d = e
      /\ \A d \in Calls : stage'[d] = "counted" => at'[d] > 0
  BY <1>1, <1>2 DEF OwnersInv
<1>5. /\ \A d \in Calls : stage'[d] \in {"counted", "audit"} => op'[d] = "claim"
      /\ \A d \in Calls : stage'[d] \in {"asked", "recount", "recounted", "storing", "writing"} => op'[d] # "claim"
      /\ \A d \in Calls : stage'[d] = "asked" => op'[d] \in {"revoke", "transfer"}
      /\ \A d \in Calls : stage'[d] = "allowed" => op'[d] # "transfer"
      /\ \A d \in Calls : stage'[d] \in {"moving", "moved"} => op'[d] = "transfer"
  BY <1>1 DEF OwnersInv
<1>6. /\ \A d \in Calls :
           \/ op'[d] = "transfer" /\ stage'[d] \in {"asked", "moving", "moved"}
           \/ stage'[d] = "writing"
           => row'[d] \in S!Rows'
      /\ \A d \in Calls : todo'[d] \subseteq S!Rows'
  BY <1>1 DEF OwnersInv
<1> QED
  BY <1>3, <1>4, <1>5, <1>6 DEF OwnersInv

LEMMA OwnersStep ==
  ASSUME OwnersInv, NEW c \in Calls,
         \/ S!Claim(c) \/ S!Grant(c) \/ S!Transfer(c) \/ \E g \in Calls : S!Revoke(c, g)
         \/ S!Authorize(c)
         \/ S!CountBeforeClaim(c) \/ S!InsertOwner(c)
         \/ S!InsertGrant(c) \/ S!DeleteGrant(c)
         \/ S!CountGrants(c) \/ S!ListOwners(c)
         \/ S!SelectOwner(c) \/ S!MoveOwner(c) \/ S!StoreCount(c)
         \/ S!Audit(c) \/ S!Die(c)
  PROVE  OwnersInv'
<1>1. S!TypeOK /\ IsFiniteSet(grants)
  BY DEF OwnersInv
<1>2. \A Q \in SUBSET S!Rows : Q # {} => S!Oldest(Q) \in Q
  BY OldestExists DEF OldestIsFirst
<1>3. UNCHANGED owners => S!Rows' = S!Rows /\ \A r \in S!Rows : owners'[r].at = owners[r].at
  BY DEF S!Rows
<1>4. S!Rows \subseteq Calls
  BY DEF S!Rows
<1>5. CASE S!Claim(c)
  <2>1. S!TypeOK'
    BY <1>1, <1>5 DEF S!Claim, S!Begin, S!TypeOK, S!Stages, S!Over, S!db, S!call
  <2> QED
    BY <1>3, <1>5, <2>1, OwnersQuiet DEF S!Claim, S!Begin, S!Stages, S!Over, S!db, S!call, OwnersInv
<1>6. CASE S!Grant(c)
  <2>1. S!TypeOK'
    BY <1>1, <1>6 DEF S!Grant, S!Begin, S!TypeOK, S!Stages, S!Over, S!db, S!call
  <2> QED
    BY <1>3, <1>6, <2>1, OwnersQuiet DEF S!Grant, S!Begin, S!Stages, S!Over, S!db, S!call, OwnersInv
<1>7. CASE S!Transfer(c)
  <2>1. S!TypeOK'
    BY <1>1, <1>2, <1>4, <1>7 DEF S!Transfer, S!Begin, S!TypeOK, S!Stages, S!Over, S!db, S!call
  <2>2. S!Rows # {} => row'[c] \in S!Rows
    BY <1>1, <1>2, <1>7 DEF S!Transfer, S!TypeOK
  <2>3. \A d \in Calls : d # c => row'[d] = row[d]
    BY <1>1, <1>7 DEF S!Transfer, S!TypeOK
  <2> QED
    <3>1. PICK then \in {"asked", "refused"} :
            stage' = [stage EXCEPT ![c] = then] /\ (then = "asked" => S!Rows # {})
      BY <1>7 DEF S!Transfer, S!Begin
    <3>2. /\ stage[c] = "idle" /\ op[c] = "transfer"
          /\ UNCHANGED <<owners, grants, clock, op, actor, subject, gone, at, n, todo, read>>
      BY <1>7 DEF S!Transfer, S!Begin, S!db, S!call
    <3>3. then \in S!Stages /\ todo'[c] \subseteq S!Rows
      BY <3>2 DEF S!Stages, S!Over, OwnersInv
    <3> QED
      BY <1>1, <1>3, <2>1, <2>2, <2>3, <3>1, <3>2, <3>3, OwnersQuiet
<1>8. ASSUME NEW g \in Calls, S!Revoke(c, g)
      PROVE  OwnersInv'
  <2>1. S!TypeOK'
    BY <1>1, <1>8 DEF S!Revoke, S!Begin, S!TypeOK, S!Stages, S!Over, S!db, S!call
  <2> QED
    BY <1>3, <1>8, <2>1, OwnersQuiet DEF S!Revoke, S!Begin, S!Stages, S!Over, S!db, S!call, OwnersInv
<1>9. CASE S!Authorize(c)
  <2>1. S!TypeOK'
    BY <1>1, <1>9 DEF S!Authorize, S!Go, S!TypeOK, S!Stages, S!Over, S!db, S!call
  <2> QED
    BY <1>3, <1>9, <2>1, OwnersQuiet DEF S!Authorize, S!Go, S!Stages, S!Over, S!db, S!call, OwnersInv
<1>10. CASE S!InsertGrant(c)
  <2>1. S!TypeOK' /\ IsFiniteSet(grants')
    BY <1>1, <1>10, FS_AddElement DEF S!InsertGrant, S!Go, S!TypeOK, S!Stages, S!Over, S!db, S!call
  <2> QED
    BY <1>3, <1>10, <2>1, OwnersQuiet DEF S!InsertGrant, S!Go, S!Stages, S!Over, S!db, S!call, OwnersInv
<1>11. CASE S!DeleteGrant(c)
  <2>1. S!TypeOK' /\ IsFiniteSet(grants')
    BY <1>1, <1>11, FS_Subset DEF S!DeleteGrant, S!Go, S!TypeOK, S!Stages, S!Over, S!db, S!call
  <2> QED
    BY <1>3, <1>11, <2>1, OwnersQuiet DEF S!DeleteGrant, S!Go, S!Stages, S!Over, S!db, S!call, OwnersInv
<1>12. CASE S!CountGrants(c)
  <2>1. S!Cardinality(grants) \in Nat
    BY <1>1, FS_CardinalityType, CardinalityOfGrants
  <2>2. S!TypeOK'
    BY <1>1, <1>12, <2>1 DEF S!CountGrants, S!Go, S!TypeOK, S!Stages, S!Over, S!db, S!call
  <2> QED
    BY <1>3, <1>12, <1>1, <2>2, OwnersQuiet DEF S!CountGrants, S!Go, S!Stages, S!Over, S!db, S!call, OwnersInv
<1>13. CASE S!ListOwners(c)
  <2>1. S!TypeOK'
    BY <1>1, <1>4, <1>13 DEF S!ListOwners, S!Go, S!TypeOK, S!Stages, S!Over, S!db, S!call
  <2>2. todo'[c] = S!Rows /\ \A d \in Calls : d # c => todo'[d] = todo[d]
    BY <1>1, <1>13 DEF S!ListOwners, S!TypeOK
  <2> QED
    <3>1. /\ stage[c] = "recounted" /\ stage' = [stage EXCEPT ![c] = "storing"]
          /\ UNCHANGED <<owners, grants, clock, op, actor, subject, gone, row, at, n, read>>
      BY <1>13 DEF S!ListOwners, S!Go, S!db, S!call
    <3>2. "storing" \in S!Stages /\ op[c] # "claim"
      BY <3>1 DEF S!Stages, OwnersInv
    <3> QED
      BY <1>1, <1>3, <2>1, <2>2, <3>1, <3>2, OwnersQuiet
<1>14. CASE S!SelectOwner(c)
  <2>1. todo[c] \subseteq S!Rows
    BY DEF OwnersInv
  <2>2. PICK r \in S!Rows : row' = [row EXCEPT ![c] = r]
    <3>1. CASE stage[c] = "moving" /\ row' = row
      BY <1>1, <3>1 DEF OwnersInv, S!TypeOK
    <3>2. CASE stage[c] = "storing" /\ todo[c] # {} /\ row' = [row EXCEPT ![c] = S!Oldest(todo[c])]
      BY <1>2, <2>1, <3>2
    <3> QED
      BY <1>14, <3>1, <3>2 DEF S!SelectOwner
  <2>3. row'[c] = r /\ r \in Calls /\ owners[r] # NoRow /\ \A d \in Calls : d # c => row'[d] = row[d]
    BY <1>1, <2>2 DEF S!TypeOK, S!Rows
  <2>4. PICK then \in {"moved", "writing"} :
          /\ stage' = [stage EXCEPT ![c] = then]
          /\ then = "moved" => stage[c] = "moving"
          /\ then = "writing" => stage[c] = "storing"
    BY <1>14 DEF S!SelectOwner, S!Go
  <2>5. /\ read' = [read EXCEPT ![c] = owners[r]]
        /\ todo' = [todo EXCEPT ![c] = @ \ {r}]
        /\ UNCHANGED <<owners, grants, clock, op, actor, subject, gone, at, n, solo, settled>>
    BY <1>14, <2>3 DEF S!SelectOwner, S!Go, S!db, S!call
  <2>6. S!TypeOK'
    BY <1>1, <2>2, <2>3, <2>4, <2>5 DEF S!TypeOK, S!Stages
  <2>7. /\ \A d \in Calls : d # c => read'[d] = read[d] /\ todo'[d] = todo[d]
        /\ read'[c] = owners[r] /\ todo'[c] \subseteq S!Rows
    BY <1>1, <2>1, <2>5 DEF S!TypeOK
  <2>8. then \in S!Stages /\ stage[c] \notin {"audit", "done", "dead"}
    BY <2>4 DEF S!Stages
  <2>9. /\ then \in {"writing"} => op[c] # "claim"
        /\ then = "moved" => op[c] = "transfer"
    BY <2>4 DEF OwnersInv
  <2> QED
    BY <1>1, <1>3, <2>3, <2>4, <2>5, <2>6, <2>7, <2>8, <2>9, OwnersQuiet
<1>15. CASE S!Audit(c)
  <2>1. S!TypeOK'
    BY <1>1, <1>15 DEF S!Audit, S!TypeOK, S!Stages, S!Over, S!db, S!call
  <2> QED
    BY <1>1, <1>3, <1>15, <2>1, OwnersQuiet DEF S!Audit, S!Stages, S!Over, S!db, S!call, OwnersInv
<1>16. CASE S!Die(c)
  <2>1. S!TypeOK'
    BY <1>1, <1>16 DEF S!Die, S!Go, S!TypeOK, S!Stages, S!Over, S!db, S!call
  <2> QED
    BY <1>1, <1>3, <1>16, <2>1, OwnersQuiet DEF S!Die, S!Go, S!Stages, S!Over, S!db, S!call, OwnersInv
<1>17. ASSUME stage[c] \in {"moved", "writing"}, NEW body \in S!OwnershipRow, NEW then \in {"recount", "storing"},
              body.at = read[c].at, row[c] \in S!Rows, op[c] # "claim",
              owners' = [owners EXCEPT ![row[c]] = body], read' = [read EXCEPT ![c] = NoRow],
              stage' = [stage EXCEPT ![c] = then],
              UNCHANGED <<grants, clock, op, actor, subject, gone, row, at, n, todo, solo, settled>>
       PROVE  OwnersInv'
  <2>1. NoRow \notin S!OwnershipRow
    BY SharingAssumption
  <2>2. S!Rows' = S!Rows
    BY <1>1, <1>17, <2>1 DEF S!Rows, S!TypeOK
  <2>3. body.at = at[row[c]] /\ owners[row[c]].at = at[row[c]]
    BY <1>17 DEF OwnersInv
  <2>4. \A r \in S!Rows : owners'[r].at = owners[r].at
    BY <1>1, <1>17, <2>3 DEF S!TypeOK, S!Rows
  <2>5. S!TypeOK'
    BY <1>1, <1>17, <1>4 DEF S!TypeOK, S!Stages
  <2>6. \A d \in Calls : d # c => read'[d] = read[d]
    BY <1>1, <1>17 DEF S!TypeOK
  <2>7. then \in S!Stages /\ todo[c] \subseteq S!Rows
    BY DEF S!Stages, OwnersInv
  <2> QED
    BY <1>1, <1>17, <2>2, <2>4, <2>5, <2>6, <2>7, OwnersQuiet
<1>18. CASE S!MoveOwner(c)
  <2>1. stage[c] = "moved" /\ op[c] = "transfer" /\ row[c] \in S!Rows
    BY <1>18 DEF S!MoveOwner, OwnersInv
  <2>2. read[c] \in S!OwnershipRow
    BY <1>1, <2>1 DEF OwnersInv, S!TypeOK
  <2>3. [read[c] EXCEPT !.owner = subject[c]] \in S!OwnershipRow /\ [read[c] EXCEPT !.owner = subject[c]].at = read[c].at
    BY <1>1, <2>2 DEF S!TypeOK, S!OwnershipRow
  <2> QED
    BY <1>17, <1>18, <2>1, <2>3 DEF S!MoveOwner, S!Go, S!call
<1>19. CASE S!StoreCount(c)
  <2>1. stage[c] = "writing" /\ op[c] # "claim" /\ row[c] \in S!Rows
    BY <1>19 DEF S!StoreCount, OwnersInv
  <2>2. read[c] \in S!OwnershipRow
    BY <1>1, <2>1 DEF OwnersInv, S!TypeOK
  <2>3. [read[c] EXCEPT !.count = n[c]] \in S!OwnershipRow /\ [read[c] EXCEPT !.count = n[c]].at = read[c].at
    BY <1>1, <2>2 DEF S!TypeOK, S!OwnershipRow
  <2> QED
    BY <1>17, <1>19, <2>1, <2>3 DEF S!StoreCount, S!Go, S!call
<1>20. CASE S!CountBeforeClaim(c)
  <2>1. /\ stage[c] = "allowed" /\ op[c] = "claim" /\ stage' = [stage EXCEPT ![c] = "counted"]
        /\ clock' = clock + 1 /\ at' = [at EXCEPT ![c] = clock + 1]
        /\ n' = [n EXCEPT ![c] = S!Cardinality(grants)]
        /\ UNCHANGED <<owners, grants, op, actor, subject, gone, row, todo, read, solo, settled>>
    BY <1>20 DEF S!CountBeforeClaim, S!db, S!call
  <2>2. S!Cardinality(grants) \in Nat
    BY <1>1, FS_CardinalityType, CardinalityOfGrants
  <2>3. S!TypeOK'
    BY <1>1, <2>1, <2>2 DEF S!TypeOK, S!Stages
  <2>4. /\ at'[c] = clock + 1 /\ clock \in Nat /\ \A d \in Calls : d # c => at'[d] = at[d]
        /\ stage'[c] = "counted" /\ \A d \in Calls : d # c => stage'[d] = stage[d]
        /\ \A d \in Calls : at[d] \in Nat /\ at[d] <= clock
    BY <1>1, <2>1 DEF S!TypeOK, OwnersInv
  <2>5. S!Rows' = S!Rows /\ c \notin S!Rows
    BY <2>1 DEF S!Rows, OwnersInv
  <2>6. /\ \A r \in S!Rows' : /\ owners'[r].at = at'[r] /\ at'[r] > 0
                              /\ op'[r] = "claim" /\ stage'[r] \in {"audit", "done", "dead"}
        /\ \A d \in Calls : at'[d] <= clock'
        /\ \A d, e \in Calls : at'[d] = at'[e] /\ at'[d] > 0 => d = e
        /\ \A d \in Calls : stage'[d] = "counted" => at'[d] > 0
    BY <2>1, <2>4, <2>5, <1>4 DEF OwnersInv
  <2>7. /\ \A d \in Calls :
             \/ op'[d] = "transfer" /\ stage'[d] \in {"asked", "moving", "moved"}
             \/ stage'[d] = "writing"
             => row'[d] \in S!Rows'
        /\ \A d \in Calls : todo'[d] \subseteq S!Rows'
    BY <2>1, <2>4, <2>5 DEF OwnersInv
  <2>8. \A d \in Calls : stage'[d] \in {"moved", "writing"} => read'[d] # NoRow /\ read'[d].at = at'[row'[d]]
    <3> SUFFICES ASSUME NEW d \in Calls, stage'[d] \in {"moved", "writing"}
                 PROVE  read[d] # NoRow /\ read[d].at = at'[row[d]]
      BY <2>1
    <3>1. stage[d] \in {"moved", "writing"} /\ row[d] \in S!Rows /\ row[d] # c
      BY <2>4, <2>5 DEF OwnersInv
    <3> QED
      BY <1>4, <2>4, <3>1 DEF OwnersInv
  <2> QED
    BY <1>1, <2>1, <2>3, <2>4, <2>6, <2>7, <2>8 DEF OwnersInv
<1>21. CASE S!InsertOwner(c)
  <2>1. /\ stage[c] = "counted" /\ op[c] = "claim" /\ stage' = [stage EXCEPT ![c] = "audit"]
        /\ owners' = [owners EXCEPT ![c] = [owner |-> actor[c], at |-> at[c], count |-> n[c]]]
        /\ UNCHANGED <<grants, clock, op, actor, subject, gone, row, at, n, todo, read, solo, settled>>
    BY <1>21 DEF S!InsertOwner, S!Go, S!db, S!call, OwnersInv
  <2>2. [owner |-> actor[c], at |-> at[c], count |-> n[c]] \in S!OwnershipRow
    BY <1>1 DEF S!TypeOK, S!OwnershipRow
  <2>3. S!TypeOK'
    BY <1>1, <2>1, <2>2 DEF S!TypeOK, S!Stages
  <2>4. /\ stage'[c] = "audit" /\ \A d \in Calls : d # c => stage'[d] = stage[d]
        /\ owners'[c].at = at[c] /\ \A d \in Calls : d # c => owners'[d] = owners[d]
        /\ owners'[c] # NoRow
    BY <1>1, <2>1, <2>2, SharingAssumption DEF S!TypeOK
  <2>5. S!Rows' = S!Rows \cup {c} /\ c \notin S!Rows
    BY <2>1, <2>4 DEF S!Rows, OwnersInv
  <2>6. /\ \A r \in S!Rows' : /\ owners'[r].at = at'[r] /\ at'[r] > 0
                              /\ op'[r] = "claim" /\ stage'[r] \in {"audit", "done", "dead"}
        /\ \A d \in Calls : at'[d] <= clock'
        /\ \A d, e \in Calls : at'[d] = at'[e] /\ at'[d] > 0 => d = e
        /\ \A d \in Calls : stage'[d] = "counted" => at'[d] > 0
    BY <2>1, <2>4, <2>5, <1>4 DEF OwnersInv
  <2>7. /\ \A d \in Calls :
             \/ op'[d] = "transfer" /\ stage'[d] \in {"asked", "moving", "moved"}
             \/ stage'[d] = "writing"
             => row'[d] \in S!Rows'
        /\ \A d \in Calls : todo'[d] \subseteq S!Rows'
        /\ \A d \in Calls : stage'[d] \in {"moved", "writing"} => read'[d] # NoRow /\ read'[d].at = at'[row'[d]]
    BY <2>1, <2>4, <2>5 DEF OwnersInv
  <2> QED
    BY <1>1, <2>1, <2>3, <2>4, <2>6, <2>7 DEF OwnersInv
<1> QED
  BY <1>5, <1>6, <1>7, <1>8, <1>9, <1>10, <1>11, <1>12, <1>13, <1>14, <1>15, <1>16,
     <1>18, <1>19, <1>20, <1>21

LEMMA SameOldest ==
  ASSUME OldestIsFirst, OldestIsFirst', S!Rows # {}, S!Rows' = S!Rows, UNCHANGED at
  PROVE  S!Oldest(S!Rows)' = S!Oldest(S!Rows) /\ S!Oldest(S!Rows) \in S!Rows
<1>1. PICK Q \in SUBSET S!Rows : Q = S!Rows
  OBVIOUS
<1>2. S!Oldest(Q) \in Q /\ \A r \in Q : r = S!Oldest(Q) <=> \A s \in Q : at[r] <= at[s]
  BY <1>1 DEF OldestIsFirst
<1>3. S!Oldest(Q)' \in Q /\ \A r \in Q : r = S!Oldest(Q)' <=> \A s \in Q : at[r] <= at[s]
  BY <1>1 DEF OldestIsFirst
<1>4. S!Oldest(Q)' = S!Oldest(Q)
  BY <1>2, <1>3
<1>5. S!Oldest(Q) = S!Oldest(S!Rows)
  BY <1>1
<1>6. S!Oldest(Q)' = S!Oldest(S!Rows)'
  BY <1>1
<1> QED
  BY <1>1, <1>2, <1>4, <1>5, <1>6

(* If a call moves and was running alone, what it did stands after it; if  *)
(* it was not alone there is nothing to show, and while a call runs no     *)
(* earlier one counts as settled.                                          *)
LEMMA SoloMoves ==
  ASSUME SoloInv, NEW c \in Calls, stage[c] \notin S!Over \cup {"idle"},
         \A d \in Calls : d # c => stage'[d] = stage[d],
         UNCHANGED <<solo, settled>>,
         solo \in Calls \cup {None}, settled \in Calls \cup {None},
         solo = c /\ AloneStands(c) /\ AloneCounts(c) => AloneStands(c)' /\ AloneCounts(c)'
  PROVE  SoloInv'
<1>1. settled = None
  BY DEF SoloInv, S!Over
<1>2. solo # None => solo = c
  BY DEF SoloInv
<1>3. CASE solo = None
  BY <1>1, <1>3 DEF SoloInv
<1>4. CASE solo # None
  <2>1. solo = c /\ AloneStands(c) /\ AloneCounts(c)
    BY <1>2, <1>4 DEF SoloInv
  <2>2. AloneStands(c)' /\ AloneCounts(c)'
    BY <2>1
  <2>3. AloneStands(solo)' /\ AloneCounts(solo)'
    BY <2>1, <2>2
  <2> QED
    BY <1>1, <2>1, <2>3 DEF SoloInv
<1> QED
  BY <1>3, <1>4

LEMMA SoloBegins ==
  ASSUME OwnersInv, NEW c \in Calls, NEW what, NEW found, NEW then \in {"allowed", "asked"},
         S!Begin(c, what, found, then),
         what = "claim" => (found <=> S!Rows = {}) /\ then = "allowed",
         then = "asked" /\ what = "transfer" /\ found => row'[c] = S!Oldest(S!Rows) /\ S!Rows # {},
         what = "transfer" => then = "asked",
         OldestIsFirst, OldestIsFirst'
  PROVE  SoloInv'
<1>1. /\ stage[c] = "idle" /\ op[c] = what /\ settled' = None
      /\ solo' = IF S!Running = {} THEN c ELSE None
      /\ UNCHANGED <<owners, grants, clock, op, actor, subject, at, n, todo, read>>
  BY DEF S!Begin, S!db, S!call
<1>2. /\ stage'[c] \in {then, "refused"} /\ (stage'[c] = then => found)
      /\ \A d \in Calls : d # c => stage'[d] = stage[d]
  BY DEF S!Begin, OwnersInv, S!TypeOK
<1>3. CASE S!Running # {}
  BY <1>1, <1>3 DEF SoloInv
<1>4. CASE S!Running = {}
  <2>1. solo' = c /\ \A d \in Calls : d # c => stage'[d] \in S!Over \cup {"idle"}
    BY <1>1, <1>2, <1>4 DEF S!Running
  <2>2. S!Rows' = S!Rows
    BY <1>1 DEF S!Rows
  <2>3. AloneCounts(c)'
    BY <1>1, <1>2 DEF AloneCounts
  <2>4. AloneStands(c)'
    BY <1>1, <1>2, <2>2, SameOldest DEF AloneStands, After
  <2>5. AloneStands(solo)' /\ AloneCounts(solo)'
    BY <2>1, <2>3, <2>4
  <2> QED
    BY <1>1, <2>1, <2>5 DEF SoloInv
<1> QED
  BY <1>3, <1>4

LEMMA SoloStep ==
  ASSUME OwnersInv, OwnersInv', OldestIsFirst, OldestIsFirst', SoloInv, NEW c \in Calls,
         \/ S!Claim(c) \/ S!Grant(c) \/ S!Transfer(c) \/ \E g \in Calls : S!Revoke(c, g)
         \/ S!Authorize(c)
         \/ S!CountBeforeClaim(c) \/ S!InsertOwner(c)
         \/ S!InsertGrant(c) \/ S!DeleteGrant(c)
         \/ S!CountGrants(c) \/ S!ListOwners(c)
         \/ S!SelectOwner(c) \/ S!MoveOwner(c) \/ S!StoreCount(c)
         \/ S!Audit(c) \/ S!Die(c)
  PROVE  SoloInv'
<1>1. S!TypeOK /\ solo \in Calls \cup {None} /\ settled \in Calls \cup {None}
  BY DEF OwnersInv, S!TypeOK
<1>2. UNCHANGED owners => S!Rows' = S!Rows
  BY DEF S!Rows
<1>3. UNCHANGED <<owners, at>> /\ S!Rows # {} => S!Oldest(S!Rows)' = S!Oldest(S!Rows) /\ S!Oldest(S!Rows) \in S!Rows
  BY <1>2, SameOldest
<1>4. CASE S!Claim(c)
  BY <1>4, SoloBegins DEF S!Claim
<1>5. CASE S!Grant(c)
  BY <1>5, SoloBegins DEF S!Grant
<1>6. CASE S!Transfer(c)
  <2>1. S!Rows # {} => row'[c] = S!Oldest(S!Rows)
    BY <1>1, <1>6 DEF S!Transfer, S!TypeOK
  <2> QED
    BY <1>6, <2>1, SoloBegins DEF S!Transfer
<1>7. ASSUME NEW g \in Calls, S!Revoke(c, g)
      PROVE  SoloInv'
  BY <1>7, SoloBegins DEF S!Revoke
<1>8. CASE S!Authorize(c)
  <2>1. /\ stage[c] = "asked" /\ stage'[c] \in {"refused", "allowed", "moving"} /\ op[c] # "claim"
        /\ (stage'[c] = "moving" => op[c] = "transfer")
        /\ UNCHANGED <<owners, grants, clock, op, actor, subject, gone, row, at, n, todo, read, solo, settled>>
        /\ \A d \in Calls : d # c => stage'[d] = stage[d]
    BY <1>1, <1>8 DEF S!Authorize, S!Go, S!db, S!call, OwnersInv, S!TypeOK
  <2>2. op[c] = "transfer" => S!Rows # {}
    BY <2>1 DEF OwnersInv
  <2>3. solo = c /\ AloneStands(c) /\ AloneCounts(c) => AloneStands(c)' /\ AloneCounts(c)'
    BY <1>2, <1>3, <2>1, <2>2 DEF AloneStands, AloneCounts, After
  <2> QED
    BY <1>1, <2>1, <2>3, SoloMoves DEF S!Over
<1>9. CASE S!CountBeforeClaim(c)
  <2>1. /\ stage[c] = "allowed" /\ op[c] = "claim" /\ stage'[c] = "counted"
        /\ n'[c] = S!Cardinality(grants)
        /\ UNCHANGED <<owners, grants, op, actor, subject, gone, row, todo, read, solo, settled>>
        /\ \A d \in Calls : d # c => stage'[d] = stage[d]
    BY <1>1, <1>9 DEF S!CountBeforeClaim, S!db, S!call, S!TypeOK
  <2>2. solo = c /\ AloneStands(c) /\ AloneCounts(c) => AloneStands(c)' /\ AloneCounts(c)'
    BY <1>2, <2>1 DEF AloneStands, AloneCounts, After
  <2> QED
    BY <1>1, <2>1, <2>2, SoloMoves DEF S!Over
<1>10. CASE S!InsertOwner(c)
  <2>1. /\ stage[c] = "counted" /\ op[c] = "claim" /\ stage'[c] = "audit"
        /\ owners' = [owners EXCEPT ![c] = [owner |-> actor[c], at |-> at[c], count |-> n[c]]]
        /\ UNCHANGED <<grants, clock, op, actor, subject, gone, row, at, n, todo, read, solo, settled>>
        /\ \A d \in Calls : d # c => stage'[d] = stage[d]
    BY <1>1, <1>10 DEF S!InsertOwner, S!Go, S!db, S!call, OwnersInv, S!TypeOK
  <2>2. /\ owners'[c].owner = actor[c] /\ owners'[c].count = n[c]
        /\ S!Rows = {} => S!Rows' = {c}
    <3>1. owners'[c] = [owner |-> actor[c], at |-> at[c], count |-> n[c]]
      BY <1>1, <2>1 DEF S!TypeOK
    <3>2. owners'[c] # NoRow
      BY <1>1, <3>1, SharingAssumption DEF S!TypeOK, S!OwnershipRow
    <3> QED
      BY <2>1, <3>1, <3>2 DEF S!Rows
  <2>3. solo = c /\ AloneStands(c) /\ AloneCounts(c) => AloneStands(c)' /\ AloneCounts(c)'
    BY <2>1, <2>2 DEF AloneStands, AloneCounts, After
  <2> QED
    BY <1>1, <2>1, <2>3, SoloMoves DEF S!Over
<1>11. CASE S!InsertGrant(c)
  <2>1. /\ stage[c] = "allowed" /\ op[c] = "grant" /\ stage'[c] = "recount" /\ grants' = grants \cup {c}
        /\ UNCHANGED <<owners, clock, op, actor, subject, gone, row, at, n, todo, read, solo, settled>>
        /\ \A d \in Calls : d # c => stage'[d] = stage[d]
    BY <1>1, <1>11 DEF S!InsertGrant, S!Go, S!call, S!TypeOK
  <2>2. solo = c /\ AloneStands(c) /\ AloneCounts(c) => AloneStands(c)' /\ AloneCounts(c)'
    BY <1>2, <2>1 DEF AloneStands, AloneCounts, After
  <2> QED
    BY <1>1, <2>1, <2>2, SoloMoves DEF S!Over
<1>12. CASE S!DeleteGrant(c)
  <2>1. /\ stage[c] = "allowed" /\ op[c] = "revoke" /\ stage'[c] = "recount" /\ grants' = grants \ {gone[c]}
        /\ UNCHANGED <<owners, clock, op, actor, subject, gone, row, at, n, todo, read, solo, settled>>
        /\ \A d \in Calls : d # c => stage'[d] = stage[d]
    BY <1>1, <1>12 DEF S!DeleteGrant, S!Go, S!call, S!TypeOK
  <2>2. solo = c /\ AloneStands(c) /\ AloneCounts(c) => AloneStands(c)' /\ AloneCounts(c)'
    BY <1>2, <2>1 DEF AloneStands, AloneCounts, After
  <2> QED
    BY <1>1, <2>1, <2>2, SoloMoves DEF S!Over
<1>13. CASE S!CountGrants(c)
  <2>1. /\ stage[c] = "recount" /\ op[c] # "claim" /\ stage'[c] = "recounted" /\ n'[c] = S!Cardinality(grants)
        /\ UNCHANGED <<owners, grants, clock, op, actor, subject, gone, row, at, todo, read, solo, settled>>
        /\ \A d \in Calls : d # c => stage'[d] = stage[d]
    BY <1>1, <1>13 DEF S!CountGrants, S!Go, S!db, S!call, S!TypeOK, OwnersInv
  <2>2. solo = c /\ AloneStands(c) /\ AloneCounts(c) => AloneStands(c)' /\ AloneCounts(c)'
    BY <1>2, <1>3, <2>1 DEF AloneStands, AloneCounts, After
  <2> QED
    BY <1>1, <2>1, <2>2, SoloMoves DEF S!Over
<1>14. CASE S!ListOwners(c)
  <2>1. /\ stage[c] = "recounted" /\ op[c] # "claim" /\ stage'[c] = "storing" /\ todo'[c] = S!Rows
        /\ UNCHANGED <<owners, grants, clock, op, actor, subject, gone, row, at, n, read, solo, settled>>
        /\ \A d \in Calls : d # c => stage'[d] = stage[d]
    BY <1>1, <1>14 DEF S!ListOwners, S!Go, S!db, S!call, S!TypeOK, OwnersInv
  <2>2. solo = c /\ AloneStands(c) /\ AloneCounts(c) => AloneStands(c)' /\ AloneCounts(c)'
    BY <1>2, <1>3, <2>1 DEF AloneStands, AloneCounts, After
  <2> QED
    BY <1>1, <2>1, <2>2, SoloMoves DEF S!Over
<1>15. CASE S!SelectOwner(c)
  <2>1. /\ \/ stage[c] = "moving" /\ op[c] = "transfer" /\ row' = row /\ stage'[c] = "moved"
           \/ stage[c] = "storing" /\ op[c] # "claim" /\ stage'[c] = "writing"
        /\ UNCHANGED <<owners, grants, clock, op, actor, subject, gone, at, n, solo, settled>>
        /\ \A d \in Calls : d # c => stage'[d] = stage[d]
    BY <1>1, <1>15 DEF S!SelectOwner, S!Go, S!db, S!call, S!TypeOK, OwnersInv
  <2>2. read'[c] = owners[row'[c]] /\ todo'[c] = todo[c] \ {row'[c]}
    BY <1>1, <1>15 DEF S!SelectOwner, S!TypeOK
  <2>3. stage[c] = "moving" => S!Rows # {}
    BY <2>1 DEF OwnersInv
  <2>4. solo = c /\ AloneStands(c) /\ AloneCounts(c) => AloneStands(c)' /\ AloneCounts(c)'
    BY <1>2, <1>3, <2>1, <2>2, <2>3 DEF AloneStands, AloneCounts, After
  <2> QED
    BY <1>1, <2>1, <2>4, SoloMoves DEF S!Over
<1>16. CASE S!MoveOwner(c)
  <2>1. /\ stage[c] = "moved" /\ op[c] = "transfer" /\ row[c] \in S!Rows /\ stage'[c] = "recount"
        /\ owners' = [owners EXCEPT ![row[c]] = [read[c] EXCEPT !.owner = subject[c]]]
        /\ UNCHANGED <<grants, clock, op, actor, subject, gone, row, at, n, todo, solo, settled>>
        /\ \A d \in Calls : d # c => stage'[d] = stage[d]
    BY <1>1, <1>16 DEF S!MoveOwner, S!Go, S!call, S!TypeOK, OwnersInv
  <2>2. read[c] \in S!OwnershipRow
    BY <1>1, <2>1 DEF OwnersInv, S!TypeOK
  <2>3. /\ [read[c] EXCEPT !.owner = subject[c]] \in S!OwnershipRow
        /\ [read[c] EXCEPT !.owner = subject[c]].owner = subject[c]
    BY <1>1, <2>2 DEF S!TypeOK, S!OwnershipRow
  <2>4. S!Rows' = S!Rows /\ owners'[row[c]].owner = subject[c]
    BY <1>1, <2>1, <2>3, SharingAssumption DEF S!Rows, S!TypeOK
  <2>5. S!Oldest(S!Rows)' = S!Oldest(S!Rows)
    BY <2>1, <2>4, SameOldest
  <2>6. solo = c /\ AloneStands(c) /\ AloneCounts(c) => AloneStands(c)' /\ AloneCounts(c)'
    BY <2>1, <2>4, <2>5 DEF AloneStands, AloneCounts, After
  <2> QED
    BY <1>1, <2>1, <2>6, SoloMoves DEF S!Over
<1>17. CASE S!StoreCount(c)
  <2>1. /\ stage[c] = "writing" /\ op[c] # "claim" /\ row[c] \in S!Rows /\ stage'[c] = "storing"
        /\ owners' = [owners EXCEPT ![row[c]] = [read[c] EXCEPT !.count = n[c]]]
        /\ UNCHANGED <<grants, clock, op, actor, subject, gone, row, at, n, todo, solo, settled>>
        /\ \A d \in Calls : d # c => stage'[d] = stage[d]
    BY <1>1, <1>17 DEF S!StoreCount, S!Go, S!call, S!TypeOK, OwnersInv
  <2>2. read[c] \in S!OwnershipRow
    BY <1>1, <2>1 DEF OwnersInv, S!TypeOK
  <2>3. /\ [read[c] EXCEPT !.count = n[c]] \in S!OwnershipRow
        /\ [read[c] EXCEPT !.count = n[c]].count = n[c]
        /\ [read[c] EXCEPT !.count = n[c]].owner = read[c].owner
    BY <1>1, <2>2 DEF S!TypeOK, S!OwnershipRow
  <2>4. /\ S!Rows' = S!Rows /\ owners'[row[c]].count = n[c] /\ owners'[row[c]].owner = read[c].owner
        /\ \A r \in S!Rows : r # row[c] => owners'[r] = owners[r]
    BY <1>1, <2>1, <2>3, SharingAssumption DEF S!Rows, S!TypeOK
  <2>5. S!Oldest(S!Rows)' = S!Oldest(S!Rows) /\ S!Oldest(S!Rows) \in S!Rows
    BY <2>1, <2>4, SameOldest
  <2>6. solo = c /\ AloneStands(c) /\ AloneCounts(c) => AloneStands(c)' /\ AloneCounts(c)'
    BY <2>1, <2>4, <2>5 DEF AloneStands, AloneCounts, After
  <2> QED
    BY <1>1, <2>1, <2>6, SoloMoves DEF S!Over
<1>18. CASE S!Audit(c)
  <2>1. /\ \/ stage[c] = "audit" /\ op[c] = "claim"
           \/ stage[c] = "storing" /\ op[c] # "claim" /\ todo[c] = {}
        /\ stage'[c] = "done" /\ settled' = (IF solo = c THEN c ELSE None)
        /\ UNCHANGED <<owners, grants, clock, op, actor, subject, gone, row, at, n, todo, read, solo>>
        /\ \A d \in Calls : d # c => stage'[d] = stage[d]
    BY <1>1, <1>18 DEF S!Audit, S!db, S!call, S!TypeOK, OwnersInv
  <2>2. CASE solo # None
    <3>1. solo = c /\ \A d \in Calls : d # c => stage[d] \in S!Over \cup {"idle"}
      BY <2>1, <2>2 DEF SoloInv, S!Over
    <3>2. AloneStands(c) /\ AloneCounts(c)
      BY <2>2, <3>1 DEF SoloInv
    <3>3. AloneStands(c)' /\ AloneCounts(c)'
      BY <1>2, <1>3, <2>1, <3>2 DEF AloneStands, AloneCounts, After
    <3>4. \A r \in S!Rows : owners[r].count = S!Cardinality(grants)
      BY <2>1, <3>2 DEF AloneCounts
    <3>5. AloneStands(solo)' /\ AloneCounts(solo)'
      BY <2>1, <3>1, <3>3
    <3> QED
      BY <1>2, <2>1, <3>1, <3>4, <3>5 DEF SoloInv
  <2>3. CASE solo = None
    BY <2>1, <2>3 DEF SoloInv
  <2> QED
    BY <2>2, <2>3
<1>19. CASE S!Die(c)
  <2>1. /\ stage[c] \notin S!Over \cup {"idle"} /\ stage'[c] = "dead"
        /\ UNCHANGED <<owners, grants, clock, op, actor, subject, gone, row, at, n, todo, read, solo, settled>>
        /\ \A d \in Calls : d # c => stage'[d] = stage[d]
    BY <1>1, <1>19 DEF S!Die, S!Running, S!Go, S!db, S!call, S!TypeOK
  <2>2. solo = c /\ AloneStands(c) /\ AloneCounts(c) => AloneStands(c)' /\ AloneCounts(c)'
    BY <2>1 DEF AloneStands, AloneCounts, After
  <2> QED
    BY <1>1, <2>1, <2>2, SoloMoves
<1> QED
  BY <1>4, <1>5, <1>6, <1>7, <1>8, <1>9, <1>10, <1>11, <1>12, <1>13, <1>14, <1>15, <1>16,
     <1>17, <1>18, <1>19

(* Whatever overlapping calls, dead ones and duplicate claims left behind, *)
(* a call that then runs alone leaves every count right, and what it did   *)
(* stands, for any number of calls and users.                              *)
THEOREM LoneCallRepairsShares == SpecOperations => []SharesSettle
<1> DEFINE Inv == part = "sharing" => OwnersInv /\ SoloInv
<1>1. InitOperations => Inv
  BY SharesInit DEF InitOperations
<1>2. OwnersInv => OldestIsFirst
  BY OldestExists
<1>3. OwnersInv' => OldestIsFirst'
  BY OldestExists, PTL
<1>4. Inv /\ [NextOperations]_all => Inv'
  <2> SUFFICES ASSUME Inv, [NextOperations]_all, part' = "sharing" PROVE OwnersInv' /\ SoloInv'
    OBVIOUS
  <2>1. CASE NextOperations
    <3>1. part = "sharing" /\ S!Next
      BY <2>1 DEF NextOperations
    <3>2. PICK c \in Calls :
            \/ S!Claim(c) \/ S!Grant(c) \/ S!Transfer(c) \/ \E g \in Calls : S!Revoke(c, g)
            \/ S!Authorize(c)
            \/ S!CountBeforeClaim(c) \/ S!InsertOwner(c)
            \/ S!InsertGrant(c) \/ S!DeleteGrant(c)
            \/ S!CountGrants(c) \/ S!ListOwners(c)
            \/ S!SelectOwner(c) \/ S!MoveOwner(c) \/ S!StoreCount(c)
            \/ S!Audit(c) \/ S!Die(c)
      BY <3>1 DEF S!Next
    <3>3. OwnersInv'
      BY <3>1, <3>2, OwnersStep
    <3> QED
      BY <1>2, <1>3, <3>1, <3>2, <3>3, SoloStep
  <2>2. CASE UNCHANGED all
    <3>1. /\ part' = part
          /\ UNCHANGED <<owners, grants, clock, stage, op, actor, subject, gone, row, at, n, todo, read, solo, settled>>
      BY <2>2 DEF all, sharingOnly
    <3>2. OwnersInv /\ SoloInv
      BY <3>1
    <3> QED
      BY <3>1, <3>2 DEF OwnersInv, SoloInv, AloneStands, AloneCounts, S!TypeOK, S!Rows, S!Oldest
  <2> QED
    BY <2>1, <2>2
<1>5. Inv => SharesSettle
  <2> SUFFICES ASSUME part = "sharing", OwnersInv, SoloInv PROVE S!TypeOK /\ S!SoloCallSettles
    BY DEF SharesSettle
  <2>1. S!TypeOK
    BY DEF OwnersInv
  <2>2. S!SoloCallSettles
    <3> SUFFICES ASSUME settled # None
                 PROVE  /\ \A r \in S!Rows : owners[r].count = S!Cardinality(grants)
                        /\ op[settled] = "claim" => S!Rows = {settled} /\ S!IsOwner(actor[settled])
                        /\ op[settled] = "grant" => settled \in grants
                        /\ op[settled] = "revoke" => gone[settled] \notin grants
                        /\ op[settled] = "transfer" => S!IsOwner(subject[settled])
      BY <2>1 DEF S!SoloCallSettles, S!TypeOK, S!Ops
    <3>1. /\ settled = solo /\ stage[settled] = "done" /\ AloneStands(settled)
          /\ \A r \in S!Rows : owners[r].count = S!Cardinality(grants)
      BY DEF SoloInv
    <3>2. S!Rows = {settled} => S!Oldest(S!Rows) = settled
      BY <1>2 DEF OldestIsFirst
    <3> QED
      BY <3>1, <3>2 DEF AloneStands, After, S!IsOwner
  <2> QED
    BY <2>1, <2>2
<1> QED
  BY <1>1, <1>4, <1>5, PTL DEF SpecOperations

-----------------------------------------------------------------------------
(* SettingsReplay, with its Switches.                                      *)

Quiet == \A c \in Calls : stage[c] \in Over \cup {"idle"}

Contents == (SUBSET (Cubes \ Required)) \cup {Unreadable}

SwitchesTyped ==
  /\ TypeOK
  /\ file \in [content : Contents, size : Nat]
  /\ cube \in [Calls -> Cubes \cup {None}]
  /\ on \in [Calls -> BOOLEAN]
  /\ phase = "down" => boots < MaxBoots

(* Calls run only while the process is up; a call that names a cube sets   *)
(* its switch, and publishes only to replay for bookmarks, switched on.    *)
SwitchCallsInv ==
  /\ phase # "up" => Quiet /\ solo = None
  /\ phase \in {"cleaning", "cleared"} => settled = None
  /\ \A c \in Calls : stage[c] = "idle" => cube[c] = None
  /\ \A c \in Calls :
       stage[c] \in {"opening", "writing", "written", "announcing", "replaying"} => cube[c] # None
  /\ \A c \in Calls : stage[c] = "changing" => cube[c] = None
  /\ \A c \in Calls : stage[c] = "announcing" => on[c]
  /\ \A c \in Calls :
       cube[c] # None /\ stage[c] \in {"replaying", "publishing", "copying"} =>
         cube[c] = Bookmarks /\ on[c]
  /\ \A c \in Calls :
       stage[c] \in {"opening", "writing", "written"} => (cube[c] \in next[c] <=> ~ on[c])

(* What a set that runs alone has done to the file and to memory.          *)
AloneSwitches(c) ==
  cube[c] # None =>
    /\ stage[c] = "writing" => file = Truncated
    /\ stage[c] = "written" => file.content = next[c]
    /\ stage[c] \in {"announcing", "replaying", "publishing", "copying", "done"} =>
         file.content = disabled /\ (cube[c] \in disabled <=> ~ on[c])

(* What a call that runs alone publishes is the setting, and it has been   *)
(* copied by the time the call answers, if it is to be.                    *)
AloneReplays(c) ==
  /\ stage[c] \in {"publishing", "copying"} => value[c] = setting
  /\ stage[c] = "done" /\ Enabled(Bookmarks)
       /\ (cube[c] = None \/ (cube[c] = Bookmarks /\ on[c] /\ Enabled(Settings)))
     => copy = setting

AloneInv ==
  /\ solo # None => /\ \A d \in Calls : d # solo => stage[d] \in Over \cup {"idle"}
                    /\ AloneSwitches(solo) /\ AloneReplays(solo)
  /\ settled # None => /\ Quiet /\ stage[settled] = "done"
                       /\ AloneSwitches(settled) /\ AloneReplays(settled)

SwitchesInv == SwitchesTyped /\ SwitchCallsInv /\ AloneInv

LEMMA SwitchesInit == Init => SwitchesInv
<1> SUFFICES ASSUME Init PROVE SwitchesInv
  OBVIOUS
<1>1. TypeOK
  BY BootsAssumption DEF Init, SwitchInit, TypeOK, SwitchTypeOK, Text
<1>2. Text({}) \in [content : Contents, size : Nat]
  BY SizeAssumption DEF Text, Contents
<1> QED
  BY <1>1, <1>2 DEF Init, SwitchInit, SwitchesInv, SwitchesTyped, SwitchCallsInv, AloneInv

(* A call that moves: alone, it goes on as it must; in company, it is not  *)
(* the one that settles.                                                   *)
LEMMA AloneMoves ==
  ASSUME SwitchCallsInv, AloneInv, NEW c \in Calls, stage[c] \notin Over \cup {"idle"},
         \A d \in Calls : d # c => stage'[d] = stage[d],
         solo' = solo, settled' = (IF stage'[c] = "done" /\ solo = c THEN c ELSE None),
         solo \in Calls \cup {None},
         solo = c /\ AloneSwitches(c) /\ AloneReplays(c) => AloneSwitches(c)' /\ AloneReplays(c)'
  PROVE  AloneInv'
<1>1. solo # None => solo = c
  BY DEF AloneInv
<1>2. CASE solo = None
  <2>1. settled' = None \/ (settled' = c /\ solo = c)
    OBVIOUS
  <2> QED
    BY <1>2, <2>1 DEF AloneInv
<1>3. CASE solo # None
  <2>1. solo = c /\ AloneSwitches(c) /\ AloneReplays(c)
    BY <1>1, <1>3 DEF AloneInv
  <2>2. AloneSwitches(c)' /\ AloneReplays(c)'
    BY <2>1
  <2>3. AloneSwitches(solo)' /\ AloneReplays(solo)'
    BY <2>1, <2>2
  <2>4. \A d \in Calls : d # c => stage'[d] \in Over \cup {"idle"}
    BY <1>3, <2>1 DEF AloneInv
  <2>5. settled' # None => /\ settled' = c /\ stage'[c] = "done" /\ Quiet'
                           /\ AloneSwitches(settled)' /\ AloneReplays(settled)'
    BY <2>1, <2>2, <2>4 DEF Quiet, Over
  <2> QED
    BY <2>1, <2>3, <2>4, <2>5 DEF AloneInv
<1> QED
  BY <1>2, <1>3

(* The parts of the type invariant, as the steps below need them.          *)
LEMMA SwitchesTypes ==
  ASSUME SwitchesTyped
  PROVE  /\ phase \in {"down", "cleaning", "cleared", "up"} /\ mounted \in Mounts \cup {Cubes}
         /\ disabled \subseteq Cubes \ Required
         /\ file \in [content : Contents, size : Nat]
         /\ boots \in 0..MaxBoots /\ (phase = "down" => boots < MaxBoots)
         /\ next \in [Calls -> SUBSET (Cubes \ Required)]
         /\ solo \in Calls \cup {None} /\ settled \in Calls \cup {None}
         /\ setting \in Values /\ copy \in Values /\ value \in [Calls -> Values]
         /\ stage \in [Calls -> Over \cup {"idle", "opening", "writing", "written", "announcing",
                                           "changing", "replaying", "publishing", "copying"}]
         /\ cube \in [Calls -> Cubes \cup {None}] /\ on \in [Calls -> BOOLEAN]
  BY DEF SwitchesTyped, TypeOK, SwitchTypeOK

LEMMA SwitchesTypedNext ==
  ASSUME phase' \in {"down", "cleaning", "cleared", "up"}, mounted' \in Mounts \cup {Cubes},
         disabled' \subseteq Cubes \ Required,
         file' \in [content : Contents, size : Nat],
         boots' \in 0..MaxBoots, phase' = "down" => boots' < MaxBoots,
         next' \in [Calls -> SUBSET (Cubes \ Required)],
         solo' \in Calls \cup {None}, settled' \in Calls \cup {None},
         setting' \in Values, copy' \in Values, value' \in [Calls -> Values],
         stage' \in [Calls -> Over \cup {"idle", "opening", "writing", "written", "announcing",
                                         "changing", "replaying", "publishing", "copying"}],
         cube' \in [Calls -> Cubes \cup {None}], on' \in [Calls -> BOOLEAN]
  PROVE  SwitchesTyped'
<1>1. file'.content \in Contents
  OBVIOUS
<1>2. SwitchTypeOK'
  BY <1>1 DEF SwitchTypeOK, Contents
<1>3. TypeOK'
  BY <1>2 DEF TypeOK
<1> QED
  BY <1>3 DEF SwitchesTyped

(* A call that starts is alone if nothing else runs.                       *)
LEMMA AloneStarts ==
  ASSUME SwitchesTyped, NEW c \in Calls, NEW then \in {"opening", "changing", "refused"}, Start(c, then)
  PROVE  AloneInv'
<1>1. /\ stage[c] = "idle" /\ stage'[c] = then /\ settled' = None
      /\ solo' = IF Running = {} THEN c ELSE None
      /\ \A d \in Calls : d # c => stage'[d] = stage[d]
  BY DEF Start, SwitchesTyped, TypeOK
<1>2. CASE Running = {}
  <2>1. solo' = c /\ \A d \in Calls : d # c => stage'[d] \in Over \cup {"idle"}
    BY <1>1, <1>2 DEF Running
  <2>2. AloneSwitches(solo)' /\ AloneReplays(solo)'
    BY <1>1, <2>1 DEF AloneSwitches, AloneReplays
  <2> QED
    BY <1>1, <2>1, <2>2 DEF AloneInv
<1> QED
  BY <1>1, <1>2 DEF AloneInv

LEMMA SetStep ==
  ASSUME SwitchesInv, NEW c \in Calls, NEW x \in Cubes, NEW v \in BOOLEAN, Set(c, x, v),
         UNCHANGED <<setting, copy, value>>
  PROVE  SwitchesInv'
<1>1. PICK then \in {"opening", "refused"} :
        /\ Start(c, then)
        /\ then = "opening" =>
             /\ x \in Required => v
             /\ next' = [next EXCEPT ![c] = IF v THEN disabled \ {x} ELSE disabled \cup {x}]
        /\ then = "refused" => UNCHANGED next
  BY DEF Set
<1>2. /\ phase = "up" /\ stage[c] = "idle" /\ stage' = [stage EXCEPT ![c] = then]
      /\ settled' = None /\ solo' \in Calls \cup {None}
      /\ cube' = [cube EXCEPT ![c] = x] /\ on' = [on EXCEPT ![c] = v]
      /\ UNCHANGED <<phase, mounted, boots, disabled, file>>
  BY <1>1 DEF Set, Start, process
<1>3. next' \in [Calls -> SUBSET (Cubes \ Required)]
  BY <1>1 DEF SwitchesInv, SwitchesTyped, TypeOK, SwitchTypeOK
<1>4. SwitchesTyped'
  <2>1. SwitchesTyped
    BY DEF SwitchesInv
  <2>2. stage' \in [Calls -> Over \cup {"idle", "opening", "writing", "written", "announcing",
                                        "changing", "replaying", "publishing", "copying"}]
    BY <1>2, <2>1, SwitchesTypes DEF Over
  <2>3. cube' \in [Calls -> Cubes \cup {None}] /\ on' \in [Calls -> BOOLEAN]
    BY <1>2, <2>1, SwitchesTypes
  <2> QED
    BY <1>2, <1>3, <2>1, <2>2, <2>3, SwitchesTypes, SwitchesTypedNext
<1>5. /\ stage'[c] = then /\ cube'[c] = x /\ on'[c] = v
      /\ \A d \in Calls : d # c => stage'[d] = stage[d] /\ cube'[d] = cube[d] /\ on'[d] = on[d] /\ next'[d] = next[d]
  BY <1>1, <1>2 DEF SwitchesInv, SwitchesTyped, TypeOK, SwitchTypeOK
<1>6. then = "opening" => (cube'[c] \in next'[c] <=> ~ on'[c])
  BY <1>1, <1>5 DEF SwitchesInv, SwitchesTyped, TypeOK, SwitchTypeOK
<1>7. SwitchCallsInv'
  BY <1>2, <1>5, <1>6, NoneAssumption DEF SwitchesInv, SwitchCallsInv
<1>8. AloneInv'
  BY <1>1, AloneStarts DEF SwitchesInv
<1> QED
  BY <1>4, <1>7, <1>8 DEF SwitchesInv

LEMMA ChangeStep ==
  ASSUME SwitchesInv, NEW c \in Calls, NEW v \in Values, Change(c, v)
  PROVE  SwitchesInv'
<1>1. PICK then \in {"changing", "refused"} : Start(c, then)
  BY DEF Change
<1>2. /\ phase = "up" /\ stage[c] = "idle" /\ stage' = [stage EXCEPT ![c] = then]
      /\ settled' = None /\ solo' \in Calls \cup {None}
      /\ value' = [value EXCEPT ![c] = v]
      /\ UNCHANGED <<phase, mounted, boots, disabled, file, cube, on, next, setting, copy>>
  BY <1>1 DEF Change, Start, process, request
<1>3. SwitchesTyped'
  <2>1. SwitchesTyped
    BY DEF SwitchesInv
  <2>2. stage' \in [Calls -> Over \cup {"idle", "opening", "writing", "written", "announcing",
                                        "changing", "replaying", "publishing", "copying"}]
    BY <1>2, <2>1, SwitchesTypes DEF Over
  <2>3. value' \in [Calls -> Values]
    BY <1>2, <2>1, SwitchesTypes
  <2> QED
    BY <1>2, <2>1, <2>2, <2>3, SwitchesTypes, SwitchesTypedNext
<1>4. stage'[c] = then /\ \A d \in Calls : d # c => stage'[d] = stage[d]
  BY <1>2 DEF SwitchesInv, SwitchesTyped, TypeOK
<1>5. SwitchCallsInv'
  BY <1>2, <1>4 DEF SwitchesInv, SwitchCallsInv
<1>6. AloneInv'
  BY <1>1, AloneStarts DEF SwitchesInv
<1> QED
  BY <1>3, <1>5, <1>6 DEF SwitchesInv

(* A step of a call under way.                                             *)
LEMMA CallStep ==
  ASSUME SwitchesInv, NEW c \in Calls,
         \/ (Open(c) \/ Write(c) \/ Fail(c) \/ Apply(c)) /\ UNCHANGED <<setting, copy, value>>
         \/ Store(c) \/ Publish(c) \/ Copy(c) \/ Replay(c) \/ ReadSetting(c)
  PROVE  SwitchesInv'
<1> DEFINE Later == Over \cup {"idle", "opening", "writing", "written", "announcing",
                               "changing", "replaying", "publishing", "copying"}
<1>1. PICK then \in Later : Go(c, then)
  BY DEF Open, Write, Fail, Apply, Store, Publish, Copy, Replay, ReadSetting, Step, Announce, Over
<1>2. /\ stage' = [stage EXCEPT ![c] = then]
      /\ settled' = (IF then = "done" /\ solo = c THEN c ELSE None)
      /\ UNCHANGED <<phase, mounted, boots, cube, on, next, solo>>
  BY <1>1 DEF Go, process, request
<1>3. stage'[c] = then /\ \A d \in Calls : d # c => stage'[d] = stage[d]
  BY <1>2 DEF SwitchesInv, SwitchesTyped, TypeOK
<1>4. stage[c] \notin Over \cup {"idle"} /\ phase = "up" /\ solo \in Calls \cup {None}
  <2>1. stage[c] \notin Over \cup {"idle"}
    BY DEF Open, Write, Fail, Apply, Store, Publish, Copy, Replay, ReadSetting, Step, Announce, Over
  <2> QED
    BY <2>1 DEF SwitchesInv, SwitchCallsInv, Quiet, SwitchesTyped, TypeOK, SwitchTypeOK
<1>5. stage' \in [Calls -> Later] /\ settled' \in Calls \cup {None}
  <2>1. stage \in [Calls -> Later] /\ solo \in Calls \cup {None}
    BY SwitchesTypes DEF SwitchesInv
  <2> HIDE DEF Later
  <2> QED
    BY <1>2, <2>1
<1>6. ASSUME disabled' \in SUBSET (Cubes \ Required),
             file' \in [content : Contents, size : Nat],
             setting' \in Values, copy' \in Values, value' \in [Calls -> Values]
      PROVE  SwitchesTyped'
  <2>1. SwitchesTyped
    BY DEF SwitchesInv
  <2>2. disabled' \subseteq Cubes \ Required
    BY <1>6
  <2> QED
    BY <1>2, <1>4, <1>5, <1>6, <2>1, <2>2, SwitchesTypes, SwitchesTypedNext
<1> HIDE DEF Later
<1>7. ASSUME then # "idle", then # "changing", then # "opening",
             then \in {"writing", "written", "announcing", "replaying"} => cube[c] # None,
             then = "announcing" => on[c],
             cube[c] # None /\ then \in {"replaying", "publishing", "copying"} => cube[c] = Bookmarks /\ on[c],
             then \in {"writing", "written"} => stage[c] \in {"opening", "writing"}
      PROVE  SwitchCallsInv'
  BY <1>2, <1>3, <1>4, <1>7 DEF SwitchesInv, SwitchCallsInv
<1>8. ASSUME solo = c /\ AloneSwitches(c) /\ AloneReplays(c) => AloneSwitches(c)' /\ AloneReplays(c)'
      PROVE  AloneInv'
  BY <1>2, <1>3, <1>4, <1>8, AloneMoves DEF SwitchesInv
<1>9. /\ disabled \in SUBSET (Cubes \ Required) /\ next[c] \in SUBSET (Cubes \ Required)
       /\ file \in [content : Contents, size : Nat]
       /\ setting \in Values /\ copy \in Values /\ value \in [Calls -> Values]
  BY DEF SwitchesInv, SwitchesTyped, TypeOK, SwitchTypeOK
<1>10. Size[next[c]] \in Nat
  BY <1>9, SizeAssumption
<1>11. CASE Open(c) /\ UNCHANGED <<setting, copy, value>>
  <2>1. /\ stage[c] = "opening" /\ then = "writing" /\ file' = Truncated
        /\ UNCHANGED <<disabled, setting, copy, value>>
    BY <1>3, <1>11 DEF Open, Go, SwitchesInv, SwitchesTyped, TypeOK
  <2>2. SwitchesTyped'
    <3>1. file' \in [content : Contents, size : Nat]
      <4>1. Unreadable \in Contents
        BY DEF Contents
      <4> QED
        BY <2>1, <4>1 DEF Truncated
    <3> QED
      BY <1>6, <1>9, <2>1, <3>1
  <2>3. SwitchCallsInv'
    BY <1>7, <2>1 DEF SwitchesInv, SwitchCallsInv
  <2>4. AloneInv'
    BY <1>2, <1>3, <1>8, <2>1 DEF AloneSwitches, AloneReplays, Truncated
  <2> QED
    BY <2>2, <2>3, <2>4 DEF SwitchesInv
<1>12. CASE Write(c) /\ UNCHANGED <<setting, copy, value>>
  <2>1. /\ stage[c] = "writing" /\ then = "written" /\ file' = Overwritten(file, next[c])
        /\ UNCHANGED <<disabled, setting, copy, value>>
    BY <1>3, <1>12 DEF Write, Go, SwitchesInv, SwitchesTyped, TypeOK
  <2>2. file' \in [content : Contents, size : Nat]
    <3>1. CASE Size[next[c]] >= file.size
      <4>1. file' = [content |-> next[c], size |-> Size[next[c]]]
        BY <2>1, <3>1 DEF Overwritten, Text
      <4> QED
        BY <1>9, <1>10, <4>1 DEF Contents
    <3>2. CASE ~ (Size[next[c]] >= file.size)
      <4>1. file' = [file EXCEPT !.content = Unreadable]
        BY <2>1, <3>2 DEF Overwritten
      <4>2. Unreadable \in Contents
        BY DEF Contents
      <4> QED
        BY <1>9, <4>1, <4>2
    <3> QED
      BY <3>1, <3>2
  <2>3. file = Truncated => file'.content = next[c]
    BY <1>10, <2>1 DEF Overwritten, Text, Truncated
  <2>4. SwitchesTyped'
    BY <1>6, <1>9, <2>1, <2>2
  <2>5. SwitchCallsInv'
    BY <1>7, <2>1 DEF SwitchesInv, SwitchCallsInv
  <2>6. AloneInv'
    BY <1>2, <1>3, <1>8, <2>1, <2>3 DEF AloneSwitches, AloneReplays
  <2> QED
    BY <2>4, <2>5, <2>6 DEF SwitchesInv
<1>13. CASE Fail(c) /\ UNCHANGED <<setting, copy, value>>
  <2>1. then = "refused" /\ UNCHANGED <<disabled, file, setting, copy, value>>
    BY <1>3, <1>13 DEF Fail, Go, SwitchesInv, SwitchesTyped, TypeOK
  <2>2. SwitchesTyped'
    BY <1>6, <1>9, <2>1
  <2>3. SwitchCallsInv'
    BY <1>7, <2>1
  <2>4. AloneInv'
    BY <1>3, <1>8, <2>1 DEF AloneSwitches, AloneReplays
  <2> QED
    BY <2>2, <2>3, <2>4 DEF SwitchesInv
<1>14. CASE Apply(c) /\ UNCHANGED <<setting, copy, value>>
  <2>1. /\ stage[c] = "written" /\ then = (IF on[c] THEN "announcing" ELSE "done") /\ disabled' = next[c]
        /\ UNCHANGED <<file, setting, copy, value>>
    BY <1>3, <1>14 DEF Apply, Go, SwitchesInv, SwitchesTyped, TypeOK
  <2>2. cube[c] # None /\ (cube[c] \in next[c] <=> ~ on[c])
    BY <2>1 DEF SwitchesInv, SwitchCallsInv
  <2>3. SwitchesTyped'
    BY <1>6, <1>9, <2>1
  <2>4. SwitchCallsInv'
    BY <1>7, <2>1, <2>2
  <2>5. AloneInv'
    BY <1>2, <1>3, <1>8, <2>1, <2>2 DEF AloneSwitches, AloneReplays
  <2> QED
    BY <2>3, <2>4, <2>5 DEF SwitchesInv
<1>15. CASE Store(c)
  <2>1. /\ stage[c] = "changing" /\ then = "publishing" /\ setting' = value[c]
        /\ UNCHANGED <<disabled, file, copy, value>>
    BY <1>3, <1>15 DEF Store, Step, Go, SwitchesInv, SwitchesTyped, TypeOK
  <2>2. cube[c] = None
    BY <2>1 DEF SwitchesInv, SwitchCallsInv
  <2>3. SwitchesTyped'
    BY <1>6, <1>9, <2>1
  <2>4. SwitchCallsInv'
    BY <1>7, <2>1, <2>2
  <2>5. AloneInv'
    BY <1>2, <1>3, <1>8, <2>1, <2>2 DEF AloneSwitches, AloneReplays
  <2> QED
    BY <2>3, <2>4, <2>5 DEF SwitchesInv
<1>16. CASE Publish(c)
  <2>1. /\ stage[c] = "publishing" /\ then = (IF Enabled(Bookmarks) THEN "copying" ELSE "done")
        /\ UNCHANGED <<disabled, file, setting, copy, value>>
    BY <1>3, <1>16 DEF Publish, Step, Go, SwitchesInv, SwitchesTyped, TypeOK
  <2>2. cube[c] # None => cube[c] = Bookmarks /\ on[c]
    BY <2>1 DEF SwitchesInv, SwitchCallsInv
  <2>3. Enabled(Bookmarks)' = Enabled(Bookmarks)
    BY <1>2, <2>1 DEF Enabled
  <2>4. SwitchesTyped'
    BY <1>6, <1>9, <2>1
  <2>5. SwitchCallsInv'
    BY <1>7, <2>1, <2>2
  <2>6. AloneInv'
    BY <1>2, <1>3, <1>8, <2>1, <2>2, <2>3 DEF AloneSwitches, AloneReplays
  <2> QED
    BY <2>4, <2>5, <2>6 DEF SwitchesInv
<1>17. CASE Copy(c)
  <2>1. /\ stage[c] = "copying" /\ then = "done" /\ copy' = value[c]
        /\ UNCHANGED <<disabled, file, setting, value>>
    BY <1>3, <1>17 DEF Copy, Step, Go, SwitchesInv, SwitchesTyped, TypeOK
  <2>2. SwitchesTyped'
    BY <1>6, <1>9, <2>1
  <2>3. SwitchCallsInv'
    BY <1>7, <2>1
  <2>4. AloneInv'
    BY <1>2, <1>3, <1>8, <2>1 DEF AloneSwitches, AloneReplays
  <2> QED
    BY <2>2, <2>3, <2>4 DEF SwitchesInv
<1>18. CASE Replay(c)
  <2>1. /\ stage[c] = "announcing"
        /\ then = (IF cube[c] = Bookmarks /\ Enabled(Settings) THEN "replaying" ELSE "done")
        /\ UNCHANGED <<disabled, file, setting, copy, value>>
    BY <1>3, <1>18 DEF Replay, Announce, Go, SwitchesInv, SwitchesTyped, TypeOK
  <2>2. cube[c] # None /\ on[c]
    BY <2>1 DEF SwitchesInv, SwitchCallsInv
  <2>3. Enabled(Settings)' = Enabled(Settings)
    BY <1>2, <2>1 DEF Enabled
  <2>4. SwitchesTyped'
    BY <1>6, <1>9, <2>1
  <2>5. SwitchCallsInv'
    BY <1>7, <2>1, <2>2
  <2>6. AloneInv'
    BY <1>2, <1>3, <1>8, <2>1, <2>2, <2>3 DEF AloneSwitches, AloneReplays
  <2> QED
    BY <2>4, <2>5, <2>6 DEF SwitchesInv
<1>19. CASE ReadSetting(c)
  <2>1. /\ stage[c] = "replaying" /\ then = "publishing" /\ value' = [value EXCEPT ![c] = setting]
        /\ UNCHANGED <<disabled, file, setting, copy>>
    BY <1>3, <1>19 DEF ReadSetting, Step, Go, SwitchesInv, SwitchesTyped, TypeOK
  <2>2. value'[c] = setting /\ value' \in [Calls -> Values]
    BY <1>9, <2>1
  <2>3. SwitchesTyped'
    BY <1>6, <1>9, <2>1, <2>2
  <2>4. SwitchCallsInv'
    BY <1>7, <2>1 DEF SwitchesInv, SwitchCallsInv
  <2>5. AloneInv'
    BY <1>2, <1>3, <1>8, <2>1, <2>2 DEF AloneSwitches, AloneReplays
  <2> QED
    BY <2>3, <2>4, <2>5 DEF SwitchesInv
<1> QED
  BY <1>11, <1>12, <1>13, <1>14, <1>15, <1>16, <1>17, <1>18, <1>19

(* A step of the process: no call moves, except that a crash ends them.    *)
LEMMA ProcessStep ==
  ASSUME SwitchesInv, UNCHANGED <<setting, copy, value>>,
         Crash \/ (\E m \in Mounts : Boot(m)) \/ CleanOpen \/ CleanWrite
  PROVE  SwitchesInv'
<1>1. SwitchesTyped /\ SwitchCallsInv /\ AloneInv
  BY DEF SwitchesInv
<1>2. CASE Crash
  <2>1. /\ phase' = "down" /\ boots < MaxBoots /\ solo' = None
        /\ stage' = [c \in Calls |-> IF c \in Running THEN "dead" ELSE stage[c]]
        /\ UNCHANGED <<mounted, disabled, file, boots, cube, on, next, settled>>
    BY <1>2 DEF Crash, request
  <2>2. \A c \in Calls : /\ stage'[c] \in Over \cup {"idle"}
                         /\ stage'[c] \in {"dead", stage[c]}
                         /\ stage[c] \in Over \cup {"idle"} => stage'[c] = stage[c]
    BY <2>1 DEF Running, Over
  <2>3. SwitchesTyped'
    <3>1. stage' \in [Calls -> Over \cup {"idle", "opening", "writing", "written", "announcing",
                                        "changing", "replaying", "publishing", "copying"}]
      BY <1>1, <2>1, SwitchesTypes DEF Over
    <3> QED
      BY <1>1, <2>1, <3>1, SwitchesTypes, SwitchesTypedNext
  <2>4. SwitchCallsInv'
    BY <1>1, <2>1, <2>2 DEF SwitchCallsInv, Quiet, Over
  <2>5. ASSUME settled # None
        PROVE  /\ Quiet' /\ stage'[settled] = "done"
               /\ AloneSwitches(settled)' /\ AloneReplays(settled)'
    <3>1. settled \in Calls /\ stage[settled] = "done" /\ AloneSwitches(settled) /\ AloneReplays(settled)
      BY <1>1, <2>5, SwitchesTypes DEF AloneInv
    <3>2. Quiet' /\ stage'[settled] = "done"
      BY <2>2, <3>1 DEF Quiet, Over
    <3>3. UNCHANGED <<Enabled(Bookmarks), Enabled(Settings)>>
      BY <2>1 DEF Enabled
    <3> QED
      BY <2>1, <3>1, <3>2, <3>3 DEF AloneSwitches, AloneReplays
  <2>6. AloneInv'
    BY <2>1, <2>5 DEF AloneInv
  <2> QED
    BY <2>3, <2>4, <2>6 DEF SwitchesInv
<1>3. ASSUME NEW m \in Mounts, Boot(m)
      PROVE  SwitchesInv'
  <2>1. /\ phase = "down" /\ phase' \in {"up", "cleaning"}
        /\ mounted' = m /\ file.content # Unreadable /\ disabled' = file.content \cap m
        /\ boots' = boots + 1 /\ settled' = None
        /\ UNCHANGED <<file, stage, cube, on, next, solo>>
    BY <1>3 DEF Boot, request
  <2>2. disabled' \subseteq Cubes \ Required
    BY <1>1, <2>1, SwitchesTypes DEF Contents
  <2>3. boots' \in 0..MaxBoots
    BY <1>1, <2>1, BootsAssumption, SwitchesTypes
  <2>4. SwitchesTyped'
    BY <1>1, <2>1, <2>2, <2>3, SwitchesTypes, SwitchesTypedNext
  <2>5. SwitchCallsInv'
    BY <1>1, <2>1 DEF SwitchCallsInv, Quiet
  <2>6. AloneInv'
    BY <1>1, <2>1 DEF AloneInv, SwitchCallsInv
  <2> QED
    BY <2>4, <2>5, <2>6 DEF SwitchesInv
<1>4. ASSUME CleanOpen \/ CleanWrite
      PROVE  SwitchesInv'
  <2>1. /\ phase \in {"cleaning", "cleared"} /\ phase' \in {"cleared", "up"}
        /\ file' \in {Truncated, Text(disabled)}
        /\ UNCHANGED <<mounted, disabled, boots, stage, cube, on, next, solo, settled>>
    BY <1>4 DEF CleanOpen, CleanWrite, request, history
  <2>2. file' \in [content : Contents, size : Nat]
    <3>1. Truncated \in [content : Contents, size : Nat]
      BY DEF Truncated, Contents
    <3>2. disabled \in Contents /\ Size[disabled] \in Nat
      BY <1>1, SizeAssumption, SwitchesTypes DEF Contents
    <3>3. Text(disabled) \in [content : Contents, size : Nat]
      BY <3>2 DEF Text
    <3> QED
      BY <2>1, <3>1, <3>3
  <2>3. SwitchesTyped'
    BY <1>1, <2>1, <2>2, SwitchesTypes, SwitchesTypedNext
  <2>4. SwitchCallsInv'
    BY <1>1, <2>1 DEF SwitchCallsInv, Quiet
  <2>5. AloneInv'
    BY <1>1, <2>1 DEF AloneInv, SwitchCallsInv
  <2> QED
    BY <2>3, <2>4, <2>5 DEF SwitchesInv
<1> QED
  BY <1>2, <1>3, <1>4

LEMMA SwitchesStep == ASSUME SwitchesInv, Next PROVE SwitchesInv'
<1>1. CASE SwitchStep /\ UNCHANGED <<setting, copy, value>>
  <2>1. CASE \E c \in Calls : Open(c) \/ Write(c) \/ Fail(c) \/ Apply(c)
    BY <1>1, <2>1, CallStep
  <2>2. CASE \E c \in Calls, x \in Cubes, v \in BOOLEAN : Set(c, x, v)
    BY <1>1, <2>2, SetStep
  <2>3. CASE (\E m \in Mounts : Boot(m)) \/ CleanOpen \/ CleanWrite \/ Crash
    BY <1>1, <2>3, ProcessStep
  <2> QED
    BY <1>1, <2>1, <2>2, <2>3 DEF SwitchStep
<1>2. CASE \E c \in Calls, v \in Values : Change(c, v)
  BY <1>2, ChangeStep
<1>3. CASE \E c \in Calls : Store(c) \/ Publish(c) \/ Copy(c) \/ Replay(c) \/ ReadSetting(c)
  BY <1>3, CallStep
<1> QED
  BY <1>1, <1>2, <1>3 DEF Next

(* The invariant, for the parts side by side: where another part runs, the *)
(* process of this one never boots.                                        *)
SwitchesPart ==
  /\ part = "switches" => SwitchesInv
  /\ part # "switches" => phase = "none"

LEMMA SwitchesPartHolds == SpecOperations => []SwitchesPart
<1>1. InitOperations => SwitchesPart
  BY SwitchesInit DEF InitOperations, SwitchesPart, NoSwitches
<1>2. SwitchesPart /\ [NextOperations]_all => SwitchesPart'
  <2> SUFFICES ASSUME SwitchesPart, [NextOperations]_all PROVE SwitchesPart'
    OBVIOUS
  <2>1. part' = part
    BY DEF NextOperations, all
  <2>2. CASE part # "switches"
    <3>1. phase' = phase
      BY <2>2 DEF NextOperations, all, switchesOnly
    <3> QED
      BY <2>1, <2>2, <3>1 DEF SwitchesPart
  <2>3. CASE part = "switches" /\ NextOperations
    <3>1. Next
      BY <2>3 DEF NextOperations
    <3> QED
      BY <2>1, <2>3, <3>1, SwitchesStep DEF SwitchesPart
  <2>4. CASE part = "switches" /\ UNCHANGED all
    <3>1. UNCHANGED <<stage, solo, settled, phase, mounted, disabled, file, boots, cube, on, next, setting, copy, value>>
      BY <2>4 DEF all, switchesOnly
    <3>2. SwitchesInv'
      BY <2>4, <3>1 DEF SwitchesPart, SwitchesInv, SwitchesTyped, SwitchCallsInv, AloneInv, AloneSwitches,
                        AloneReplays, Quiet, TypeOK, SwitchTypeOK, Enabled
    <3> QED
      BY <2>1, <2>4, <3>2 DEF SwitchesPart
  <2> QED
    BY <2>2, <2>3, <2>4
<1> QED
  BY <1>1, <1>2, PTL DEF SpecOperations

(* A set of a switch that runs alone makes memory and file agree, whatever *)
(* overlapping sets and crashes left behind; a change of the setting, or   *)
(* bookmarks switched back on, that runs alone makes the copy catch up     *)
(* before it answers.                                                      *)
THEOREM LoneSetRepairsSwitches == SpecOperations => []SwitchesSettle
<1>1. SwitchesPart => SwitchesSettle
  <2> SUFFICES ASSUME SwitchesInv PROVE TypeOK /\ SoloSetSettles /\ SoloReplayLands
    BY DEF SwitchesPart, SwitchesSettle
  <2>1. TypeOK
    BY DEF SwitchesInv, SwitchesTyped
  <2>2. SoloSetSettles /\ SoloReplayLands
    BY DEF SwitchesInv, AloneInv, AloneSwitches, AloneReplays, SoloSetSettles, SoloReplayLands
  <2> QED
    BY <2>1, <2>2
<1> QED
  BY <1>1, SwitchesPartHolds, PTL

(* After such a set a restart turns nothing on or off, except that it      *)
(* forgets cubes which are gone from disk.                                 *)
THEOREM BootKeepsSettledSwitches == SpecOperations => SettledSwitchesSurvive
<1>1. SwitchesPart /\ [NextOperations]_all
        => [phase = "down" /\ phase' # "down" /\ settled # None /\ cube[settled] # None
              => disabled' = disabled \cap mounted']_switchVars
  <2> SUFFICES ASSUME SwitchesPart, [NextOperations]_all,
                      phase = "down", phase' # "down", settled # None, cube[settled] # None
               PROVE  disabled' = disabled \cap mounted'
    OBVIOUS
  <2>1. part = "switches" /\ SwitchesInv
    BY DEF SwitchesPart
  <2>2. Next
    BY <2>1 DEF NextOperations, all, switchesOnly
  <2>3. file.content = disabled
    BY <2>1 DEF SwitchesInv, AloneInv, AloneSwitches
  <2>4. Quiet
    BY <2>1 DEF SwitchesInv, AloneInv
  <2>5. PICK m \in Mounts : Boot(m)
    <3>1. \A c \in Calls : stage[c] \in Over \cup {"idle"}
      BY <2>4 DEF Quiet
    <3> QED
      BY <2>2, <3>1 DEF Next, SwitchStep, CleanOpen, CleanWrite, Crash, Set, Change, Start, Open, Write, Fail,
                        Apply, Go, Store, Publish, Copy, Replay, ReadSetting, Step, Announce, process
  <2> QED
    BY <2>3, <2>5 DEF Boot
<1> QED
  BY <1>1, SwitchesPartHolds, PTL DEF SpecOperations, SettledSwitchesSurvive

-----------------------------------------------------------------------------
(* SortKeys.                                                               *)

Scan == [stage : {"walking", "writing", "done"}, after : Nat, stale : SUBSET [row : Ids, body : L!Body],
         last : BOOLEAN, passed : SUBSET Ids]
WriteCall == [stage : {"idle", "read", "batched", "over"}, proc : Nodes \cup {None}, row : Ids \cup {None},
              body : L!Body \cup {None}, named : BOOLEAN]
Walk == [stage : {"counting", "selecting", "read"}, proc : Nodes, ask : Asks, n : Nat \ {0}, total : Nat,
         shown : Seq(Ids), quiet : BOOLEAN]

ListsTyped ==
  /\ things \in [Ids -> {None} \cup L!Row]
  /\ scan \in [Nodes -> Scan]
  /\ writes \in [Writers -> WriteCall]
  /\ behind \in [Nodes -> SUBSET Ids]
  /\ list \in {[stage |-> "idle"], [stage |-> "over"]} \cup Walk

(* A call that has read, or holds a batch, is about a row that is there.   *)
WritesInv ==
  \A c \in Writers :
    writes[c].stage \in {"read", "batched"} =>
      /\ writes[c].proc \in Nodes /\ writes[c].body \in L!Body
      /\ writes[c].row \in Ids /\ things[writes[c].row] # None

(* What is stale was passed, a row at most once.                           *)
StaleInv(p) ==
  /\ scan[p].stage # "writing" => scan[p].stale = {}
  /\ \A s \in scan[p].stale : s.row \in scan[p].passed /\ things[s.row] # None
  /\ \A s, q \in scan[p].stale : s.row = q.row => s = q

(* What a scan has passed: the rows up to where it is, in the end all.     *)
PassedInv(p) ==
  /\ scan[p].stage = "walking" \/ (scan[p].stage = "writing" /\ ~ scan[p].last)
       => scan[p].passed = {r \in Ids : r <= scan[p].after}
  /\ scan[p].stage = "done" \/ (scan[p].stage = "writing" /\ scan[p].last) => scan[p].passed = Ids
  /\ behind[p] \subseteq scan[p].passed

(* A row that was passed, and is not behind, has the process's keys or is  *)
(* about to get them: the body it was read with stands.                    *)
KeysInv(p) ==
  \A r \in scan[p].passed \ behind[p] :
    things[r] # None =>
      \/ things[r].keys = L!KeysFor(L!Release(p), things[r].body)
      \/ [row |-> r, body |-> things[r].body] \in scan[p].stale

ScansInv == \A p \in Nodes : StaleInv(p) /\ PassedInv(p) /\ KeysInv(p)

(* What a reader was shown, while nobody wrote: the first rows in order.   *)
WalkInv ==
  list.stage \in {"counting", "selecting", "read"} =>
    /\ scan[list.proc].stage = "done"
    /\ list.quiet =>
         /\ Len(list.shown) <= Cardinality(L!Matching(list.ask))
         /\ \A i \in 1..Len(list.shown) :
              /\ list.shown[i] \in L!Matching(list.ask)
              /\ L!Place(list.shown[i], L!Matching(list.ask), list.ask.descending) = i
         /\ list.stage # "read" /\ list.ask.by = "page" =>
              Len(list.shown) = (list.n - 1) * L!Limit(list.ask)
         /\ list.stage = "selecting" => list.total = Cardinality(L!Matching(list.ask))
         /\ list.stage = "read" => Len(list.shown) = Cardinality(L!Matching(list.ask))

ListsInv == ListsTyped /\ WritesInv /\ ScansInv /\ WalkInv

LEMMA CardinalityOfLists == \A T : L!Cardinality(T) = Cardinality(T)
  BY DEF L!Cardinality, Cardinality

LEMMA MatchingIs ==
  ASSUME NEW ask \in Asks
  PROVE  /\ L!Matching(ask) \subseteq L!Present
         /\ L!Present \subseteq Ids
         /\ IsFiniteSet(L!Matching(ask))
         /\ Cardinality(L!Matching(ask)) \in Nat
<1>1. L!Matching(ask) \subseteq L!Present /\ L!Present \subseteq Ids
  BY DEF L!Matching, L!Present
<1>2. L!Matching(ask) \in SUBSET Ids
  BY <1>1
<1>3. IsFiniteSet(L!Matching(ask))
  BY <1>2, FS_Subset, ListsAssumption
<1> QED
  BY <1>1, <1>3, FS_CardinalityType

(* The stored keys, then the ids, order the rows totally.                  *)
LEMMA RowsAreOrdered ==
  ASSUME ListsTyped, NEW ask \in Asks, NEW a \in L!Present, NEW b \in L!Present, NEW c \in L!Present
  PROVE  /\ ~ (L!Before(a, b, ask.descending) /\ L!Before(b, a, ask.descending))
         /\ a # b => L!Before(a, b, ask.descending) \/ L!Before(b, a, ask.descending)
         /\ L!Before(a, b, ask.descending) /\ L!Before(b, c, ask.descending) => L!Before(a, c, ask.descending)
<1> DEFINE Low(x, y) ==
      \/ things[x].keys = L!NoKeys /\ things[y].keys # L!NoKeys
      \/ /\ (things[x].keys = L!NoKeys) = (things[y].keys = L!NoKeys)
         /\ (things[x].keys.k < things[y].keys.k \/ (things[x].keys.k = things[y].keys.k /\ x < y))
<1>1. \A x \in {a, b, c} : x \in Int /\ things[x].keys.k \in Int
  BY ListsAssumption DEF ListsTyped, L!Present, L!Row
<1>2. ~ (Low(a, b) /\ Low(b, a)) /\ (a # b => Low(a, b) \/ Low(b, a))
  BY <1>1
<1>3. (Low(a, b) /\ Low(b, c) => Low(a, c)) /\ (Low(b, a) /\ Low(c, b) => Low(c, a))
  BY <1>1
<1>4. \A x, y : L!Before(x, y, ask.descending) <=> IF ask.descending THEN Low(y, x) ELSE Low(x, y)
  BY DEF L!Before
<1> HIDE DEF Low
<1> QED
  BY <1>2, <1>3, <1>4

LEMMA PlacesAreInOrder ==
  ASSUME ListsTyped, NEW ask \in Asks, NEW M \in SUBSET L!Present
  PROVE  /\ \A a \in M : L!Place(a, M, ask.descending) \in 1..Cardinality(M)
         /\ \A a, b \in M : L!Before(a, b, ask.descending) =>
              L!Place(a, M, ask.descending) < L!Place(b, M, ask.descending)
<1> DEFINE upTo(a) == {q \in M : q = a \/ L!Before(q, a, ask.descending)}
<1>1. M \in SUBSET Ids
  BY DEF L!Present
<1>2. IsFiniteSet(M)
  BY <1>1, FS_Subset, ListsAssumption
<1>3. \A a : L!Place(a, M, ask.descending) = Cardinality(upTo(a))
  BY CardinalityOfLists DEF L!Place
<1>4. \A a : upTo(a) \in SUBSET M
  OBVIOUS
<1> HIDE DEF upTo
<1>5. \A a : IsFiniteSet(upTo(a)) /\ Cardinality(upTo(a)) \in Nat /\ Cardinality(upTo(a)) <= Cardinality(M)
  BY <1>2, <1>4, FS_Subset, FS_CardinalityType
<1>6. Cardinality(M) \in Nat
  BY <1>2, FS_CardinalityType
<1>7. ASSUME NEW a \in M PROVE L!Place(a, M, ask.descending) \in 1..Cardinality(M)
  <2>1. upTo(a) # {}
    BY DEF upTo
  <2>2. Cardinality(upTo(a)) # 0
    BY <1>5, <2>1, FS_EmptySet
  <2> QED
    BY <1>3, <1>5, <1>6, <2>2
<1>8. ASSUME NEW a \in M, NEW b \in M, L!Before(a, b, ask.descending)
      PROVE  L!Place(a, M, ask.descending) < L!Place(b, M, ask.descending)
  <2>1. upTo(a) \in SUBSET upTo(b)
    BY <1>8, RowsAreOrdered DEF upTo
  <2>2. b \in upTo(b) /\ b \notin upTo(a)
    BY <1>8, RowsAreOrdered DEF upTo
  <2>3. Cardinality(upTo(a)) <= Cardinality(upTo(b)) /\ Cardinality(upTo(a)) # Cardinality(upTo(b))
    BY <1>5, <2>1, <2>2, FS_Subset
  <2> QED
    BY <1>3, <1>5, <2>3
<1> QED
  BY <1>7, <1>8

LEMMA PlacesDiffer ==
  ASSUME ListsTyped, NEW ask \in Asks, NEW M \in SUBSET L!Present, NEW a \in M, NEW b \in M
  PROVE  /\ L!Place(a, M, ask.descending) = L!Place(b, M, ask.descending) => a = b
         /\ L!Place(a, M, ask.descending) < L!Place(b, M, ask.descending) => L!Before(a, b, ask.descending)
<1>1. L!Place(a, M, ask.descending) \in Int /\ L!Place(b, M, ask.descending) \in Int
  BY PlacesAreInOrder
<1>2. L!Before(a, b, ask.descending) => L!Place(a, M, ask.descending) < L!Place(b, M, ask.descending)
  BY PlacesAreInOrder
<1>3. L!Before(b, a, ask.descending) => L!Place(b, M, ask.descending) < L!Place(a, M, ask.descending)
  BY PlacesAreInOrder
<1>4. a # b => L!Before(a, b, ask.descending) \/ L!Before(b, a, ask.descending)
  BY RowsAreOrdered
<1> QED
  BY <1>1, <1>2, <1>3, <1>4

(* Every place is taken, so what Sorted picks for a place stands there.    *)
LEMMA SortedPicks ==
  ASSUME ListsTyped, NEW ask \in Asks, NEW M \in SUBSET L!Present, NEW v \in 1..Cardinality(M)
  PROVE  /\ L!Sorted(M, ask.descending)[v] \in M
         /\ L!Place(L!Sorted(M, ask.descending)[v], M, ask.descending) = v
<1> DEFINE N == Cardinality(M)
           place == [a \in M |-> L!Place(a, M, ask.descending)]
           T == (1..N) \ {v}
<1>1. IsFiniteSet(M) /\ N \in Nat
  BY FS_Subset, FS_CardinalityType, ListsAssumption DEF L!Present
<1>2. IsFiniteSet(1..N) /\ Cardinality(1..N) = N
  BY <1>1, FS_Interval
<1>3. IsFiniteSet(T) /\ Cardinality(T) = N - 1
  BY <1>2, FS_RemoveElement
<1>4. \E a \in M : L!Place(a, M, ask.descending) = v
  <2> SUFFICES ASSUME \A a \in M : L!Place(a, M, ask.descending) # v PROVE FALSE
    OBVIOUS
  <2>1. place \in [M -> T]
    BY PlacesAreInOrder
  <2>2. Cardinality(T) < Cardinality(M)
    BY <1>1, <1>3
  <2> HIDE DEF place, T
  <2>3. PICK a, b \in M : a # b /\ place[a] = place[b]
    BY <1>1, <1>3, <2>1, <2>2, FS_PigeonHole
  <2>4. L!Place(a, M, ask.descending) = L!Place(b, M, ask.descending)
    BY <2>3 DEF place
  <2> QED
    BY <2>3, <2>4, PlacesDiffer
<1>5. L!Sorted(M, ask.descending)[v] = CHOOSE r \in M : L!Place(r, M, ask.descending) = v
  BY CardinalityOfLists DEF L!Sorted
<1> QED
  BY <1>4, <1>5

LEMMA ListsInit == L!Init => ListsInv
<1> SUFFICES ASSUME L!Init PROVE ListsInv
  OBVIOUS
<1>1. /\ scan = [p \in Nodes |-> L!NoScan] /\ writes = [c \in Writers |-> L!NoWrite]
      /\ list = [stage |-> "idle"] /\ behind = [p \in Nodes |-> {}]
  BY DEF L!Init
<1>2. L!NoScan \in Scan /\ L!NoWrite \in WriteCall
  BY DEF L!NoScan, L!NoWrite, Scan, WriteCall
<1>3. L!FirstRows \subseteq L!Row
  <2>1. \A b \in L!Body : L!Keyed(1, b) \in L!Row
    <3>1. \A b \in L!Body : b.rank # NoVal => b.rank \in Int
      BY ListsAssumption DEF L!Body
    <3> QED
      BY <3>1 DEF L!Keyed, L!KeysFor, L!SortKey, L!NoKeys, L!Row, L!Releases
  <2>2. L!NoKeys \in [v : {0} \cup L!Releases, k : Int]
    BY DEF L!NoKeys
  <2> QED
    BY <2>1, <2>2 DEF L!FirstRows, L!Row
<1>4. things \in [Ids -> {None} \cup L!Row]
  BY <1>3 DEF L!Init
<1>5. ListsTyped
  BY <1>1, <1>2, <1>4 DEF ListsTyped
<1>6. WritesInv /\ WalkInv
  BY <1>1 DEF WritesInv, WalkInv, L!NoWrite
<1>7. ASSUME NEW p \in Nodes PROVE StaleInv(p) /\ PassedInv(p) /\ KeysInv(p)
  <2>1. /\ scan[p].stage = "walking" /\ scan[p].after = 0 /\ scan[p].stale = {}
        /\ scan[p].passed = {} /\ behind[p] = {}
    BY <1>1 DEF L!NoScan
  <2>2. \A r \in Ids : r \in Nat /\ r # 0
    BY ListsAssumption
  <2>3. {r \in Ids : r <= 0} = {}
    BY <2>2
  <2> QED
    BY <2>1, <2>3 DEF StaleInv, PassedInv, KeysInv
<1> QED
  BY <1>5, <1>6, <1>7 DEF ListsInv, ScansInv

LEMMA KeyedRow ==
  ASSUME NEW q \in Nodes, NEW b \in L!Body
  PROVE  /\ L!Keyed(L!Release(q), b) \in L!Row
         /\ L!Keyed(L!Release(q), b).body = b
         /\ L!Keyed(L!Release(q), b).keys = L!KeysFor(L!Release(q), b)
         /\ L!KeysFor(L!Release(q), b) \in [v : {0} \cup L!Releases, k : Int]
         /\ L!Keyed(L!Release(q), b) # None
<1>1. b.rank # NoVal => b.rank \in Int
  BY ListsAssumption DEF L!Body
<1>2. L!Release(q) \in L!Releases
  BY DEF L!Release, L!Releases
<1>3. L!KeysFor(L!Release(q), b) \in [v : {0} \cup L!Releases, k : Int]
  BY <1>1, <1>2 DEF L!KeysFor, L!SortKey, L!NoKeys
<1> QED
  BY <1>3, ListsAssumption DEF L!Keyed, L!Row

LEMMA PlacesStand ==
  ASSUME things' = things
  PROVE  /\ \A x, M, d : L!Place(x, M, d)' = L!Place(x, M, d)
         /\ \A ask : L!Matching(ask)' = L!Matching(ask)
<1>1. \A x, y, d : L!Before(x, y, d)' <=> L!Before(x, y, d)
  BY DEF L!Before
<1>2. ASSUME NEW x, NEW M, NEW d PROVE L!Place(x, M, d)' = L!Place(x, M, d)
  <2>1. {q \in M : q = x \/ L!Before(q, x, d)'} = {q \in M : q = x \/ L!Before(q, x, d)}
    BY <1>1
  <2> QED
    BY <2>1 DEF L!Place
<1>3. L!Present' = L!Present
  BY DEF L!Present
<1> QED
  BY <1>2, <1>3 DEF L!Matching

(* What was shown stands where no row changes and no reader moves.         *)
LEMMA WalkStands ==
  ASSUME ListsTyped, WalkInv, things' = things, list' = list,
         \A p \in Nodes : scan[p].stage = "done" => scan'[p].stage = "done"
  PROVE  WalkInv'
<1>1. /\ \A x, M, d : L!Place(x, M, d)' = L!Place(x, M, d)
      /\ \A ask : L!Matching(ask)' = L!Matching(ask)
  BY PlacesStand
<1>2. list.stage \in {"counting", "selecting", "read"} => list.proc \in Nodes
  BY DEF ListsTyped, Walk
<1> QED
  BY <1>1, <1>2 DEF WalkInv

LEMMA WalkTouched ==
  ASSUME ListsTyped, WalkInv, list' = L!Touched,
         \A p \in Nodes : scan[p].stage = "done" => scan'[p].stage = "done"
  PROVE  /\ WalkInv'
         /\ list' \in {[stage |-> "idle"], [stage |-> "over"]} \cup Walk
<1>1. CASE list.stage = "idle"
  <2>1. list' = list
    BY <1>1 DEF L!Touched, L!Reading
  <2> QED
    BY <1>1, <2>1 DEF WalkInv, ListsTyped
<1>2. CASE list.stage \in {"over", "read"}
  <2>1. list' = [stage |-> "over"]
    BY <1>2 DEF L!Touched, L!Reading, L!Finished, ListsTyped, Walk
  <2> QED
    BY <2>1 DEF WalkInv
<1>3. CASE list.stage \in {"counting", "selecting"}
  <2>1. list' = [list EXCEPT !.quiet = FALSE]
    BY <1>3 DEF L!Touched, L!Reading
  <2>2. list \in Walk
    BY <1>3 DEF ListsTyped
  <2>3. /\ list' \in Walk /\ list'.quiet = FALSE
        /\ list'.stage = list.stage /\ list'.proc = list.proc
    BY <2>1, <2>2 DEF Walk
  <2>4. list.proc \in Nodes
    BY <2>2 DEF Walk
  <2> QED
    BY <1>3, <2>3, <2>4 DEF WalkInv
<1>4. list.stage \in {"idle", "over", "counting", "selecting", "read"}
  BY DEF ListsTyped, Walk
<1> QED
  BY <1>1, <1>2, <1>3, <1>4

(* A write of the whole row leaves its keys to every process of the        *)
(* writer's release, and behind those of the other.                        *)
LEMMA PutKeeps ==
  ASSUME ListsTyped, ScansInv, NEW w \in Nodes, NEW r \in Ids, NEW b \in L!Body,
         things' = [things EXCEPT ![r] = L!Keyed(L!Release(w), b)],
         behind' = L!BehindWrite(r, L!Release(w)), scan' = scan
  PROVE  /\ ScansInv'
         /\ things' \in [Ids -> {None} \cup L!Row]
         /\ behind' \in [Nodes -> SUBSET Ids]
<1>1. /\ L!Keyed(L!Release(w), b) \in L!Row /\ L!Keyed(L!Release(w), b).body = b
      /\ L!Keyed(L!Release(w), b).keys = L!KeysFor(L!Release(w), b)
      /\ L!Keyed(L!Release(w), b) # None
  BY KeyedRow
<1>2. things' \in [Ids -> {None} \cup L!Row]
  BY <1>1 DEF ListsTyped
<1>3. \A x \in Ids : things'[x] = IF x = r THEN L!Keyed(L!Release(w), b) ELSE things[x]
  BY DEF ListsTyped
<1>4. \A p \in Nodes :
        behind'[p] = IF L!Release(p) = L!Release(w) THEN behind[p] \ {r}
                     ELSE IF r \in scan[p].passed THEN behind[p] \cup {r} ELSE behind[p]
  BY DEF L!BehindWrite
<1>5. behind' \in [Nodes -> SUBSET Ids]
  BY DEF L!BehindWrite, ListsTyped
<1>6. ASSUME NEW p \in Nodes PROVE StaleInv(p)' /\ PassedInv(p)' /\ KeysInv(p)'
  <2>1. StaleInv(p) /\ PassedInv(p) /\ KeysInv(p)
    BY DEF ScansInv
  <2>2. scan[p].stale \subseteq [row : Ids, body : L!Body] /\ scan[p].passed \subseteq Ids
    BY DEF ListsTyped, Scan
  <2>3. StaleInv(p)'
    BY <1>1, <1>3, <2>1, <2>2 DEF StaleInv
  <2>4. PassedInv(p)'
    BY <1>4, <2>1 DEF PassedInv
  <2>5. ASSUME NEW x \in scan[p].passed \ behind'[p], things'[x] # None
        PROVE  \/ things'[x].keys = L!KeysFor(L!Release(p), things'[x].body)
               \/ [row |-> x, body |-> things'[x].body] \in scan[p].stale
    <3>1. x \in Ids
      BY <2>2
    <3>2. CASE x # r
      <4>1. x \notin behind[p]
        BY <1>4, <2>5, <3>2
      <4>2. things'[x] = things[x]
        BY <1>3, <3>1, <3>2
      <4> QED
        BY <2>1, <2>5, <4>1, <4>2 DEF KeysInv
    <3>3. CASE x = r
      <4>1. L!Release(p) = L!Release(w)
        BY <1>4, <2>5, <3>3
      <4> QED
        BY <1>1, <1>3, <3>1, <3>3, <4>1
    <3> QED
      BY <3>2, <3>3
  <2>6. KeysInv(p)'
    BY <2>5 DEF KeysInv
  <2> QED
    BY <2>3, <2>4, <2>6
<1> QED
  BY <1>2, <1>5, <1>6 DEF ScansInv

(* A raw statement that names no row leaves behind whose keys it makes     *)
(* wrong, and whose UPDATE it makes miss.                                  *)
LEMMA RawKeeps ==
  ASSUME ListsTyped, ScansInv, NEW r \in Ids, NEW b \in L!Body, things[r] # None,
         things' = [things EXCEPT ![r] = [things[r] EXCEPT !.body = b]],
         behind' = L!BehindRaw(r, b.rank # things[r].body.rank), scan' = scan
  PROVE  /\ ScansInv'
         /\ things' \in [Ids -> {None} \cup L!Row]
         /\ behind' \in [Nodes -> SUBSET Ids]
<1>1. things[r] \in L!Row
  BY DEF ListsTyped
<1>2. [things[r] EXCEPT !.body = b] = [body |-> b, keys |-> things[r].keys]
  BY <1>1 DEF L!Row
<1>3. [body |-> b, keys |-> things[r].keys] \in L!Row
  BY <1>1 DEF L!Row
<1>4. [body |-> b, keys |-> things[r].keys] # None
  BY <1>3, ListsAssumption
<1>5. things' \in [Ids -> {None} \cup L!Row]
  BY <1>2, <1>3 DEF ListsTyped
<1>6. \A x \in Ids : things'[x] = IF x = r THEN [body |-> b, keys |-> things[r].keys] ELSE things[x]
  BY <1>2 DEF ListsTyped
<1>7. \A p \in Nodes :
        behind'[p] = IF r \in (IF b.rank # things[r].body.rank THEN scan[p].passed
                               ELSE {s.row : s \in scan[p].stale})
                     THEN behind[p] \cup {r} ELSE behind[p]
  BY DEF L!BehindRaw
<1>8. behind' \in [Nodes -> SUBSET Ids]
  BY DEF L!BehindRaw, ListsTyped
<1>9. ASSUME NEW p \in Nodes PROVE StaleInv(p)' /\ PassedInv(p)' /\ KeysInv(p)'
  <2>1. StaleInv(p) /\ PassedInv(p) /\ KeysInv(p)
    BY DEF ScansInv
  <2>2. scan[p].stale \subseteq [row : Ids, body : L!Body] /\ scan[p].passed \subseteq Ids
    BY DEF ListsTyped, Scan
  <2>3. StaleInv(p)'
    BY <1>4, <1>6, <2>1, <2>2 DEF StaleInv
  <2>4. r \in {s.row : s \in scan[p].stale} => r \in scan[p].passed
    BY <2>1 DEF StaleInv
  <2>5. PassedInv(p)'
    BY <1>7, <2>1, <2>4 DEF PassedInv
  <2>6. ASSUME NEW x \in scan[p].passed \ behind'[p], things'[x] # None
        PROVE  \/ things'[x].keys = L!KeysFor(L!Release(p), things'[x].body)
               \/ [row |-> x, body |-> things'[x].body] \in scan[p].stale
    <3>1. x \in Ids /\ x \notin behind[p]
      BY <1>7, <2>2, <2>6
    <3>2. CASE x # r
      BY <1>6, <2>1, <2>6, <3>1, <3>2 DEF KeysInv
    <3>3. CASE x = r
      <4>1. b.rank = things[r].body.rank /\ r \notin {s.row : s \in scan[p].stale}
        BY <1>7, <2>6, <3>3
      <4>2. [row |-> r, body |-> things[r].body] \notin scan[p].stale
        BY <4>1
      <4>3. things[r].keys = L!KeysFor(L!Release(p), things[r].body)
        BY <2>1, <3>1, <3>3, <4>2, <2>6 DEF KeysInv
      <4>4. L!KeysFor(L!Release(p), things[r].body) = L!KeysFor(L!Release(p), b)
        BY <4>1 DEF L!KeysFor
      <4> QED
        BY <1>6, <3>3, <4>3, <4>4
    <3> QED
      BY <3>2, <3>3
  <2>7. KeysInv(p)'
    BY <2>6 DEF KeysInv
  <2> QED
    BY <2>3, <2>5, <2>7
<1> QED
  BY <1>5, <1>8, <1>9 DEF ScansInv

(* A row once there stays, and a call that is over reads nothing.          *)
LEMMA WritesKeep ==
  ASSUME ListsTyped, WritesInv, \A r \in Ids : things[r] # None => things'[r] # None,
         writes' = writes \/ \E c \in Writers : writes' = L!Over(c)
  PROVE  WritesInv' /\ writes' \in [Writers -> WriteCall]
<1>1. CASE writes' = writes
  BY <1>1 DEF WritesInv, ListsTyped
<1>2. ASSUME NEW c \in Writers, writes' = L!Over(c)
      PROVE  WritesInv' /\ writes' \in [Writers -> WriteCall]
  <2> DEFINE over == [L!NoWrite EXCEPT !.stage = "over"]
  <2>1. over \in WriteCall /\ over.stage = "over"
    BY DEF L!NoWrite, WriteCall
  <2>2. writes' = [writes EXCEPT ![c] = over]
    BY <1>2 DEF L!Over
  <2> HIDE DEF over
  <2>3. writes' \in [Writers -> WriteCall]
    BY <2>1, <2>2 DEF ListsTyped
  <2>4. \A d \in Writers : writes'[d] = IF d = c THEN over ELSE writes[d]
    BY <2>2 DEF ListsTyped
  <2> QED
    BY <2>1, <2>3, <2>4 DEF WritesInv
<1> QED
  BY <1>1, <1>2

(* A call that begins: about a row that is there.                          *)
LEMMA WritesBegin ==
  ASSUME ListsTyped, WritesInv, things' = things,
         NEW c \in Writers, NEW p \in Nodes, NEW r \in Ids, NEW b \in L!Body, NEW named \in BOOLEAN,
         things[r] # None, NEW st \in {"read", "batched"},
         writes' = [writes EXCEPT ![c] = [stage |-> st, proc |-> p, row |-> r, body |-> b, named |-> named]]
  PROVE  WritesInv' /\ writes' \in [Writers -> WriteCall]
<1> DEFINE call == [stage |-> st, proc |-> p, row |-> r, body |-> b, named |-> named]
<1>1. call \in WriteCall /\ call.stage = st /\ call.proc = p /\ call.row = r /\ call.body = b
  BY DEF WriteCall
<1> HIDE DEF call
<1>2. writes' \in [Writers -> WriteCall]
  BY <1>1 DEF ListsTyped, call
<1>3. \A d \in Writers : writes'[d] = IF d = c THEN call ELSE writes[d]
  BY DEF ListsTyped, call
<1> QED
  BY <1>1, <1>2, <1>3 DEF WritesInv

LEMMA PatchedBody ==
  ASSUME NEW b \in L!Body, NEW patch \in L!Patch
  PROVE  L!Patched(b, patch) \in L!Body
<1>1. b = [rank |-> b.rank, rest |-> b.rest] /\ b.rank \in Ranks \cup {NoVal} /\ b.rest \in Rests
  BY DEF L!Body
<1>2. CASE patch.field = "rank" /\ patch.value \in Ranks \cup {NoVal}
  BY <1>1, <1>2 DEF L!Patched, L!Body
<1>3. CASE patch.field = "rest" /\ patch.value \in Rests
  BY <1>1, <1>3 DEF L!Patched, L!Body
<1> QED
  BY <1>2, <1>3 DEF L!Patch

LEMMA ScansStand ==
  ASSUME ScansInv, things' = things, scan' = scan, behind' = behind
  PROVE  ScansInv'
  BY DEF ScansInv, StaleInv, PassedInv, KeysInv

LEMMA PutStep ==
  ASSUME ListsInv, NEW w \in Nodes, NEW r \in Ids, NEW b \in L!Body, NEW c \in Writers,
         things' = [things EXCEPT ![r] = L!Keyed(L!Release(w), b)],
         behind' = L!BehindWrite(r, L!Release(w)), scan' = scan, list' = L!Touched, writes' = L!Over(c)
  PROVE  ListsInv'
<1>1. ScansInv' /\ things' \in [Ids -> {None} \cup L!Row] /\ behind' \in [Nodes -> SUBSET Ids]
  BY PutKeeps DEF ListsInv
<1>2. \A x \in Ids : things[x] # None => things'[x] # None
  BY KeyedRow DEF ListsInv, ListsTyped
<1>3. WritesInv' /\ writes' \in [Writers -> WriteCall]
  BY <1>2, WritesKeep DEF ListsInv
<1>4. WalkInv' /\ list' \in {[stage |-> "idle"], [stage |-> "over"]} \cup Walk
  BY WalkTouched DEF ListsInv
<1>5. scan' \in [Nodes -> Scan]
  BY DEF ListsInv, ListsTyped
<1> QED
  BY <1>1, <1>3, <1>4, <1>5 DEF ListsInv, ListsTyped

LEMMA WritersStep ==
  ASSUME ListsInv, NEW c \in Writers,
         \/ \E p \in Nodes, r \in Ids :
              \/ \E body \in L!Body : L!Insert(c, p, r, body)
              \/ \E patch \in L!Patch :
                   L!Lookup(c, p, r, patch) \/ \E named \in BOOLEAN : L!Statement(c, p, r, patch, named)
         \/ L!Write(c) \/ L!CommitBatch(c) \/ L!Abort(c)
  PROVE  ListsInv'
<1>1. ListsTyped /\ WritesInv /\ ScansInv /\ WalkInv
  BY DEF ListsInv
<1>2. ASSUME NEW p \in Nodes, NEW r \in Ids, NEW b \in L!Body, L!Insert(c, p, r, b)
      PROVE  ListsInv'
  BY <1>2, PutStep DEF L!Insert, L!Put
<1>3. ASSUME NEW p \in Nodes, NEW r \in Ids, NEW patch \in L!Patch, NEW named \in BOOLEAN,
             L!Lookup(c, p, r, patch) \/ L!Statement(c, p, r, patch, named)
      PROVE  ListsInv'
  <2>1. things' = things /\ scan' = scan /\ list' = list /\ behind' = behind /\ things[r] # None
    BY <1>3 DEF L!Lookup, L!Statement
  <2>2. things[r].body \in L!Body
    BY <1>1, <2>1 DEF ListsTyped, L!Row
  <2>3. L!Patched(things[r].body, patch) \in L!Body
    BY <2>2, PatchedBody
  <2>4. \E st \in {"read", "batched"}, nm \in BOOLEAN :
          writes' = [writes EXCEPT ![c] = [stage |-> st, proc |-> p, row |-> r,
                                           body |-> L!Patched(things[r].body, patch), named |-> nm]]
    BY <1>3 DEF L!Lookup, L!Statement
  <2>5. WritesInv' /\ writes' \in [Writers -> WriteCall]
    BY <1>1, <2>1, <2>3, <2>4, WritesBegin
  <2>6. ScansInv' /\ WalkInv'
    BY <1>1, <2>1, ScansStand, WalkStands
  <2> QED
    BY <1>1, <2>1, <2>5, <2>6 DEF ListsInv, ListsTyped
<1>4. CASE L!Write(c)
  <2>1. writes[c].stage = "read"
    BY <1>4 DEF L!Write
  <2>2. writes[c].proc \in Nodes /\ writes[c].body \in L!Body /\ writes[c].row \in Ids
    BY <1>1, <2>1 DEF WritesInv
  <2> QED
    BY <1>4, <2>2, PutStep DEF L!Write, L!Put
<1>5. CASE L!CommitBatch(c)
  <2>1. writes[c].stage = "batched"
    BY <1>5 DEF L!CommitBatch
  <2>2. /\ writes[c].proc \in Nodes /\ writes[c].body \in L!Body
        /\ writes[c].row \in Ids /\ things[writes[c].row] # None
    BY <1>1, <2>1 DEF WritesInv
  <2>3. CASE writes[c].named
    BY <1>5, <2>2, <2>3, PutStep DEF L!CommitBatch, L!Rekeyed
  <2>4. CASE ~ writes[c].named
    <3> DEFINE r == writes[c].row
               b == writes[c].body
    <3>1. /\ things' = [things EXCEPT ![r] = [things[r] EXCEPT !.body = b]]
          /\ behind' = L!BehindRaw(r, b.rank # things[r].body.rank)
          /\ scan' = scan /\ list' = L!Touched /\ writes' = L!Over(c)
      BY <1>5, <2>4 DEF L!CommitBatch, L!Rekeyed
    <3>2. r \in Ids /\ b \in L!Body /\ things[r] # None
      BY <2>2
    <3> HIDE DEF r, b
    <3>3. ScansInv' /\ things' \in [Ids -> {None} \cup L!Row] /\ behind' \in [Nodes -> SUBSET Ids]
      BY <1>1, <3>1, <3>2, RawKeeps
    <3>4. \A x \in Ids : things[x] # None => things'[x] # None
      <4>1. [things[r] EXCEPT !.body = b] \in L!Row
        BY <1>1, <3>2 DEF ListsTyped, L!Row
      <4> QED
        BY <1>1, <3>1, <4>1, ListsAssumption DEF ListsTyped
    <3>5. WritesInv' /\ writes' \in [Writers -> WriteCall]
      BY <1>1, <3>1, <3>4, WritesKeep
    <3>6. WalkInv' /\ list' \in {[stage |-> "idle"], [stage |-> "over"]} \cup Walk
      BY <1>1, <3>1, WalkTouched
    <3> QED
      BY <1>1, <3>1, <3>3, <3>5, <3>6 DEF ListsInv, ListsTyped
  <2> QED
    BY <2>3, <2>4
<1>6. CASE L!Abort(c)
  <2>1. things' = things /\ scan' = scan /\ list' = list /\ behind' = behind /\ writes' = L!Over(c)
    BY <1>6 DEF L!Abort
  <2>2. WritesInv' /\ writes' \in [Writers -> WriteCall]
    BY <1>1, <2>1, WritesKeep
  <2>3. ScansInv' /\ WalkInv'
    BY <1>1, <2>1, ScansStand, WalkStands
  <2> QED
    BY <1>1, <2>1, <2>2, <2>3 DEF ListsInv, ListsTyped
<1> QED
  BY <1>2, <1>3, <1>4, <1>5, <1>6

(* The UPDATE of a chunk: it hits the rows whose body was keyed.           *)
LEMMA WriteStaleStep == ASSUME ListsInv, NEW p \in Nodes, L!WriteStale(p) PROVE ListsInv'
<1> DEFINE hit == {s.row : s \in L!Matched(p)}
           keyed == [r \in hit |-> L!KeysFor(L!Release(p), (CHOOSE s \in scan[p].stale : s.row = r).body)]
<1>1. ListsTyped /\ WritesInv /\ ScansInv /\ WalkInv /\ StaleInv(p) /\ PassedInv(p) /\ KeysInv(p)
  BY DEF ListsInv, ScansInv
<1>2. /\ scan[p].stage = "writing"
      /\ things' = [r \in Ids |-> IF r \in hit THEN [things[r] EXCEPT !.keys = keyed[r]] ELSE things[r]]
      /\ behind' = [q \in Nodes |-> IF L!Release(q) = L!Release(p) THEN behind[q] \ hit
                                    ELSE behind[q] \cup (hit \cap scan[q].passed)]
      /\ scan' = [scan EXCEPT ![p].stage = IF scan[p].last THEN "done" ELSE "walking", ![p].stale = {}]
      /\ list' = IF hit = {} THEN list ELSE L!Touched
      /\ writes' = writes
  BY DEF L!WriteStale
<1>3. scan[p].stale \subseteq [row : Ids, body : L!Body] /\ scan[p] \in Scan
  BY <1>1 DEF ListsTyped, Scan
<1>4. ASSUME NEW r \in hit
      PROVE  /\ r \in Ids /\ things[r] # None /\ things[r] \in L!Row
             /\ keyed[r] = L!KeysFor(L!Release(p), things[r].body)
  <2>1. PICK s \in scan[p].stale : s.row = r /\ things[r].body = s.body
    BY DEF L!Matched
  <2>2. (CHOOSE q \in scan[p].stale : q.row = r) = s
    BY <1>1, <2>1 DEF StaleInv
  <2>3. r \in Ids /\ things[r] # None
    BY <1>1, <1>3, <2>1 DEF StaleInv
  <2> QED
    BY <1>1, <2>1, <2>2, <2>3 DEF ListsTyped
<1> HIDE DEF hit, keyed
<1>5. \A r \in Ids : things'[r] =
        IF r \in hit THEN [body |-> things[r].body, keys |-> L!KeysFor(L!Release(p), things[r].body)]
        ELSE things[r]
  <2>1. \A r \in hit : [things[r] EXCEPT !.keys = keyed[r]] =
          [body |-> things[r].body, keys |-> L!KeysFor(L!Release(p), things[r].body)]
    BY <1>4 DEF L!Row
  <2> QED
    BY <1>2, <2>1
<1>6. \A r \in hit : [body |-> things[r].body, keys |-> L!KeysFor(L!Release(p), things[r].body)] \in L!Row
  <2>1. \A r \in hit : things[r].body \in L!Body
    BY <1>4 DEF L!Row
  <2> QED
    BY <2>1, KeyedRow DEF L!Row
<1>7. things' \in [Ids -> {None} \cup L!Row]
  <2>1. \A r \in Ids : things'[r] \in {None} \cup L!Row
    BY <1>1, <1>5, <1>6 DEF ListsTyped
  <2>2. things' = [r \in Ids |-> things'[r]]
    BY <1>2
  <2> QED
    BY <2>1, <2>2
<1>8. \A r \in Ids : things[r] # None => things'[r] # None /\ things'[r].body = things[r].body
  <2> SUFFICES ASSUME NEW r \in Ids, things[r] # None
               PROVE  things'[r] # None /\ things'[r].body = things[r].body
    OBVIOUS
  <2>1. None \notin L!Row
    BY ListsAssumption
  <2>2. CASE r \in hit
    <3>1. things'[r] = [body |-> things[r].body, keys |-> L!KeysFor(L!Release(p), things[r].body)]
      BY <1>5, <2>2
    <3>2. things'[r] \in L!Row
      BY <1>6, <2>2, <3>1
    <3> QED
      BY <2>1, <3>1, <3>2
  <2>3. CASE r \notin hit
    BY <1>5, <2>3
  <2> QED
    BY <2>2, <2>3
<1>8a. \A r \in Ids : things'[r] # None => things[r] # None
  BY <1>4, <1>5
<1>9. WritesInv' /\ writes' \in [Writers -> WriteCall]
  BY <1>1, <1>2, <1>8, WritesKeep
<1>10. behind' \in [Nodes -> SUBSET Ids]
  BY <1>1, <1>2, <1>4 DEF ListsTyped
<1>11. /\ scan'[p] = [stage |-> IF scan[p].last THEN "done" ELSE "walking", after |-> scan[p].after,
                      stale |-> {}, last |-> scan[p].last, passed |-> scan[p].passed]
       /\ \A q \in Nodes : q # p => scan'[q] = scan[q]
       /\ scan' \in [Nodes -> Scan]
  BY <1>1, <1>2, <1>3 DEF ListsTyped, Scan
<1>12. \A q \in Nodes : behind'[q] = IF L!Release(q) = L!Release(p) THEN behind[q] \ hit
                                     ELSE behind[q] \cup (hit \cap scan[q].passed)
  BY <1>2
<1>13. ASSUME NEW q \in Nodes
       PROVE  StaleInv(q)' /\ PassedInv(q)' /\ KeysInv(q)'
  <2>1. StaleInv(q) /\ PassedInv(q) /\ KeysInv(q) /\ scan[q] \in Scan
    BY <1>1 DEF ScansInv, ListsTyped
  <2>2. /\ scan'[q].passed = scan[q].passed /\ scan[q].passed \subseteq Ids
        /\ scan[q].stale \subseteq [row : Ids, body : L!Body]
    BY <1>11, <2>1 DEF Scan
  <2>3. StaleInv(q)'
    BY <1>8, <1>11, <2>1, <2>2 DEF StaleInv
  <2>4. PassedInv(q)'
    BY <1>2, <1>11, <1>12, <2>1, <2>2 DEF PassedInv
  <2>5. ASSUME NEW x \in scan[q].passed \ behind'[q], things'[x] # None
        PROVE  \/ things'[x].keys = L!KeysFor(L!Release(q), things'[x].body)
               \/ [row |-> x, body |-> things'[x].body] \in scan'[q].stale
    <3>1. x \in Ids /\ things[x] # None
      BY <1>8a, <2>2, <2>5
    <3>2. CASE x \in hit
      <4>1. L!Release(q) = L!Release(p)
        BY <1>12, <2>5, <3>2
      <4>2. things'[x] = [body |-> things[x].body, keys |-> L!KeysFor(L!Release(p), things[x].body)]
        BY <1>5, <3>1, <3>2
      <4> QED
        BY <4>1, <4>2
    <3>3. CASE x \notin hit
      <4>1. x \notin behind[q] /\ things'[x] = things[x]
        BY <1>5, <1>12, <2>5, <3>1, <3>3
      <4>2. \/ things[x].keys = L!KeysFor(L!Release(q), things[x].body)
            \/ [row |-> x, body |-> things[x].body] \in scan[q].stale
        BY <2>1, <2>5, <3>1, <4>1 DEF KeysInv
      <4>3. q = p => [row |-> x, body |-> things[x].body] \notin scan[q].stale
        BY <3>3 DEF hit, L!Matched
      <4> QED
        BY <1>11, <4>1, <4>2, <4>3
    <3> QED
      BY <3>2, <3>3
  <2>6. KeysInv(q)'
    BY <2>2, <2>5 DEF KeysInv
  <2> QED
    BY <2>3, <2>4, <2>6
<1>14. \A q \in Nodes : scan[q].stage = "done" => scan'[q].stage = "done"
  BY <1>2, <1>11
<1>15. WalkInv' /\ list' \in {[stage |-> "idle"], [stage |-> "over"]} \cup Walk
  <2>1. CASE hit = {}
    <3>1. things' = things
      BY <1>1, <1>2, <2>1 DEF ListsTyped
    <3> QED
      BY <1>1, <1>2, <1>14, <2>1, <3>1, WalkStands DEF ListsTyped
  <2>2. CASE hit # {}
    BY <1>1, <1>2, <1>14, <2>2, WalkTouched
  <2> QED
    BY <2>1, <2>2
<1> QED
  BY <1>7, <1>9, <1>10, <1>11, <1>13, <1>15 DEF ListsInv, ListsTyped, ScansInv

LEMMA Greatest ==
  ASSUME NEW T \in SUBSET Nat, T # {}, IsFiniteSet(T)
  PROVE  \E x \in T : \A y \in T : y <= x
<1> DEFINE above(x) == {y \in T : x < y}
           counts == {Cardinality(above(x)) : x \in T}
<1>1. \A x \in T : IsFiniteSet(above(x)) /\ Cardinality(above(x)) \in Nat
  BY FS_Subset, FS_CardinalityType
<1>2. PICK x \in T : \A y \in T : Cardinality(above(x)) <= Cardinality(above(y))
  <2>1. counts \in SUBSET Nat /\ counts # {}
    BY <1>1
  <2>2. PICK m \in counts : \A k \in counts : m <= k
    BY <2>1, Least
  <2> QED
    BY <2>2
<1>3. ASSUME NEW y \in T, x < y PROVE FALSE
  <2>1. (\A z \in T : y < z => x < z) /\ ~ (y < y)
    BY <1>3
  <2>2. above(y) \in SUBSET above(x) /\ y \in above(x) /\ y \notin above(y)
    BY <1>3, <2>1
  <2> HIDE DEF above
  <2>3. Cardinality(above(y)) <= Cardinality(above(x)) /\ Cardinality(above(y)) # Cardinality(above(x))
    BY <1>1, <2>2, FS_Subset
  <2> QED
    BY <1>1, <1>2, <2>3
<1> QED
  BY <1>3

(* The SELECT of a chunk: between where the scan was and where it comes    *)
(* lies no row but those it got and those without field and keys.          *)
LEMMA ReadChunkStep == ASSUME ListsInv, NEW p \in Nodes, L!ReadChunk(p) PROVE ListsInv'
<1> DEFINE after == scan[p].after
           found == {r \in L!Present : r > after /\ (things[r].body.rank # NoVal \/ things[r].keys # L!NoKeys)}
           below(r) == {q \in found : q < r}
           got == {r \in found : L!Cardinality(below(r)) < Chunk}
           fresh == {r \in got : things[r].keys = L!KeysFor(L!Release(p), things[r].body)}
           final == L!Cardinality(got) < Chunk
           end == IF got = {} THEN after ELSE CHOOSE r \in got : \A q \in got : q <= r
           stale == {[row |-> r, body |-> things[r].body] : r \in got \ fresh}
           passed == IF final THEN Ids ELSE {r \in Ids : r <= end}
           stg == IF got # fresh THEN "writing" ELSE IF final THEN "done" ELSE "walking"
<1>1. ListsTyped /\ WritesInv /\ ScansInv /\ WalkInv /\ StaleInv(p) /\ PassedInv(p) /\ KeysInv(p)
  BY DEF ListsInv, ScansInv
<1>2. /\ scan[p].stage = "walking"
      /\ scan' = [scan EXCEPT ![p] = [stage |-> stg, after |-> end, stale |-> stale,
                                      last |-> final, passed |-> passed]]
      /\ things' = things /\ writes' = writes /\ list' = list /\ behind' = behind
  BY DEF L!ReadChunk
<1>3. scan[p] \in Scan /\ after \in Nat
  BY <1>1 DEF ListsTyped, Scan
<1>4. found \in SUBSET Ids /\ got \in SUBSET found /\ fresh \in SUBSET got /\ \A r \in Ids : r \in Nat
  BY ListsAssumption DEF L!Present
<1>5. IsFiniteSet(found) /\ IsFiniteSet(got) /\ Cardinality(got) \in Nat
  BY <1>4, ListsAssumption, FS_Subset, FS_CardinalityType
<1>6. \A r : IsFiniteSet(below(r)) /\ Cardinality(below(r)) \in Nat
  BY <1>5, FS_Subset, FS_CardinalityType
<1>7. Chunk \in Nat /\ Chunk > 0
  BY ListsAssumption
<1>8. \A r \in found : r > after /\ things[r] # None
  BY DEF L!Present
<1>9. \A x \in Ids : x > after /\ x \notin found /\ things[x] # None
        => things[x].body.rank = NoVal /\ things[x].keys = L!NoKeys
  BY DEF L!Present
<1>10. \A r \in found : Cardinality(below(r)) < Chunk <=> r \in got
  BY CardinalityOfLists
<1>11. final <=> Cardinality(got) < Chunk
  BY CardinalityOfLists
<1>12. \A r \in got : r \notin fresh <=> things[r].keys # L!KeysFor(L!Release(p), things[r].body)
  OBVIOUS
<1> HIDE DEF found, got, fresh
<1>13. IF got = {} THEN end = after ELSE end \in got /\ \A q \in got : q <= end
  <2> SUFFICES ASSUME got # {} PROVE end \in got /\ \A q \in got : q <= end
    OBVIOUS
  <2>1. got \in SUBSET Nat
    BY <1>4
  <2>2. \E x \in got : \A y \in got : y <= x
    BY <1>5, <2>1, Greatest
  <2> QED
    BY <2>2
<1> HIDE DEF final, end
<1>14. got = {} => final
  BY <1>7, <1>11, FS_EmptySet
<1>15. ASSUME final PROVE found \subseteq got
  <2> SUFFICES ASSUME found \ got # {} PROVE FALSE
    OBVIOUS
  <2>1. found \ got \in SUBSET Nat
    BY <1>4
  <2>2. PICK r \in found \ got : \A y \in found \ got : r <= y
    BY <2>1, Least
  <2>3. below(r) \in SUBSET got
    BY <1>4, <2>2
  <2>4. Cardinality(below(r)) <= Cardinality(got)
    BY <1>5, <2>3, FS_Subset
  <2> QED
    BY <1>5, <1>6, <1>7, <1>10, <1>11, <1>15, <2>2, <2>4
<1>16. ASSUME ~ final, NEW x \in found, x <= end PROVE x \in got
  <2>1. end \in got
    BY <1>13, <1>14, <1>16
  <2>2. below(x) \in SUBSET below(end)
    <3>1. x \in Nat /\ end \in Nat /\ \A q \in found : q \in Nat
      BY <1>4, <2>1
    <3>2. \A q \in found : q < x => q < end
      BY <1>16, <3>1
    <3> QED
      BY <3>2
  <2> HIDE DEF below
  <2>3. Cardinality(below(x)) <= Cardinality(below(end))
    BY <1>6, <2>2, FS_Subset
  <2>4. Cardinality(below(end)) < Chunk
    BY <1>4, <1>10, <2>1
  <2> QED
    BY <1>6, <1>7, <1>10, <2>3, <2>4
<1>17. end \in Nat /\ after <= end
  BY <1>3, <1>4, <1>8, <1>13
<1>18. ~ final => after < end
  BY <1>3, <1>4, <1>8, <1>13, <1>14
<1>19. stale \in SUBSET [row : Ids, body : L!Body]
  <2>1. \A r \in got : r \in Ids /\ things[r].body \in L!Body
    BY <1>1, <1>4, <1>8 DEF ListsTyped, L!Row
  <2> QED
    BY <2>1
<1>20. \A r \in got : r \in passed
  BY <1>4, <1>13
<1>21. passed \in SUBSET Ids /\ scan[p].passed \in SUBSET passed
  <2>1. scan[p].passed = {r \in Ids : r <= after}
    BY <1>1, <1>2 DEF PassedInv
  <2>2. \A r \in Ids : r <= after => r <= end
    BY <1>3, <1>4, <1>17
  <2> QED
    BY <2>1, <2>2
<1>22. \A x \in passed : things[x] # None => x <= after \/ x \in got \/ x \notin found
  BY <1>15, <1>16
<1>23. /\ scan'[p] = [stage |-> stg, after |-> end, stale |-> stale, last |-> final, passed |-> passed]
       /\ \A q \in Nodes : q # p => scan'[q] = scan[q]
       /\ scan' \in [Nodes -> Scan]
  <2>1. final \in BOOLEAN /\ stg \in {"walking", "writing", "done"}
    BY DEF final
  <2>2. [stage |-> stg, after |-> end, stale |-> stale, last |-> final, passed |-> passed] \in Scan
    BY <1>17, <1>19, <1>21, <2>1 DEF Scan
  <2> QED
    BY <1>1, <1>2, <2>2 DEF ListsTyped
<1>24. StaleInv(p)'
  <2>1. stg # "writing" => stale = {}
    OBVIOUS
  <2>2. \A s \in stale : s.row \in passed /\ things[s.row] # None
    BY <1>4, <1>8, <1>20
  <2>3. \A s, q \in stale : s.row = q.row => s = q
    OBVIOUS
  <2> HIDE DEF stale, passed, stg
  <2> QED
    BY <1>2, <1>23, <2>1, <2>2, <2>3 DEF StaleInv
<1>25. PassedInv(p)'
  <2>1. stg = "walking" \/ (stg = "writing" /\ ~ final) => passed = {r \in Ids : r <= end}
    OBVIOUS
  <2>2. stg = "done" \/ (stg = "writing" /\ final) => passed = Ids
    OBVIOUS
  <2>3. behind[p] \subseteq passed
    BY <1>1, <1>21 DEF PassedInv
  <2> HIDE DEF stale, passed, stg
  <2> QED
    BY <1>2, <1>23, <2>1, <2>2, <2>3 DEF PassedInv
<1>26. ASSUME NEW x \in passed \ behind[p], things[x] # None
       PROVE  \/ things[x].keys = L!KeysFor(L!Release(p), things[x].body)
              \/ [row |-> x, body |-> things[x].body] \in stale
  <2>0. x \in Ids
    BY <1>21, <1>26
  <2>1. CASE x <= after
    <3>1. x \in scan[p].passed /\ scan[p].stale = {}
      BY <1>1, <1>2, <2>0, <2>1 DEF PassedInv, StaleInv
    <3> QED
      BY <1>1, <1>26, <3>1 DEF KeysInv
  <2>2. CASE x \in got
    BY <1>12, <2>2
  <2>3. CASE ~ (x <= after) /\ x \notin found
    <3>1. things[x].body.rank = NoVal /\ things[x].keys = L!NoKeys
      BY <1>3, <1>4, <1>9, <1>26, <2>0, <2>3
    <3> QED
      BY <3>1 DEF L!KeysFor
  <2> QED
    BY <1>22, <1>26, <2>1, <2>2, <2>3
<1>27. KeysInv(p)'
  <2> HIDE DEF stale, passed, stg
  <2> QED
    BY <1>2, <1>23, <1>26 DEF KeysInv
<1>28. ASSUME NEW q \in Nodes, q # p PROVE StaleInv(q)' /\ PassedInv(q)' /\ KeysInv(q)'
  <2>1. scan'[q] = scan[q]
    BY <1>23, <1>28
  <2> QED
    BY <1>1, <1>2, <2>1 DEF ScansInv, StaleInv, PassedInv, KeysInv
<1>29. ScansInv'
  BY <1>24, <1>25, <1>27, <1>28 DEF ScansInv
<1>30. WalkInv'
  <2>1. \A q \in Nodes : scan[q].stage = "done" => scan'[q].stage = "done"
    BY <1>2, <1>23
  <2> QED
    BY <1>1, <1>2, <2>1, WalkStands
<1>31. WritesInv' /\ writes' \in [Writers -> WriteCall]
  BY <1>1, <1>2, WritesKeep
<1> QED
  BY <1>1, <1>2, <1>23, <1>29, <1>30, <1>31 DEF ListsInv, ListsTyped

LEMMA LimitIsPositive ==
  ASSUME NEW ask \in Asks
  PROVE  L!Limit(ask) \in Nat /\ L!Limit(ask) > 0
<1>1. /\ MaxLimit \in Nat /\ MaxLimit > 0 /\ DefaultLimit \in Nat
      /\ ask.size \in Int \cup {None} /\ ask.ids \in SUBSET Ids
  BY ListsAssumption
<1>2. Cardinality(ask.ids) \in Nat
  BY <1>1, ListsAssumption, FS_Subset, FS_CardinalityType
<1>3. L!SizeAsked(ask) \in Int
  BY <1>1, <1>2, CardinalityOfLists DEF L!SizeAsked, L!Least
<1> QED
  BY <1>1, <1>3 DEF L!Limit, L!Least, L!Most

LEMMA AskStep == ASSUME ListsInv, NEW p \in Nodes, NEW ask \in Asks, L!Ask(p, ask) PROVE ListsInv'
<1> DEFINE walk == [stage |-> "counting", proc |-> p, ask |-> ask, n |-> 1, total |-> 0,
                    shown |-> <<>>, quiet |-> TRUE]
<1>1. /\ scan[p].stage = "done" /\ list' = walk
      /\ things' = things /\ scan' = scan /\ writes' = writes /\ behind' = behind
  BY DEF L!Ask, L!Ready
<1>2. walk \in Walk
  BY DEF Walk
<1>3. /\ walk.stage = "counting" /\ walk.proc = p /\ walk.ask = ask /\ walk.n = 1
      /\ walk.shown = <<>> /\ Len(walk.shown) = 0
  OBVIOUS
<1> HIDE DEF walk
<1>4. WalkInv'
  <2>1. L!Limit(ask)' = L!Limit(ask) /\ L!Limit(ask) \in Nat
    BY LimitIsPositive DEF L!Limit, L!SizeAsked
  <2>2. Cardinality(L!Matching(ask))' \in Nat
    <3>1. L!Matching(ask)' = L!Matching(ask)
      BY <1>1 DEF L!Matching, L!Present
    <3> QED
      BY <3>1, MatchingIs
  <2>3. 0 = (1 - 1) * L!Limit(ask)
    BY <2>1
  <2> QED
    BY <1>1, <1>3, <2>1, <2>2, <2>3 DEF WalkInv
<1>5. WritesInv' /\ ScansInv'
  BY <1>1, WritesKeep, ScansStand DEF ListsInv
<1> QED
  BY <1>1, <1>2, <1>4, <1>5 DEF ListsInv, ListsTyped

LEMMA CountStep == ASSUME ListsInv, L!Count PROVE ListsInv'
<1>0. PICK ask : ask = list.ask
  OBVIOUS
<1> DEFINE total == Cardinality(L!Matching(ask))
           walk == [list EXCEPT !.stage = "selecting", !.total = total]
<1>1. /\ list.stage = "counting" /\ list' = walk
      /\ things' = things /\ scan' = scan /\ writes' = writes /\ behind' = behind
  BY <1>0, CardinalityOfLists DEF L!Count
<1>2. list \in Walk /\ ask \in Asks
  BY <1>0, <1>1 DEF ListsInv, ListsTyped, Walk
<1>3. total \in Nat
  BY <1>2, MatchingIs
<1>4. /\ walk \in Walk /\ walk.stage = "selecting" /\ walk.total = total
      /\ walk.proc = list.proc /\ walk.ask = ask /\ walk.n = list.n
      /\ walk.shown = list.shown /\ walk.quiet = list.quiet
  BY <1>0, <1>2, <1>3 DEF Walk
<1> HIDE DEF walk
<1>5. WalkInv'
  <2>1. /\ \A x, M, d : L!Place(x, M, d)' = L!Place(x, M, d)
        /\ L!Matching(ask)' = L!Matching(ask)
    BY <1>1, PlacesStand
  <2> QED
    BY <1>0, <1>1, <1>4, <2>1 DEF WalkInv, ListsInv
<1>6. WritesInv' /\ ScansInv'
  BY <1>1, WritesKeep, ScansStand DEF ListsInv
<1> QED
  BY <1>1, <1>4, <1>5, <1>6 DEF ListsInv, ListsTyped

(* A page goes on where what was shown ends, whatever size was asked.      *)
LEMMA SelectStep == ASSUME ListsInv, L!Select PROVE ListsInv'
<1>0. PICK ask : ask = list.ask
  OBVIOUS
<1> DEFINE M == L!Matching(ask)
           total == Cardinality(M)
           sorted == L!Sorted(M, ask.descending)
           from == L!Offset(ask, list.n, list.shown)
           to == L!Least(from + L!Limit(ask), total)
           page == SubSeq(sorted, from + 1, to)
           shown == list.shown \o page
           stg == IF page = <<>> \/ Len(shown) >= list.total THEN "read" ELSE "counting"
           walk == [list EXCEPT !.shown = shown, !.n = list.n + 1, !.stage = stg]
<1>1. /\ list.stage = "selecting" /\ list' = walk
      /\ things' = things /\ scan' = scan /\ writes' = writes /\ behind' = behind
  BY <1>0, CardinalityOfLists DEF L!Select
<1>2. ListsTyped /\ WalkInv /\ list \in Walk
  BY <1>1 DEF ListsInv, ListsTyped
<1>3. ask \in Asks /\ list.n \in Nat /\ list.n > 0 /\ list.shown \in Seq(Ids) /\ Len(list.shown) \in Nat
  BY <1>0, <1>2 DEF Walk
<1>4. L!Limit(ask) \in Nat /\ L!Limit(ask) > 0
  BY <1>3, LimitIsPositive
<1>5. M \in SUBSET L!Present /\ M \in SUBSET Ids /\ total \in Nat
  BY <1>3, MatchingIs
<1>6. from \in Nat
  <2>1. (list.n - 1) * L!Limit(ask) \in Nat
    BY <1>3, <1>4
  <2> QED
    BY <1>3, <2>1 DEF L!Offset
<1>7. to \in Int /\ to <= total /\ to <= from + L!Limit(ask) /\ (to = total \/ to = from + L!Limit(ask))
  BY <1>4, <1>5, <1>6 DEF L!Least
<1>8. \A v \in 1..total : sorted[v] \in M /\ L!Place(sorted[v], M, ask.descending) = v
  BY <1>2, <1>3, <1>5, SortedPicks
<1> HIDE DEF M, total, sorted, from, to
<1>9. \A v \in (from + 1)..to : v \in 1..total
  BY <1>5, <1>6, <1>7
<1>10. /\ page \in Seq(M)
       /\ Len(page) = IF from + 1 <= to THEN to - from ELSE 0
       /\ \A i \in 1..(to - from) : page[i] = sorted[from + i]
  <2>1. \A v \in (from + 1)..to : sorted[v] \in M
    BY <1>8, <1>9
  <2>2. from + 1 \in Int /\ to \in Int
    BY <1>6, <1>7
  <2>3. /\ page \in Seq(M)
        /\ Len(page) = IF from + 1 <= to THEN to - (from + 1) + 1 ELSE 0
        /\ \A i \in 1..(to - (from + 1) + 1) : page[i] = sorted[from + 1 + i - 1]
    BY <2>1, <2>2, SubSeqProperties
  <2> HIDE DEF page
  <2>4. to - (from + 1) + 1 = to - from /\ \A i \in Int : from + 1 + i - 1 = from + i
    BY <1>6, <1>7
  <2> QED
    BY <2>3, <2>4
<1> HIDE DEF page
<1>11. page \in Seq(Ids)
  BY <1>5, <1>10
<1>12. /\ shown \in Seq(Ids)
       /\ Len(shown) = Len(list.shown) + Len(page)
       /\ \A i \in 1..Len(list.shown) : shown[i] = list.shown[i]
       /\ \A i \in 1..Len(page) : shown[Len(list.shown) + i] = page[i]
  BY <1>3, <1>11, ConcatProperties
<1>13. page = <<>> => Len(page) = 0
  OBVIOUS
<1> HIDE DEF shown
<1>14. stg \in {"read", "counting"}
  OBVIOUS
<1>15. stg = "read" => Len(page) = 0 \/ Len(shown) >= list.total
  BY <1>13
<1>16. stg # "read" => ~ (Len(shown) >= list.total)
  OBVIOUS
<1> HIDE DEF stg
<1>17. /\ walk \in Walk /\ walk.stage = stg /\ walk.proc = list.proc /\ walk.ask = ask
       /\ walk.n = list.n + 1 /\ walk.shown = shown /\ walk.quiet = list.quiet
  <2> DEFINE m == list.n + 1
  <2>1. m \in Nat \ {0}
    BY <1>3
  <2>2. walk = [list EXCEPT !.shown = shown, !.n = m, !.stage = stg]
    OBVIOUS
  <2> HIDE DEF m, walk
  <2>3. walk \in Walk /\ walk.stage = stg /\ walk.n = m /\ walk.shown = shown
    BY <1>2, <1>12, <1>14, <2>1, <2>2 DEF Walk
  <2>4. walk.proc = list.proc /\ walk.ask = list.ask /\ walk.quiet = list.quiet
    BY <1>2, <2>2 DEF Walk
  <2> QED
    BY <1>0, <2>3, <2>4 DEF m
<1> HIDE DEF walk
<1>18. ASSUME list.quiet
       PROVE  /\ Len(shown) <= total
              /\ \A i \in 1..Len(shown) : shown[i] \in M /\ L!Place(shown[i], M, ask.descending) = i
              /\ stg # "read" /\ ask.by = "page" => Len(shown) = (list.n + 1 - 1) * L!Limit(ask)
              /\ stg = "read" => Len(shown) = total
  <2>1. /\ Len(list.shown) <= total
        /\ \A i \in 1..Len(list.shown) :
             list.shown[i] \in M /\ L!Place(list.shown[i], M, ask.descending) = i
        /\ ask.by = "page" => Len(list.shown) = (list.n - 1) * L!Limit(ask)
        /\ list.total = total
    BY <1>0, <1>1, <1>2, <1>18 DEF WalkInv, M, total
  <2>2. from = Len(list.shown)
    BY <2>1 DEF from, L!Offset
  <2>3. Len(page) = to - from /\ Len(shown) = to
    <3>1. from <= to
      BY <1>4, <1>5, <1>6, <1>7, <2>1, <2>2
    <3>2. Len(page) = to - from
      BY <1>6, <1>7, <1>10, <3>1
    <3> QED
      BY <1>6, <1>7, <1>12, <2>2, <3>2
  <2>4. ASSUME NEW i \in 1..Len(shown)
        PROVE  shown[i] \in M /\ L!Place(shown[i], M, ask.descending) = i
    <3>1. CASE i <= from
      <4>1. i \in 1..Len(list.shown)
        BY <1>6, <2>2, <2>4, <3>1
      <4> QED
        BY <1>12, <2>1, <4>1
    <3>2. CASE ~ (i <= from)
      <4>1. i - from \in 1..(to - from) /\ i - from \in 1..Len(page)
        BY <1>6, <1>7, <2>3, <2>4, <3>2
      <4>2. from + (i - from) = i
        BY <1>6, <2>4, <1>7, <2>3
      <4>3. shown[i] = page[i - from]
        BY <1>12, <2>2, <4>1, <4>2
      <4>4. page[i - from] = sorted[i]
        BY <1>10, <4>1, <4>2
      <4>5. i \in 1..total
        BY <1>5, <1>7, <2>3, <2>4
      <4> QED
        BY <1>8, <4>3, <4>4, <4>5
    <3> QED
      BY <3>1, <3>2
  <2>5. ASSUME stg # "read", ask.by = "page"
        PROVE  Len(shown) = (list.n + 1 - 1) * L!Limit(ask)
    <3>1. to = from + L!Limit(ask)
      BY <1>5, <1>7, <1>16, <2>1, <2>3, <2>5
    <3>2. from = (list.n - 1) * L!Limit(ask)
      BY <2>1, <2>2, <2>5
    <3>3. (list.n - 1) * L!Limit(ask) + L!Limit(ask) = (list.n + 1 - 1) * L!Limit(ask)
      BY <1>3, <1>4
    <3> QED
      BY <2>3, <3>1, <3>2, <3>3
  <2>6. stg = "read" => Len(shown) = total
    BY <1>4, <1>5, <1>6, <1>7, <1>15, <2>1, <2>2, <2>3
  <2>7. Len(shown) <= total
    BY <1>7, <2>3
  <2> QED
    BY <2>4, <2>5, <2>6, <2>7
<1>19. WalkInv'
  <2>1. /\ \A x, T, d : L!Place(x, T, d)' = L!Place(x, T, d)
        /\ L!Matching(ask)' = M
    BY <1>1, PlacesStand DEF M
  <2>2. L!Limit(ask)' = L!Limit(ask)
    BY DEF L!Limit, L!SizeAsked
  <2>3. Cardinality(M) = total
    BY DEF total
  <2>4. scan[list.proc].stage = "done"
    BY <1>1, <1>2 DEF WalkInv
  <2>5. /\ list'.stage = stg /\ list'.proc = list.proc /\ list'.ask = ask /\ list'.n = list.n + 1
        /\ list'.shown = shown /\ list'.quiet = list.quiet
    BY <1>1, <1>17
  <2>6. stg # "selecting"
    BY <1>14
  <2>7. scan'[list'.proc].stage = "done"
    BY <1>1, <2>4, <2>5
  <2>8. ASSUME list'.quiet
        PROVE  /\ Len(list'.shown) <= Cardinality(M)
               /\ \A i \in 1..Len(list'.shown) :
                    list'.shown[i] \in M /\ L!Place(list'.shown[i], M, ask.descending) = i
               /\ list'.stage # "read" /\ ask.by = "page" => Len(list'.shown) = (list'.n - 1) * L!Limit(ask)
               /\ list'.stage = "read" => Len(list'.shown) = Cardinality(M)
    <3>1. list.quiet
      BY <2>5, <2>8
    <3>2. /\ Len(shown) <= total
          /\ \A i \in 1..Len(shown) : shown[i] \in M /\ L!Place(shown[i], M, ask.descending) = i
          /\ stg # "read" /\ ask.by = "page" => Len(shown) = (list.n + 1 - 1) * L!Limit(ask)
          /\ stg = "read" => Len(shown) = total
      BY <1>18, <3>1
    <3>3. Len(list'.shown) <= Cardinality(M)
      BY Zenon, <2>3, <2>5, <3>2
    <3>4. \A i \in 1..Len(list'.shown) :
            list'.shown[i] \in M /\ L!Place(list'.shown[i], M, ask.descending) = i
      BY <2>5, <3>2
    <3>5. list'.stage # "read" /\ ask.by = "page" => Len(list'.shown) = (list'.n - 1) * L!Limit(ask)
      <4>1. list'.n - 1 = list.n + 1 - 1
        BY <1>3, <2>5
      <4>2. list'.stage = stg /\ Len(list'.shown) = Len(shown)
        BY <2>5
      <4> QED
        BY Zenon, <3>2, <4>1, <4>2
    <3>6. list'.stage = "read" => Len(list'.shown) = Cardinality(M)
      BY Zenon, <2>3, <2>5, <3>2
    <3> QED
      BY <3>3, <3>4, <3>5, <3>6
  <2> QED
    BY <2>1, <2>2, <2>5, <2>6, <2>7, <2>8 DEF WalkInv
<1>20. WritesInv' /\ ScansInv'
  BY <1>1, WritesKeep, ScansStand DEF ListsInv
<1> QED
  BY <1>1, <1>2, <1>17, <1>19, <1>20 DEF ListsInv, ListsTyped

LEMMA ListsStep == ASSUME ListsInv, L!Next PROVE ListsInv'
  BY ReadChunkStep, WriteStaleStep, WritersStep, AskStep, CountStep, SelectStep DEF L!Next

LEMMA ListsStand ==
  ASSUME ListsInv, UNCHANGED <<things, scan, writes, list, behind>>
  PROVE  ListsInv'
<1>1. WritesInv' /\ ScansInv' /\ WalkInv'
  BY WritesKeep, ScansStand, WalkStands DEF ListsInv
<1> QED
  BY <1>1 DEF ListsInv, ListsTyped

(* What the invariant says of a walk that is over, and of the keys.        *)
LEMMA ListsAreKept == ListsInv => L!TypeOK /\ L!KeysAreCurrent /\ L!WalkIsExact /\ L!WalkIsInOrder
<1> SUFFICES ASSUME ListsInv PROVE L!TypeOK /\ L!KeysAreCurrent /\ L!WalkIsExact /\ L!WalkIsInOrder
  OBVIOUS
<1>1. ListsTyped /\ ScansInv /\ WalkInv
  BY DEF ListsInv
<1>2. L!TypeOK
  <2>1. \A r \in L!Present : things[r].body \in L!Body /\ things[r].keys.v \in {0} \cup L!Releases
    BY <1>1 DEF ListsTyped, L!Present, L!Row
  <2>2. ASSUME NEW p \in Nodes
        PROVE  /\ scan[p].stage \in {"walking", "writing", "done"}
               /\ {s.row : s \in scan[p].stale} \subseteq scan[p].passed \cap L!Present
               /\ behind[p] \subseteq scan[p].passed
    <3>1. scan[p] \in Scan /\ StaleInv(p) /\ PassedInv(p)
      BY <1>1 DEF ListsTyped, ScansInv
    <3>2. scan[p].stale \subseteq [row : Ids, body : L!Body] /\ scan[p].stage \in {"walking", "writing", "done"}
      BY <3>1 DEF Scan
    <3> QED
      BY <3>1, <3>2 DEF StaleInv, PassedInv, L!Present
  <2>3. \A c \in Writers : writes[c].stage \in {"idle", "read", "batched", "over"}
    BY <1>1 DEF ListsTyped, WriteCall
  <2>4. list.stage \in {"idle", "counting", "selecting", "read", "over"}
    BY <1>1 DEF ListsTyped, Walk
  <2> QED
    BY <2>1, <2>2, <2>3, <2>4 DEF L!TypeOK
<1>3. ASSUME NEW p \in Nodes, L!Ready(p), NEW r \in L!Present \ behind[p]
      PROVE  things[r].keys = L!KeysFor(L!Release(p), things[r].body)
  <2>1. scan[p].passed = Ids /\ scan[p].stale = {}
    BY <1>1, <1>3 DEF ScansInv, StaleInv, PassedInv, L!Ready
  <2> QED
    BY <1>1, <2>1 DEF ScansInv, KeysInv, L!Present
<1>4. L!KeysAreCurrent
  BY <1>3 DEF L!KeysAreCurrent
<1>5. ASSUME list.stage = "read", list.quiet
      PROVE  /\ list \in Walk /\ list.ask \in Asks /\ list.proc \in Nodes /\ L!Ready(list.proc)
             /\ Len(list.shown) = Cardinality(L!Matching(list.ask))
             /\ DOMAIN list.shown = 1..Len(list.shown)
             /\ \A i \in DOMAIN list.shown :
                  /\ list.shown[i] \in L!Matching(list.ask)
                  /\ L!Place(list.shown[i], L!Matching(list.ask), list.ask.descending) = i
             /\ L!Matching(list.ask) \in SUBSET L!Present
  <2>1. list \in Walk
    BY <1>1, <1>5 DEF ListsTyped
  <2>2. list.ask \in Asks /\ list.proc \in Nodes /\ list.shown \in Seq(Ids)
    BY <2>1 DEF Walk
  <2>3. DOMAIN list.shown = 1..Len(list.shown)
    BY <2>2
  <2> QED
    BY <1>1, <1>5, <2>1, <2>2, <2>3, MatchingIs DEF WalkInv, L!Ready
<1>6. L!WalkIsExact
  <2> SUFFICES ASSUME list.stage = "read", list.quiet
               PROVE  /\ L!ToSet(list.shown) = L!Matching(list.ask)
                      /\ Len(list.shown) = L!Cardinality(L!Matching(list.ask))
    BY DEF L!WalkIsExact
  <2>1. ASSUME NEW r \in L!Matching(list.ask) PROVE \E i \in DOMAIN list.shown : list.shown[i] = r
    <3> DEFINE i == L!Place(r, L!Matching(list.ask), list.ask.descending)
    <3>1. i \in DOMAIN list.shown
      BY <1>1, <1>5, PlacesAreInOrder
    <3>2. list.shown[i] = r
      BY <1>1, <1>5, <3>1, PlacesDiffer
    <3> QED
      BY <3>1, <3>2
  <2>2. {list.shown[i] : i \in DOMAIN list.shown} = L!Matching(list.ask)
    BY <1>5, <2>1
  <2> QED
    BY <1>5, <2>2, CardinalityOfLists DEF L!ToSet
<1>7. L!WalkIsInOrder
  <2> SUFFICES ASSUME list.stage = "read", list.quiet, behind[list.proc] = {},
                      NEW i \in DOMAIN list.shown, NEW j \in DOMAIN list.shown, i < j
               PROVE  LET a == things[list.shown[IF list.ask.descending THEN j ELSE i]].body.rank
                          b == things[list.shown[IF list.ask.descending THEN i ELSE j]].body.rank
                      IN a = NoVal \/ (b # NoVal /\ L!SortKey(L!Release(list.proc), a) <= L!SortKey(L!Release(list.proc), b))
    BY DEF L!WalkIsInOrder
  <2> DEFINE x == list.shown[IF list.ask.descending THEN j ELSE i]
             y == list.shown[IF list.ask.descending THEN i ELSE j]
             release == L!Release(list.proc)
  <2>1. L!Before(list.shown[i], list.shown[j], list.ask.descending)
    BY <1>1, <1>5, PlacesDiffer
  <2>2. x \in L!Present /\ y \in L!Present
    BY <1>5
  <2>3. \/ things[x].keys = L!NoKeys /\ things[y].keys # L!NoKeys
        \/ /\ (things[x].keys = L!NoKeys) = (things[y].keys = L!NoKeys)
           /\ things[x].keys.k <= things[y].keys.k
    <3>1. things[x].keys.k \in Int /\ things[y].keys.k \in Int
      BY <1>1, <2>2 DEF ListsTyped, L!Present, L!Row
    <3> QED
      BY <2>1, <3>1 DEF L!Before
  <2> HIDE DEF x, y
  <2>4. /\ things[x].keys = L!KeysFor(release, things[x].body)
        /\ things[y].keys = L!KeysFor(release, things[y].body)
    BY <1>3, <1>5, <2>2
  <2>5. release # 0
    BY DEF L!Release
  <2> HIDE DEF release
  <2>6. things[x].body.rank = NoVal
        \/ (things[y].body.rank # NoVal
            /\ L!SortKey(release, things[x].body.rank) <= L!SortKey(release, things[y].body.rank))
    BY <2>3, <2>4, <2>5 DEF L!KeysFor, L!NoKeys
  <2> QED
    BY <2>6 DEF x, y, release
<1> QED
  BY <1>2, <1>4, <1>6, <1>7

(* However rows are written and keyed again beside it, by servers of two   *)
(* releases: a server whose rekey passed a row finds its own keys there    *)
(* unless another hand wrote them since, a walk through a list that nobody *)
(* writes shows every matching row once, whatever page size is asked, and  *)
(* in the order of the server's release where nothing is behind.           *)
THEOREM WalksShowEveryRow == SpecOperations => []ListsKeepOrder
<1> DEFINE Inv == part = "lists" => ListsInv
<1>1. InitOperations => Inv
  BY ListsInit DEF InitOperations
<1>2. Inv /\ [NextOperations]_all => Inv'
  <2> SUFFICES ASSUME Inv, [NextOperations]_all, part' = "lists" PROVE ListsInv'
    OBVIOUS
  <2>1. part = "lists"
    BY DEF NextOperations, all
  <2>2. CASE NextOperations
    BY <2>1, <2>2, ListsStep DEF NextOperations
  <2>3. CASE UNCHANGED all
    BY <2>1, <2>3, ListsStand DEF all, listsOnly
  <2> QED
    BY <2>2, <2>3
<1>3. Inv => ListsKeepOrder
  BY ListsAreKept DEF ListsKeepOrder
<1> QED
  BY <1>1, <1>2, <1>3, PTL DEF SpecOperations
=============================================================================
