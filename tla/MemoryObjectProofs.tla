------------------------- MODULE MemoryObjectProofs -------------------------
(***************************************************************************)
(* Proofs about the life of ipm_memory objects, for every number of        *)
(* processes, calls and crashes, with system calls that fail or not and    *)
(* opens that are coordinated or not.                                      *)
(***************************************************************************)
EXTENDS MemoryObjectControl

-----------------------------------------------------------------------------
(* References *)

(***************************************************************************)
(* An object that nobody uses stays so until it is published, because open *)
(* waits for that.                                                         *)
(***************************************************************************)
LEMMA UnusedKept ==
    ASSUME Inv, NEW p \in Procs, Act(p), NEW k \in Kinds, NEW o \in Objects, Unused(k, o),
           CreatePublish(p) => ~ Mine(p, k, o)
    PROVE  Unused(k, o)'
<1>0. TypeOK /\ Control(p) /\ RefcountExact /\ OneCreator /\ \A q \in Procs : Control(q)
  BY Zenon DEF Inv
<1>1. /\ header[k][o].refcount = 0
      /\ \A q \in Procs :
            /\ memory[q][k].object # o
            /\ ~ (pc[q] = "open_ref" /\ call[q].kind = k /\ call[q].object = o)
  BY Zenon DEF Unused
<1>2. ASSUME NEW q \in Procs, pc'[q] = "open_ref", call'[q].kind = k, call'[q].object = o
      PROVE  FALSE
  <2>1. CASE q # p
    BY <1>0, <1>1, <1>2, <2>1, OthersKept, Zenon
  <2>2. CASE q = p
    <3>1. OpenWait(p)
      BY <1>0, <1>2, <2>2, CallStep, Zenon DEF Moves
    <3>2. Hdr(p).refcount # 0 /\ call' = call
      BY <3>1, Zenon DEF OpenWait
    <3> QED BY <1>1, <1>2, <2>2, <3>2, Zenon DEF Hdr
  <2> QED BY <2>1, <2>2, Zenon
<1>3. ASSUME header'[k][o].refcount = header[k][o].refcount, memory'[p][k].object # o
      PROVE  Unused(k, o)'
  <2>1. \A q \in Procs : memory'[q][k].object # o
    BY <1>0, <1>1, <1>3, OthersKept, Zenon
  <2> QED BY <1>1, <1>2, <1>3, <2>1, Zenon DEF Unused
<1>4. o # None
  BY Basics, Zenon
<1>5. CASE Quiet \/ MutexMade(p)
  BY <1>1, <1>3, <1>5, Zenon DEF Quiet, MutexMade
<1>6. CASE Clean(p)
  <2>1. memory'[p] = NoMemory /\ header' = header
    BY <1>0, <1>6, Zenon DEF Clean, TypeOK
  <2> QED BY <1>3, <1>4, <2>1, Basics, Zenon DEF NoMemory
<1>7. CASE CreatePublish(p)
  <2>1. ~ Mine(p, k, o)
    BY <1>7, Zenon
  <2> QED BY <1>0, <1>1, <1>3, <1>7, <2>1, PublishEffect DEF Mine
<1>8. CASE OpenRef(p)
  <2>1. ~ Mine(p, k, o)
    BY <1>1, <1>8, Zenon DEF OpenRef, Mine
  <2> QED BY <1>0, <1>1, <1>3, <1>8, <2>1, OpenRefEffect DEF Mine
<1>9. CASE OpenId(p)
  <2>1. ~ Mine(p, k, o)
    BY <1>0, <1>1, <1>9, OpenIdEffect DEF Mine
  <2> QED BY <1>0, <1>1, <1>3, <1>9, <2>1, OpenIdEffect, ZenonT(30) DEF Mine
<1>10. CASE CloseSub(p)
  <2>1. ~ Mine(p, k, o)
    BY <1>0, <1>1, <1>10, CloseSubEffect DEF Mine
  <2> QED BY <1>0, <1>1, <1>3, <1>4, <1>10, <2>1, CloseSubEffect, Basics DEF Mine
<1> QED BY <1>0, <1>5, <1>6, <1>7, <1>8, <1>9, <1>10, QuietStep, Zenon

(***************************************************************************)
(* A new object stays without users: only its creator can publish it.      *)
(***************************************************************************)
LEMMA UnusedStep ==
    ASSUME Inv, NEW p \in Procs, Act(p), NEW k \in Kinds, NEW o \in Objects, Fresh(k, o)'
    PROVE  Unused(k, o)'
<1>1. TypeOK /\ Control(p) /\ OneCreator /\ \A q \in Procs : Control(q)
  BY Zenon DEF Inv
<1>2. Unused(k, o)
  BY <1>1, FreshBack, Zenon DEF Inv, FreshUnused
<1>3. CreatePublish(p) => ~ Mine(p, k, o)
  BY <1>1, PublishedNotFresh, Zenon
<1> QED BY <1>2, <1>3, UnusedKept, Zenon

(***************************************************************************)
(* The count of one block after a step of p.                               *)
(***************************************************************************)
LEMMA CountStep ==
    ASSUME Inv, NEW p \in Procs, Act(p), NEW k \in Kinds, NEW o \in Objects
    PROVE  header'[k][o].refcount = Cardinality(Users(k, o)')
<1>0. TypeOK /\ Control(p) /\ RefcountExact /\ OneCreator /\ \A q \in Procs : Control(q)
  BY Zenon DEF Inv
<1>1. /\ header[k][o].refcount = Cardinality(Users(k, o)) /\ IsFiniteSet(Users(k, o))
      /\ header[k][o].refcount \in Nat /\ o # None
  <2>1. IsFiniteSet(Users(k, o))
    BY UseAssumption, FS_Subset, Zenon DEF Users
  <2>2. header[k][o].refcount = Cardinality(Users(k, o))
    BY <1>0, Zenon DEF RefcountExact, Users
  <2> QED BY <2>1, <2>2, FS_CardinalityType, Basics, Zenon
<1>2. \A q \in Procs : q # p => (q \in Users(k, o)' <=> q \in Users(k, o))
  BY <1>0, OthersKept, Zenon DEF Users
<1>3. ASSUME header'[k][o].refcount = header[k][o].refcount,
             p \in Users(k, o)' <=> p \in Users(k, o)
      PROVE  header'[k][o].refcount = Cardinality(Users(k, o)')
  <2>1. Users(k, o)' = Users(k, o)
    BY <1>2, <1>3, Zenon DEF Users
  <2> QED BY <1>1, <1>3, <2>1, Zenon
<1>4. CASE Quiet \/ MutexMade(p)
  BY <1>3, <1>4, Zenon DEF Quiet, MutexMade, Users
<1>5. CASE Clean(p)
  <2>1. memory'[p] = NoMemory /\ header' = header /\ p \in forked
    BY <1>0, <1>5, Zenon DEF Clean, TypeOK
  <2>2. p \notin Users(k, o) /\ p \notin Users(k, o)'
    BY <1>1, <2>1, Basics, Zenon DEF Users, NoMemory
  <2> QED BY <1>3, <2>1, <2>2, Zenon
<1>6. CASE CreatePublish(p)
  <2>1. CASE ~ Mine(p, k, o)
    <3>1. /\ header'[k][o].refcount = header[k][o].refcount /\ forked' = forked
          /\ k # call[p].kind => memory'[p][k] = memory[p][k]
      BY <1>0, <1>6, <2>1, PublishEffect, Zenon
    <3>2. /\ memory[p][call[p].kind].object = None
          /\ memory'[p][call[p].kind].object = call[p].object
      BY <1>0, <1>6, PublishEffect, Basics, Zenon
    <3>3. memory'[p][k].object = o <=> memory[p][k].object = o
      BY <1>1, <2>1, <3>1, <3>2, Zenon DEF Mine
    <3> QED BY <1>3, <3>1, <3>3, Zenon DEF Users
  <2>2. CASE Mine(p, k, o)
    <3>1. Unpublished(p, k, o)
      BY <1>0, <1>6, <2>2, Zenon
      DEF CreatePublish, Control, CreateControl, Creating, Unpublished, Mine
    <3>2. Users(k, o) = {}
      BY <3>1, Zenon DEF Fresh, Inv, FreshUnused, Unused, Users
    <3>3. p \in Users(k, o)' /\ header'[k][o].refcount = 1
      BY <1>0, <1>6, <2>2, PublishEffect, Zenon DEF Mine, Users
    <3>4. Users(k, o)' = {p}
      BY <1>2, <3>2, <3>3, Zenon DEF Users
    <3>5. Cardinality({p}) = 1
      BY FS_Singleton, Zenon
    <3> QED BY <3>3, <3>4, <3>5, Zenon
  <2> QED BY <2>1, <2>2, Zenon
<1>7. CASE OpenRef(p)
  <2>1. CASE ~ Mine(p, k, o)
    <3>1. /\ header'[k][o].refcount = header[k][o].refcount /\ forked' = forked
          /\ k # call[p].kind => memory'[p][k] = memory[p][k]
      BY <1>0, <1>7, <2>1, OpenRefEffect, Zenon
    <3>2. /\ memory[p][call[p].kind].object = None
          /\ memory'[p][call[p].kind].object = call[p].object
      BY <1>0, <1>7, OpenRefEffect, Basics, Zenon
    <3>3. memory'[p][k].object = o <=> memory[p][k].object = o
      BY <1>1, <2>1, <3>1, <3>2, Zenon DEF Mine
    <3> QED BY <1>3, <3>1, <3>3, Zenon DEF Users
  <2>2. CASE Mine(p, k, o)
    <3>1. /\ p \notin Users(k, o) /\ p \in Users(k, o)'
          /\ header'[k][o].refcount = header[k][o].refcount + 1
      BY <1>0, <1>1, <1>7, <2>2, OpenRefEffect, Basics, Zenon DEF Mine, Users
    <3>2. Users(k, o)' = Users(k, o) \cup {p}
      BY <1>2, <3>1, Zenon DEF Users
    <3>3. Cardinality(Users(k, o) \cup {p}) = Cardinality(Users(k, o)) + 1
      BY <1>1, <3>1, FS_AddElement, Zenon
    <3> QED BY <1>1, <3>1, <3>2, <3>3, Zenon
  <2> QED BY <2>1, <2>2, Zenon
<1>8. CASE OpenId(p)
  <2>1. header'[k][o].refcount = header[k][o].refcount /\ forked' = forked
    BY <1>0, <1>8, OpenIdEffect, Zenon
  <2>2. memory'[p][k].object = memory[p][k].object
    BY <1>0, <1>8, OpenIdEffect
  <2> QED BY <1>3, <2>1, <2>2, Zenon DEF Users
<1>9. CASE CloseSub(p)
  <2>1. CASE ~ Mine(p, k, o)
    <3>1. /\ header'[k][o].refcount = header[k][o].refcount /\ forked' = forked
          /\ k # call[p].kind => memory'[p][k] = memory[p][k]
      BY <1>0, <1>9, <2>1, CloseSubEffect, Zenon
    <3>2. /\ memory[p][call[p].kind].object = call[p].object
          /\ memory'[p][call[p].kind].object = None
      BY <1>0, <1>9, CloseSubEffect, Basics, Zenon
    <3>3. memory'[p][k].object = o <=> memory[p][k].object = o
      BY <1>1, <2>1, <3>1, <3>2, Zenon DEF Mine
    <3> QED BY <1>3, <3>1, <3>3, Zenon DEF Users
  <2>2. CASE Mine(p, k, o)
    <3>1. /\ p \in Users(k, o) /\ p \notin Users(k, o)'
          /\ header'[k][o].refcount = header[k][o].refcount - 1
      BY <1>0, <1>1, <1>9, <2>2, CloseSubEffect, Basics, Zenon DEF Mine, Users
    <3>2. Users(k, o)' = Users(k, o) \ {p}
      BY <1>2, <3>1, Zenon DEF Users
    <3>3. Cardinality(Users(k, o) \ {p}) = Cardinality(Users(k, o)) - 1
      BY <1>1, <3>1, FS_RemoveElement, Zenon
    <3> QED BY <1>1, <3>1, <3>2, <3>3, Zenon
  <2> QED BY <2>1, <2>2, Zenon
<1> QED BY <1>0, <1>4, <1>5, <1>6, <1>7, <1>8, <1>9, QuietStep, Zenon
-----------------------------------------------------------------------------
(* Access ids *)

(***************************************************************************)
(* The counter of a block that somebody has open never goes back: create   *)
(* resets it only before anybody can open the block.                       *)
(***************************************************************************)
LEMMA CounterGrows ==
    ASSUME Inv, NEW p \in Procs, Act(p), NEW q \in Procs, NEW k \in Kinds, NEW o \in Objects,
           memory[q][k].object = o
    PROVE  header'[k][o].id_counter >= header[k][o].id_counter
<1>0. TypeOK /\ Control(p) /\ RefcountExact
  BY Zenon DEF Inv
<1>1. header[k][o].id_counter \in Nat
  BY <1>0, ZenonT(30) DEF TypeOK, Header
<1>2. CASE Quiet \/ Clean(p)
  BY <1>1, <1>2 DEF Quiet, Clean
<1>3. CASE MutexMade(p)
  <2>1. CASE Mine(p, k, o)
    <3>1. Unpublished(p, k, o)
      BY <1>0, <1>3, <2>1, Zenon
      DEF MutexMade, Control, CreateControl, Creating, Unpublished, Mine
    <3> QED BY <3>1, Zenon DEF Fresh, Inv, FreshUnused, Unused
  <2>2. CASE ~ Mine(p, k, o)
    BY <1>1, <1>3, <2>2 DEF MutexMade
  <2> QED BY <2>1, <2>2, Zenon
<1>4. CASE CreatePublish(p)
  BY <1>0, <1>1, <1>4, PublishEffect
<1>5. CASE OpenRef(p)
  BY <1>0, <1>1, <1>5, OpenRefEffect, SMTT(30)
<1>6. CASE OpenId(p)
  BY <1>0, <1>1, <1>6, OpenIdEffect DEF Mine
<1>7. CASE CloseSub(p)
  BY <1>0, <1>1, <1>7, CloseSubEffect
<1> QED BY <1>0, <1>2, <1>3, <1>4, <1>5, <1>6, <1>7, QuietStep, Zenon

(***************************************************************************)
(* Nobody else draws an id from an object that is about to be published.   *)
(***************************************************************************)
LEMMA PublisherKept ==
    ASSUME Inv, NEW p \in Procs, Act(p), NEW q \in Procs, q # p, pc[q] = "create_publish",
           NEW k \in Kinds, NEW o \in Objects, Mine(q, k, o)
    PROVE  header'[k][o].id_counter = header[k][o].id_counter
<1>0. TypeOK /\ Control(p) /\ Control(q) /\ RefcountExact /\ OneCreator
  BY Zenon DEF Inv
<1>1. call[q].op = "create"
  BY <1>0, Zenon DEF Control, CreateControl, Creating
<1>2. Unpublished(q, k, o)
  BY <1>1, Zenon DEF Unpublished, Mine, Creating
<1>3. \A r \in Procs : memory[r][k].object # o
  BY <1>2, Zenon DEF Fresh, Inv, FreshUnused, Unused
<1>4. CASE Quiet \/ Clean(p)
  BY <1>4, Zenon DEF Quiet, Clean
<1>5. CASE MutexMade(p)
  <2>1. call[p].op = "create"
    BY <1>0, <1>5, Zenon DEF MutexMade, Control, CreateControl, Creating
  <2>2. ~ Mine(p, k, o)
    BY <1>0, <1>1, <2>1, Zenon DEF OneCreator, Mine
  <2> QED BY <1>5, <2>2, Zenon DEF MutexMade
<1>6. CASE CreatePublish(p)
  BY <1>0, <1>6, PublishEffect, Zenon
<1>7. CASE OpenRef(p)
  BY <1>0, <1>7, OpenRefEffect, Zenon
<1>8. CASE OpenId(p)
  <2>1. ~ Mine(p, k, o)
    BY <1>0, <1>3, <1>8, OpenIdEffect, SMTT(30) DEF Mine
  <2> QED BY <1>0, <1>8, <2>1, OpenIdEffect, ZenonT(30)
<1>9. CASE CloseSub(p)
  BY <1>0, <1>9, CloseSubEffect, Zenon
<1> QED BY <1>0, <1>4, <1>5, <1>6, <1>7, <1>8, <1>9, QuietStep, Zenon

(***************************************************************************)
(* The ids that were given out stay below the counters.                    *)
(***************************************************************************)
LEMMA BelowStep ==
    ASSUME Inv, NEW p \in Procs, Act(p), TypeOK'
    PROVE  IdsBelow'
<1>0. TypeOK /\ Control(p) /\ RefcountExact /\ IdsBelow
  BY ZenonT(30) DEF Inv
<1>1. ASSUME NEW q \in Procs, NEW k \in Kinds, q \notin forked, memory'[q][k] = memory[q][k],
             memory[q][k].object \in Objects, memory[q][k].access_id # 0
      PROVE  memory'[q][k].access_id < header'[k][memory[q][k].object].id_counter
  <2> DEFINE o == memory[q][k].object
  <2>1. o \in Objects /\ memory[q][k].access_id \in Nat
    BY <1>0, <1>1, Zenon DEF TypeOK, Block
  <2>2. header[k][o].id_counter \in Nat /\ header'[k][o].id_counter \in Nat
    BY <1>0, <2>1 DEF TypeOK, Header
  <2>3. memory[q][k].access_id < header[k][o].id_counter
    BY <1>0, <1>1, Zenon DEF IdsBelow
  <2>4. header'[k][o].id_counter >= header[k][o].id_counter
    BY <2>1, CounterGrows, Zenon
  <2> QED BY <1>1, <2>1, <2>2, <2>3, <2>4, SMTT(30)
<1>2. ASSUME NEW k \in Kinds, p \notin forked', memory'[p][k].object \in Objects,
             memory'[p][k].access_id # 0
      PROVE  memory'[p][k].access_id < header'[k][memory'[p][k].object].id_counter
  <2>0. None \notin Objects
    BY Basics, Zenon
  <2>1. CASE Quiet \/ MutexMade(p)
    BY <1>1, <1>2, <2>1, Zenon DEF Quiet, MutexMade
  <2>2. CASE Clean(p)
    <3>1. memory'[p] = NoMemory
      BY <1>0, <2>2, Zenon DEF Clean, TypeOK
    <3> QED BY <1>2, <2>0, <3>1, Basics, Zenon DEF NoMemory
  <2>3. CASE CreatePublish(p) /\ k = call[p].kind
    <3>1. /\ memory'[p][k].object = call[p].object
          /\ memory'[p][k].access_id = call[p].access_id
          /\ header'[k][call[p].object].id_counter = header[k][call[p].object].id_counter
      BY <1>0, <2>3, PublishEffect, Zenon
    <3>2. call[p].access_id = 1 /\ header[k][call[p].object].id_counter = 2
      BY <1>0, <2>3, Zenon DEF CreatePublish, IdsBelow
    <3> QED BY <3>1, <3>2
  <2>4. CASE CreatePublish(p) /\ k # call[p].kind
    <3>1. p \notin forked /\ memory'[p][k] = memory[p][k]
      BY <1>0, <2>4, PublishEffect, Zenon
    <3> QED BY <1>1, <1>2, <3>1, Zenon
  <2>5. CASE OpenRef(p)
    <3>1. /\ p \notin forked /\ memory'[p][call[p].kind].access_id = 0
          /\ k # call[p].kind => memory'[p][k] = memory[p][k]
      BY <1>0, <2>5, OpenRefEffect, Zenon
    <3> QED BY <1>1, <1>2, <3>1, Zenon
  <2>6. CASE OpenId(p) /\ k = call[p].kind
    <3>1. /\ memory'[p][k].object = call[p].object /\ call[p].object \in Objects
          /\ memory'[p][k].access_id = header[k][call[p].object].id_counter
          /\ header'[k][call[p].object].id_counter = header[k][call[p].object].id_counter + 1
      BY <1>0, <2>6, OpenIdEffect, Zenon
    <3>2. header[k][call[p].object].id_counter \in Nat
      BY <1>0, <3>1, SMTT(30) DEF TypeOK, Header
    <3> QED BY <3>1, <3>2
  <2>7. CASE OpenId(p) /\ k # call[p].kind
    <3>1. p \notin forked /\ memory'[p][k] = memory[p][k]
      BY <1>0, <2>7, OpenIdEffect, Zenon
    <3> QED BY <1>1, <1>2, <3>1, Zenon
  <2>8. CASE CloseSub(p)
    <3>1. /\ p \notin forked /\ memory'[p][call[p].kind] = NoBlock
          /\ k # call[p].kind => memory'[p][k] = memory[p][k]
      BY <1>0, <2>8, CloseSubEffect, Zenon
    <3> QED BY <1>1, <1>2, <2>0, <3>1, Basics, Zenon
  <2> QED BY <1>0, <2>1, <2>2, <2>3, <2>4, <2>5, <2>6, <2>7, <2>8, QuietStep, Zenon
<1>3. ASSUME NEW q \in Procs, pc'[q] = "create_publish"
      PROVE  call'[q].access_id = 1 /\ header'[call'[q].kind][call'[q].object].id_counter = 2
  <2>1. CASE q = p
    <3>1. MutexMade(p)
      BY <1>0, <1>3, <2>1, CallStep, Zenon DEF Moves
    <3> QED BY <2>1, <3>1, Zenon DEF MutexMade
  <2>2. CASE q # p
    <3>1. pc[q] = "create_publish" /\ call'[q] = call[q]
      BY <1>0, <1>3, <2>2, OthersKept, Zenon
    <3>2. call[q].kind \in Kinds /\ call[q].object \in Objects
      <4>1. call[q].object \in 1 .. calls /\ calls \in Nat
        BY <3>1, UseAssumption DEF Inv, TypeOK, Control, CreateControl, Creating
      <4>2. call[q].object # None
        BY <4>1, Basics
      <4> QED BY <1>0, <4>2, Zenon DEF TypeOK, Call
    <3>3. header'[call[q].kind][call[q].object].id_counter =
              header[call[q].kind][call[q].object].id_counter
      BY <2>2, <3>1, <3>2, PublisherKept, Zenon DEF Mine
    <3> QED BY <1>0, <3>1, <3>3, Zenon DEF IdsBelow
  <2> QED BY <2>1, <2>2, Zenon
<1>4. ASSUME NEW q \in Procs, q \notin forked', NEW k \in Kinds,
             memory'[q][k].object \in Objects, memory'[q][k].access_id # 0
      PROVE  memory'[q][k].access_id < header'[k][memory'[q][k].object].id_counter
  <2>1. CASE q # p
    BY <1>0, <1>1, <1>4, <2>1, OthersKept, Zenon
  <2> QED BY <1>2, <1>4, <2>1, Zenon
<1> QED BY <1>3, <1>4, Zenon DEF IdsBelow

(***************************************************************************)
(* No two ipm_memory objects come to have the same id on a block.          *)
(***************************************************************************)
LEMMA DifferStep ==
    ASSUME Inv, NEW p \in Procs, Act(p), TypeOK'
    PROVE  IdsDiffer'
<1>0. TypeOK /\ Control(p) /\ RefcountExact /\ IdsBelow /\ IdsDiffer
  BY Zenon DEF Inv
<1>1. ASSUME NEW q \in Procs, q # p, p \notin forked', q \notin forked', NEW k \in Kinds,
             memory'[p][k].object # None, memory'[p][k].object = memory'[q][k].object,
             memory'[p][k].access_id = memory'[q][k].access_id
      PROVE  memory'[p][k].access_id = 0
  <2>0. memory'[q] = memory[q] /\ q \notin forked
    BY <1>0, <1>1, OthersKept, Zenon
  <2>1. ASSUME memory'[p][k] = memory[p][k], p \notin forked
        PROVE  memory'[p][k].access_id = 0
    BY <1>0, <1>1, <2>0, <2>1, ZenonT(30) DEF IdsDiffer
  <2>2. CASE Quiet \/ MutexMade(p)
    BY <1>1, <2>1, <2>2, Zenon DEF Quiet, MutexMade
  <2>3. CASE Clean(p)
    <3>1. memory'[p] = NoMemory
      BY <1>0, <2>3, Zenon DEF Clean, TypeOK
    <3> QED BY <1>1, <3>1, Basics, Zenon DEF NoMemory
  <2>4. CASE CreatePublish(p) /\ k = call[p].kind
    <3>1. memory'[p][k].object = call[p].object /\ call[p].object \in Objects
      BY <1>0, <2>4, PublishEffect, Zenon
    <3>2. Unpublished(p, k, call[p].object)
      BY <1>0, <2>4, Zenon DEF CreatePublish, Control, CreateControl, Creating, Unpublished
    <3>3. memory[q][k].object # call[p].object
      BY <3>1, <3>2, Zenon DEF Fresh, Inv, FreshUnused, Unused
    <3> QED BY <1>1, <2>0, <3>1, <3>3, Zenon
  <2>5. CASE CreatePublish(p) /\ k # call[p].kind
    BY <1>0, <2>1, <2>5, PublishEffect, Zenon
  <2>6. CASE OpenRef(p)
    BY <1>0, <2>1, <2>6, OpenRefEffect, Zenon
  <2>7. CASE OpenId(p) /\ k = call[p].kind
    <3>1. /\ memory'[p][k].object = call[p].object /\ call[p].object \in Objects
          /\ memory'[p][k].access_id = header[k][call[p].object].id_counter
      BY <1>0, <2>7, OpenIdEffect, Zenon
    <3>2. header[k][call[p].object].id_counter \in Nat
      BY <1>0, <3>1, SMTT(30) DEF TypeOK, Header
    <3>3. /\ memory[q][k].object = call[p].object
          /\ memory[q][k].access_id = header[k][call[p].object].id_counter
      BY <1>1, <2>0, <3>1, Zenon
    <3>4. ~ (memory[q][k].access_id < header[k][call[p].object].id_counter)
      BY <3>2, <3>3
    <3>5. memory[q][k].access_id = 0
      BY <1>0, <2>0, <3>1, <3>3, <3>4, Zenon DEF IdsBelow
    <3> QED BY <3>1, <3>3, <3>5, Zenon
  <2>8. CASE OpenId(p) /\ k # call[p].kind
    BY <1>0, <2>1, <2>8, OpenIdEffect, Zenon
  <2>9. CASE CloseSub(p)
    BY <1>0, <1>1, <2>1, <2>9, CloseSubEffect, Basics, Zenon
  <2> QED BY <1>0, <2>2, <2>3, <2>4, <2>5, <2>6, <2>7, <2>8, <2>9, QuietStep, Zenon
<1>2. ASSUME NEW q \in Procs, NEW r \in Procs, q # p, r # p, q # r, q \notin forked',
             r \notin forked', NEW k \in Kinds, memory'[q][k].object # None,
             memory'[q][k].access_id # 0, memory'[q][k].object = memory'[r][k].object
      PROVE  memory'[q][k].access_id # memory'[r][k].access_id
  <2>1. /\ memory'[q] = memory[q] /\ q \notin forked
        /\ memory'[r] = memory[r] /\ r \notin forked
    BY <1>0, <1>2, OthersKept, Zenon
  <2> QED BY <1>0, <1>2, <2>1, ZenonT(30) DEF IdsDiffer
<1>3. ASSUME NEW q \in Procs, NEW r \in Procs, q # r, q \notin forked', r \notin forked',
             NEW k \in Kinds, memory'[q][k].object # None,
             memory'[q][k].access_id # 0, memory'[q][k].object = memory'[r][k].object
      PROVE  memory'[q][k].access_id # memory'[r][k].access_id
  <2>1. CASE q = p
    BY <1>1, <1>3, <2>1, Zenon
  <2>2. CASE r = p
    BY <1>1, <1>3, <2>2, Zenon
  <2>3. CASE q # p /\ r # p
    BY <1>2, <1>3, <2>3, Zenon
  <2> QED BY <2>1, <2>2, <2>3, Zenon
<1> QED BY <1>3, Zenon DEF IdsDiffer
-----------------------------------------------------------------------------
(* The invariant *)

(***************************************************************************)
(* fork copies an ipm_memory without counting it; the invariant holds for  *)
(* the copy too.                                                           *)
(***************************************************************************)
LEMMA ForkStep ==
    ASSUME Inv, NEW p \in Procs, NEW q \in Procs, Fork(p, q)
    PROVE  Inv'
<1>0. /\ TypeOK /\ OneCreator /\ FreshUnused /\ RefcountExact /\ IdsBelow /\ IdsDiffer
      /\ \A r \in Procs : Control(r)
  BY Zenon DEF Inv
<1>1. /\ linked' = linked /\ leaked' = leaked /\ header' = header /\ pc' = pc
      /\ call' = call /\ calls' = calls /\ crashes' = crashes /\ forked' = forked \cup {q}
      /\ memory'[q] = memory[p] /\ memory' \in [Procs -> [Kinds -> Block]]
      /\ \A r \in Procs : r # q => memory'[r] = memory[r]
      /\ pc[q] = "idle" /\ memory[q] = NoMemory /\ memory[p] # NoMemory /\ pc[p] = "idle"
  BY <1>0, Zenon DEF Fork, Holder, TypeOK
<1>2. /\ \A k \in Kinds : memory[p][k].object # None /\ memory[q][k].object = None
      /\ call[q] = NoCall
  BY <1>0, <1>1, Basics, Zenon DEF Control, IdleControl, Has, NoMemory
<1>3. TypeOK'
  BY <1>0, <1>1, Zenon DEF TypeOK
<1>4. ASSUME NEW r \in Procs PROVE Control(r)'
  <2>1. CASE r = q
    BY <1>1, <1>2, <2>1, Basics, Zenon
    DEF Control, CreateControl, OpenControl, CloseControl, IdleControl, Has, Creating, Opens
  <2>2. CASE r # q
    <3>1. memory'[r] = memory[r] /\ (r \in forked' <=> r \in forked)
      BY <1>1, <2>2, Zenon
    <3>2. Control(r)
      BY <1>0, Zenon
    <3> QED BY <1>1, <3>1, <3>2, ZenonT(30)
        DEF Control, CreateControl, OpenControl, CloseControl, IdleControl, Rest, Has, Without
  <2> QED BY <2>1, <2>2, Zenon
<1>5. OneCreator'
  BY <1>0, <1>1, Zenon DEF OneCreator
<1>6. ASSUME NEW k \in Kinds, NEW o \in Objects, Fresh(k, o)' PROVE Unused(k, o)'
  <2>1. Fresh(k, o)
    BY <1>1, <1>6, Zenon DEF Fresh, Unpublished
  <2>2. Unused(k, o)
    BY <1>0, <2>1, Zenon DEF FreshUnused
  <2>3. \A r \in Procs : memory'[r][k].object # o
    BY <1>1, <2>2, Zenon DEF Unused
  <2> QED BY <1>1, <2>2, <2>3, Zenon DEF Unused
<1>7. ASSUME NEW k \in Kinds, NEW o \in Objects
      PROVE  header'[k][o].refcount =
                 Cardinality({r \in Procs \ forked' : memory'[r][k].object = o})
  <2>1. o # None
    BY Basics, Zenon
  <2>2. {r \in Procs \ forked' : memory'[r][k].object = o} =
            {r \in Procs \ forked : memory[r][k].object = o}
    BY <1>1, <1>2, <2>1, Zenon
  <2> QED BY <1>0, <1>1, <2>2, Zenon DEF RefcountExact
<1>8. IdsBelow'
  BY <1>0, <1>1, SMTT(30) DEF IdsBelow
<1>9. IdsDiffer'
  BY <1>0, <1>1, SMTT(30) DEF IdsDiffer
<1>10. FreshUnused' /\ RefcountExact'
  BY <1>6, <1>7, Zenon DEF FreshUnused, RefcountExact
<1> QED BY <1>3, <1>4, <1>5, <1>8, <1>9, <1>10, Zenon DEF Inv

(***************************************************************************)
(* Before the first call no name is linked and nobody has a block.         *)
(***************************************************************************)
LEMMA InitInv == Init => Inv
<1> SUFFICES ASSUME Init PROVE Inv
  BY Zenon
<1>0. /\ linked = [k \in Kinds |-> None] /\ leaked = [k \in Kinds |-> {}]
      /\ header = [k \in Kinds |-> [o \in Objects |-> ZeroHeader]]
      /\ pc = [p \in Procs |-> "idle"] /\ call = [p \in Procs |-> NoCall]
      /\ memory = [p \in Procs |-> NoMemory] /\ forked = {} /\ calls = 0 /\ crashes = 0
  BY Zenon DEF Init
<1>1. TypeOK
  BY <1>0, Basics, UseAssumption DEF TypeOK, PC
<1>2. \A p \in Procs : pc[p] = "idle" /\ call[p] = NoCall /\ memory[p] = NoMemory
  BY <1>0, Zenon
<1>3. \A p \in Procs, k \in Kinds : memory[p][k].object = None
  BY <1>2, Basics, ZenonT(30) DEF NoMemory
<1>4. \A p \in Procs : Control(p)
  BY <1>0, <1>2, Basics, Zenon
  DEF Control, CreateControl, OpenControl, CloseControl, IdleControl, Creating, Opens
<1>5. OneCreator
  BY <1>2, Basics, Zenon DEF OneCreator
<1>6. ASSUME NEW k \in Kinds, NEW o \in Objects
      PROVE  /\ Unused(k, o)
             /\ header[k][o].refcount =
                   Cardinality({p \in Procs \ forked : memory[p][k].object = o})
  <2>1. header[k][o].refcount = 0 /\ o # None
    BY <1>0, Basics, Zenon
  <2>2. {p \in Procs \ forked : memory[p][k].object = o} = {}
    BY <1>3, <2>1, Zenon
  <2>3. Cardinality({}) = 0
    BY FS_EmptySet, Zenon
  <2>4. \A q \in Procs : memory[q][k].object # o /\ pc[q] # "open_ref"
    BY <1>2, <1>3, <2>1, Zenon
  <2>5. Unused(k, o)
    BY <2>1, <2>4, Zenon DEF Unused
  <2> QED BY <2>1, <2>2, <2>3, <2>5, Zenon
<1>7. IdsBelow /\ IdsDiffer
  BY <1>2, <1>3, Basics, Zenon DEF IdsBelow, IdsDiffer
<1> QED BY <1>1, <1>4, <1>5, <1>6, <1>7, Zenon DEF Inv, FreshUnused, RefcountExact

(***************************************************************************)
(* Every step of every process keeps the invariant.                        *)
(***************************************************************************)
LEMMA InvStep == Inv /\ [Next]_vars => Inv'
<1> SUFFICES ASSUME Inv, [Next]_vars PROVE Inv'
  BY Zenon
<1>1. ASSUME NEW p \in Procs, Act(p) PROVE Inv'
  <2>0. TypeOK /\ OneCreator /\ RefcountExact /\ \A q \in Procs : Control(q)
    BY Zenon DEF Inv
  <2>1. TypeOK'
    BY <1>1, <2>0, TypeStep, Zenon
  <2>2. ASSUME NEW q \in Procs PROVE Control(q)'
    <3>1. CASE q = p
      BY <1>1, <2>0, <2>1, <3>1, ControlStep, Zenon
    <3>2. CASE q # p
      <4>1. /\ pc'[q] = pc[q] /\ call'[q] = call[q] /\ memory'[q] = memory[q]
            /\ q \in forked' <=> q \in forked
        BY <1>1, <2>0, <3>2, OthersKept, Zenon
      <4>2. Control(q)
        BY <2>0, Zenon
      <4>3. calls' \in Nat /\ calls \in Nat /\ calls' >= calls
        BY <1>1, <2>0, CallStep, UseAssumption, SMTT(30) DEF Moves, TypeOK
      <4>4. CreateControl(q)'
        <5>1. call[q].op = "create" => call[q].object \in 1 .. calls'
          BY <4>2, <4>3, SMTT(30) DEF Control, CreateControl
        <5> QED BY <4>1, <4>2, <5>1, Zenon DEF Control, CreateControl, Has, Without
      <4>5. OpenControl(q)' /\ IdleControl(q)'
        BY <4>1, <4>2, Zenon DEF Control, OpenControl, IdleControl, Has, Without
      <4>6. CloseControl(q)'
        BY <4>1, <4>2, Zenon DEF Control, CloseControl, Rest, Has, Without
      <4> QED BY <4>4, <4>5, <4>6, Zenon DEF Control
    <3> QED BY <3>1, <3>2, Zenon
  <2>3. OneCreator'
    BY <1>1, <2>0, CreatorStep, Zenon
  <2>4. FreshUnused'
    BY <1>1, UnusedStep, Zenon DEF FreshUnused
  <2>5. RefcountExact'
    BY <1>1, CountStep, Zenon DEF RefcountExact, Users
  <2>6. IdsBelow' /\ IdsDiffer'
    BY <1>1, <2>1, BelowStep, DifferStep, Zenon
  <2> QED BY <2>1, <2>2, <2>3, <2>4, <2>5, <2>6, Zenon DEF Inv
<1>2. CASE UNCHANGED vars
  <2>0. /\ linked' = linked /\ leaked' = leaked /\ header' = header /\ pc' = pc /\ call' = call
        /\ memory' = memory /\ forked' = forked /\ calls' = calls /\ crashes' = crashes
    BY <1>2, Zenon DEF vars
  <2>1. TypeOK' /\ OneCreator' /\ RefcountExact'
    BY <2>0 DEF Inv, TypeOK, OneCreator, RefcountExact
  <2>2. ASSUME NEW q \in Procs PROVE Control(q)'
    <3>1. Control(q)
      BY Zenon DEF Inv
    <3> QED BY <2>0, <3>1, Zenon DEF Control, CreateControl, OpenControl, CloseControl,
                                     IdleControl, Rest, Has, Without
  <2>3. FreshUnused'
    <3>1. ASSUME NEW k \in Kinds, NEW o \in Objects, Fresh(k, o)' PROVE Unused(k, o)'
      <4>1. Fresh(k, o)
        BY <2>0, <3>1, Zenon DEF Fresh, Unpublished
      <4>2. Unused(k, o)
        BY <4>1, ZenonT(30) DEF Inv, FreshUnused
      <4> QED BY <2>0, <4>2, Zenon DEF Unused
    <3> QED BY <3>1, Zenon DEF FreshUnused
  <2>4. IdsBelow' /\ IdsDiffer'
    BY <2>0, SMTT(30) DEF Inv, IdsBelow, IdsDiffer
  <2> QED BY <2>1, <2>2, <2>3, <2>4, Zenon DEF Inv
<1>3. CASE Next
  BY <1>1, <1>3, ForkStep, Zenon DEF Next, Act
<1> QED BY <1>2, <1>3, Zenon

(***************************************************************************)
(* The invariant holds in every reachable state.                           *)
(***************************************************************************)
THEOREM ObjectInvariant == Spec => []Inv
BY InitInv, InvStep, PTL DEF Spec

(***************************************************************************)
(* The variables keep their types; the reference counter of a header never *)
(* goes below 0.                                                           *)
(***************************************************************************)
THEOREM ObjectTypeOK == Spec => []TypeOK
<1>1. Inv => TypeOK
  BY Zenon DEF Inv
<1> QED BY <1>1, ObjectInvariant, PTL

(***************************************************************************)
(* refcount is the number of ipm_memory objects that have the block open,  *)
(* for any number of processes that create, open, close, clean, fork, fail *)
(* and die in any order, coordinated or not.                               *)
(***************************************************************************)
THEOREM ObjectRefcountExact == Spec => []RefcountExact
<1>1. Inv => RefcountExact
  BY Zenon DEF Inv
<1> QED BY <1>1, ObjectInvariant, PTL

(***************************************************************************)
(* Two ipm_memory objects on the same real memory have different access    *)
(* ids, for any number of processes and calls.                             *)
(***************************************************************************)
THEOREM ObjectAccessIdsUnique == Spec => []AccessIdsUnique
<1>1. Inv => AccessIdsUnique
  BY Basics, Zenon DEF Inv, IdsDiffer, AccessIdsUnique
<1> QED BY <1>1, ObjectInvariant, PTL
-----------------------------------------------------------------------------
(* Names that somebody will remove *)

\* p has the named block o, makes it, or is about to unlink it; or p died.
Keeps(p, k, o) ==
    \/ p \notin forked /\ memory[p][k].object = o
    \/ pc[p] \in Creating \ {"create_open"} /\ call[p].kind = k /\ call[p].object = o
    \/ pc[p] \in {"close_destroy", "close_unlink"} /\ call[p].kind = k
    \/ pc[p] \in {"dead", "fault"}

LinkKept ==
    \A k \in Kinds : linked[k] # None =>
        linked[k] \in leaked[k] \/ \E p \in Procs : Keeps(p, k, linked[k])

(***************************************************************************)
(* shm_open with O_CREAT | O_EXCL links a free name; close, and a create   *)
(* that a system call fails, unlink it.  Nothing else changes a name.      *)
(***************************************************************************)
LEMMA LinkedStep ==
    ASSUME TypeOK, NEW p \in Procs, Act(p), NEW k \in Kinds
    PROVE  \/ linked'[k] = linked[k]
           \/ /\ linked'[k] = None /\ call[p].kind = k
              /\ \/ pc[p] = "close_unlink"
                 \/ MayFail /\ pc[p] \in Creating \ {"create_open"}
           \/ /\ linked[k] = None /\ linked'[k] = call[p].object /\ call[p].kind = k
              /\ pc[p] = "create_open" /\ pc'[p] = "create_size" /\ call' = call
<1>0. /\ linked \in [Kinds -> Objects \cup {None}] /\ pc \in [Procs -> PC]
      /\ call[p].kind \in Kinds
  BY Zenon DEF TypeOK, Call
<1>1. ASSUME Unlink(p) PROVE linked'[k] = linked[k] \/ (linked'[k] = None /\ call[p].kind = k)
  BY <1>0, <1>1, Zenon DEF Unlink
<1>2. CASE Create(p) \/ Open(p) \/ Close(p) \/ Clean(p) \/ Crash(p)
  BY <1>2, Zenon DEF Create, Open, Close, Clean, Crash
<1>3. CASE CreateOpen(p)
  <2>1. CASE UNCHANGED linked
    BY <2>1, Zenon
  <2>2. CASE /\ linked[call[p].kind] = None
             /\ linked' = [linked EXCEPT ![call[p].kind] = call[p].object]
             /\ Goto(p, "create_size") /\ UNCHANGED call
    BY <1>0, <1>3, <2>2, Zenon DEF CreateOpen, Goto
  <2> QED BY <1>3, <2>1, <2>2, Zenon DEF CreateOpen
<1>4. CASE CreateSize(p) \/ CreateFields(p) \/ CreateMutex(p)
  <2>1. pc[p] \in Creating \ {"create_open"}
    BY <1>4, Zenon DEF CreateSize, CreateFields, CreateMutex, Creating
  <2>2. linked' = linked \/ CreateAborts(p)
    BY <1>4, Zenon DEF CreateSize, CreateFields, CreateMutex
  <2> QED BY <1>1, <2>1, <2>2, Zenon DEF CreateAborts
<1>5. CASE CreatePublish(p) \/ ListInit(p) \/ ListUninit(p)
  BY <1>5, Zenon DEF CreatePublish, ListInit, ListUninit
<1>6. CASE OpenOpen(p) \/ OpenSize(p) \/ OpenWait(p) \/ OpenRef(p) \/ OpenId(p)
  BY <1>6, Zenon DEF OpenOpen, OpenSize, OpenWait, OpenRef, OpenId
<1>7. CASE CloseSub(p) \/ CloseDestroy(p)
  BY <1>7, Zenon DEF CloseSub, CloseDestroy
<1>8. CASE CloseUnlink(p)
  BY <1>1, <1>8, Zenon DEF CloseUnlink
<1> QED BY <1>2, <1>3, <1>4, <1>5, <1>6, <1>7, <1>8, ZenonT(30) DEF Act, Step

(***************************************************************************)
(* A reference that goes away without being the last leaves another one.   *)
(***************************************************************************)
LEMMA OtherUser ==
    ASSUME Inv, NEW p \in Procs, NEW k \in Kinds, NEW o \in Objects, header[k][o].refcount # 1
    PROVE  p \in Users(k, o) => \E q \in Procs \ {p} : q \in Users(k, o)
<1> SUFFICES ASSUME p \in Users(k, o), \A q \in Procs \ {p} : q \notin Users(k, o) PROVE FALSE
  BY Zenon
<1>1. Users(k, o) = {p}
  BY Zenon DEF Users
<1>2. header[k][o].refcount = Cardinality(Users(k, o))
  BY Zenon DEF Inv, RefcountExact, Users
<1>3. Cardinality({p}) = 1
  BY FS_Singleton, Zenon
<1> QED BY <1>1, <1>2, <1>3, Zenon

(***************************************************************************)
(* A name that is still there after shm_unlink is one that it failed on.   *)
(***************************************************************************)
LEMMA UnlinkFailed ==
    ASSUME TypeOK, NEW p \in Procs, NEW k \in Kinds, call[p].kind = k, Unlink(p),
           NEW o \in Objects, linked'[k] = o
    PROVE  o \in leaked'[k]
<1>0. linked \in [Kinds -> Objects \cup {None}] /\ leaked \in [Kinds -> SUBSET Objects] /\ o # None
  BY Basics, Zenon DEF TypeOK
<1>1. CASE linked' = [linked EXCEPT ![k] = None]
  BY <1>0, <1>1, Zenon
<1>2. CASE /\ leaked' = [leaked EXCEPT ![k] = leaked[k] \cup ({linked[k]} \ {None})]
           /\ linked' = linked
  BY <1>0, <1>2, Zenon
<1> QED BY <1>1, <1>2, Zenon DEF Unlink

(***************************************************************************)
(* Whoever will remove a name does so, or somebody else will, unless       *)
(* shm_unlink fails.                                                       *)
(***************************************************************************)
LEMMA KeepsStep ==
    ASSUME Inv, NEW p \in Procs, Act(p), NEW k \in Kinds, NEW o \in Objects, Keeps(p, k, o),
           linked'[k] = o, o \notin leaked'[k]
    PROVE  \E q \in Procs : Keeps(q, k, o)'
<1>0. /\ TypeOK /\ Control(p) /\ RefcountExact /\ o # None /\ pc \in [Procs -> PC]
      /\ linked \in [Kinds -> Objects \cup {None}] /\ call \in [Procs -> Call]
      /\ call[p].kind \in Kinds
  BY Basics, Zenon DEF Inv, TypeOK, Call
<1>1. ASSUME p \notin forked', memory'[p][k].object = o PROVE Keeps(p, k, o)'
  BY <1>1, Zenon DEF Keeps
<1>2. ASSUME pc'[p] \in {"dead", "fault"} PROVE Keeps(p, k, o)'
  BY <1>2, Zenon DEF Keeps
<1>3. CASE pc[p] \in {"dead", "fault"}
  BY <1>3, Zenon DEF Act, Step, Create, Open, Close, Holder, Clean, Crash, CreateOpen,
                     CreateSize, CreateFields, CreateMutex, CreatePublish, ListInit,
                     ListUninit, OpenOpen, OpenSize, OpenWait, OpenRef, OpenId, CloseSub,
                     CloseDestroy, CloseUnlink
<1>4. CASE p \notin forked /\ memory[p][k].object = o
  <2>1. CASE Quiet \/ MutexMade(p)
    BY <1>1, <1>4, <2>1, Zenon DEF Quiet, MutexMade
  <2>2. CASE Clean(p)
    BY <1>4, <2>2, ZenonT(30) DEF Clean
  <2>3. CASE CreatePublish(p)
    <3>1. k # call[p].kind /\ forked' = forked
      BY <1>0, <1>4, <2>3, PublishEffect, Basics
    <3>2. memory'[p][k] = memory[p][k]
      BY <1>0, <2>3, <3>1, PublishEffect, ZenonT(30)
    <3> QED BY <1>1, <1>4, <3>1, <3>2, ZenonT(30)
  <2>4. CASE OpenRef(p)
    <3>1. k # call[p].kind /\ forked' = forked
      BY <1>0, <1>4, <2>4, OpenRefEffect, Basics, ZenonT(30)
    <3>2. memory'[p][k] = memory[p][k]
      BY <1>0, <2>4, <3>1, OpenRefEffect, Zenon
    <3> QED BY <1>1, <1>4, <3>1, <3>2, ZenonT(30)
  <2>5. CASE OpenId(p)
    <3>1. memory'[p][k].object = memory[p][k].object /\ forked' = forked
      BY <1>0, <2>5, OpenIdEffect
    <3> QED BY <1>1, <1>4, <3>1, ZenonT(30)
  <2>6. CASE CloseSub(p) /\ k # call[p].kind
    <3>1. memory'[p][k] = memory[p][k] /\ forked' = forked
      BY <1>0, <2>6, CloseSubEffect, Zenon
    <3> QED BY <1>1, <1>4, <3>1, Zenon
  <2>7. CASE CloseSub(p) /\ k = call[p].kind
    <3>1. o = call[p].object /\ Hdr(p) = header[k][o]
      BY <1>0, <1>4, <2>7, CloseSubEffect, Zenon DEF Hdr
    <3>2. CASE header[k][o].refcount = 1
      <4>1. pc'[p] = "close_destroy" /\ call' = call
        BY <1>0, <2>7, <3>1, <3>2, Zenon DEF CloseSub, Goto
      <4> QED BY <2>7, <4>1, Zenon DEF Keeps
    <3>3. CASE header[k][o].refcount # 1
      <4>1. PICK q \in Procs \ {p} : q \in Users(k, o)
        BY <1>4, <3>3, OtherUser DEF Users
      <4>2. q \notin forked' /\ memory'[q] = memory[q]
        BY <1>0, <4>1, OthersKept, Zenon DEF Users
      <4>3. Keeps(q, k, o)'
        BY <4>1, <4>2, Zenon DEF Keeps, Users
      <4> QED BY <4>1, <4>3, Zenon
    <3> QED BY <3>2, <3>3, Zenon
  <2> QED BY <1>0, <2>1, <2>2, <2>3, <2>4, <2>5, <2>6, <2>7, QuietStep, ZenonT(30)
<1>5. CASE /\ pc[p] \in Creating \ {"create_open"} /\ call[p].kind = k /\ call[p].object = o
  <2>1. ASSUME CreateAborts(p) PROVE FALSE
    BY <1>0, <1>5, <2>1, UnlinkFailed, Zenon DEF CreateAborts
  <2>2. ASSUME pc'[p] \in Creating \ {"create_open"}, call'[p].kind = k, call'[p].object = o
        PROVE  Keeps(p, k, o)'
    BY <2>2, Zenon DEF Keeps
  <2>3. \/ CreateSize(p) \/ CreateFields(p) \/ CreateMutex(p) \/ CreatePublish(p) \/ Crash(p)
    BY <1>5, Zenon DEF Act, Step, Create, Open, Close, Holder, Clean, Crash, CreateOpen, ListInit,
       ListUninit, OpenOpen, OpenSize, OpenWait, OpenRef, OpenId, CloseSub, CloseDestroy,
       CloseUnlink, Creating
  <2>4. CASE Crash(p)
    BY <1>0, <1>2, <2>4, Zenon DEF Crash, Die, Goto
  <2>5. CASE CreateSize(p)
    BY <1>0, <1>5, <2>1, <2>2, <2>5, Zenon DEF CreateSize, Goto, Creating
  <2>6. CASE CreateFields(p)
    BY <1>0, <1>2, <1>5, <2>1, <2>2, <2>6, Zenon DEF CreateFields, Die, Goto, Creating
  <2>7. CASE CreateMutex(p)
    <3>1. pc'[p] = "create_publish" /\ call' = [call EXCEPT ![p].access_id = 1]
      BY <1>0, <2>1, <2>7, Zenon DEF CreateMutex, Goto
    <3>2. call'[p].kind = k /\ call'[p].object = o
      BY <1>0, <1>5, <3>1, Zenon DEF Call
    <3> QED BY <2>2, <3>1, <3>2, Zenon DEF Creating
  <2>8. CASE CreatePublish(p)
    BY <1>0, <1>1, <1>5, <2>8, PublishEffect, Zenon
  <2> QED BY <2>3, <2>4, <2>5, <2>6, <2>7, <2>8, Zenon
<1>6. CASE pc[p] \in {"close_destroy", "close_unlink"} /\ call[p].kind = k
  <2>1. CloseDestroy(p) \/ CloseUnlink(p) \/ Crash(p)
    BY <1>6, ZenonT(30) DEF Act, Step, Create, Open, Close, Holder, Clean, Crash, CreateOpen,
                       CreateSize, CreateFields, CreateMutex, CreatePublish, ListInit,
                       ListUninit, OpenOpen, OpenSize, OpenWait, OpenRef, OpenId,
                       CloseSub
  <2>2. CASE Crash(p)
    BY <1>0, <1>2, <2>2, Zenon DEF Crash, Die, Goto
  <2>3. CASE CloseDestroy(p)
    BY <1>0, <1>6, <2>3, Zenon DEF CloseDestroy, Goto, Keeps
  <2>4. CASE CloseUnlink(p)
    BY <1>0, <1>6, <2>4, UnlinkFailed, Zenon DEF CloseUnlink
  <2> QED BY <2>1, <2>2, <2>3, <2>4, Zenon
<1> QED BY <1>3, <1>4, <1>5, <1>6, Zenon DEF Keeps

(***************************************************************************)
(* In every state somebody will remove each name that is linked, but for   *)
(* those that shm_unlink failed on.                                        *)
(***************************************************************************)
LEMMA LinkKeptStep == Inv /\ LinkKept /\ [Next]_vars => LinkKept'
<1> SUFFICES ASSUME Inv, LinkKept, [Next]_vars, NEW k \in Kinds, NEW o, o = linked'[k],
                    o # None, o \notin leaked'[k]
             PROVE  \E q \in Procs : Keeps(q, k, o)'
  BY Zenon DEF LinkKept, Keeps
<1>0. TypeOK /\ linked[k] \in Objects \cup {None} /\ \A p \in Procs : Control(p)
  BY Zenon DEF Inv, TypeOK
<1>1. ASSUME NEW p \in Procs, Act(p) PROVE \E q \in Procs : Keeps(q, k, o)'
  <2>1. CASE linked'[k] = linked[k]
    <3>1. linked[k] = o /\ o \in Objects
      BY <1>0, <2>1, Zenon
    <3>2. PICK q \in Procs : Keeps(q, k, o)
      BY <1>0, <1>1, <3>1, LeakedGrows, Zenon DEF LinkKept
    <3>3. CASE q = p
      BY <1>1, <2>1, <3>1, <3>2, <3>3, KeepsStep, ZenonT(30)
    <3>4. CASE q # p
      BY <1>0, <1>1, <2>1, <3>2, <3>4, OthersKept, Zenon DEF Keeps
    <3> QED BY <3>3, <3>4, Zenon
  <2>2. CASE /\ linked'[k] = call[p].object /\ call[p].kind = k
             /\ pc'[p] = "create_size" /\ call' = call
    BY <2>2, Zenon DEF Keeps, Creating
  <2> QED BY <1>0, <1>1, <2>1, <2>2, LinkedStep, Zenon
<1>2. ASSUME NEW p \in Procs, NEW c \in Procs, Fork(p, c)
      PROVE  \E q \in Procs : Keeps(q, k, o)'
  <2>1. /\ linked' = linked /\ leaked' = leaked /\ pc' = pc /\ call' = call /\ forked' = forked \cup {c}
        /\ \A r \in Procs : r # c => memory'[r] = memory[r]
        /\ pc[c] = "idle" /\ memory[c] = NoMemory
    BY <1>0, <1>2, Zenon DEF Fork, TypeOK
  <2>2. PICK q \in Procs : Keeps(q, k, o)
    BY <2>1, Zenon DEF LinkKept
  <2>3. q # c
    BY <2>1, <2>2, Basics, ZenonT(30) DEF Keeps, NoMemory, Creating
  <2> QED BY <2>1, <2>2, <2>3, Zenon DEF Keeps
<1>3. CASE UNCHANGED vars
  BY <1>3, Zenon DEF vars, LinkKept, Keeps
<1> QED BY <1>1, <1>2, <1>3, Zenon DEF Next, Act

(***************************************************************************)
(* When no process was killed or faulted and all have closed, a name is    *)
(* only left if shm_unlink failed on it: for any number of processes and   *)
(* calls, whichever system calls fail, with every error path of create and *)
(* open and with copies made by fork.                                      *)
(***************************************************************************)
THEOREM ObjectNothingLeft == Spec => []NothingLeft
<1>1. Init => LinkKept
  BY Zenon DEF Init, LinkKept
<1>2. Inv /\ LinkKept => NothingLeft
  <2> SUFFICES ASSUME Inv, LinkKept, NEW k \in Kinds, linked[k] # None, linked[k] \notin leaked[k],
                      \A p \in Procs : pc[p] = "idle" /\ (p \in forked \/ memory[p] = NoMemory)
               PROVE  FALSE
    BY Zenon DEF NothingLeft
  <2>1. PICK p \in Procs : Keeps(p, k, linked[k])
    BY Zenon DEF LinkKept
  <2> QED BY <2>1, Basics, Zenon DEF Keeps, NoMemory, Creating
<1> QED BY <1>1, <1>2, LinkKeptStep, ObjectInvariant, PTL DEF Spec
-----------------------------------------------------------------------------
(* The list of claims is made before the real memory *)

\* p's create call is making the real memory of object o.
MakesReal(p, o) == call[p].op = "create" /\ call[p].kind = "real" /\ call[p].object = o

ListFirst ==
    \A o \in Objects : header["claims"][o].list = "none" =>
        Unused("real", o) /\ \A p \in Procs : ~ MakesReal(p, o)

(***************************************************************************)
(* The stores to the other fields of a header leave the list's state.      *)
(***************************************************************************)
LEMMA FieldsList ==
    ASSUME NEW hdr \in Header, NEW n \in Nat
    PROVE  /\ [hdr EXCEPT !.sized = TRUE].list = hdr.list
           /\ [hdr EXCEPT !.block_size = TRUE].list = hdr.list
           /\ [hdr EXCEPT !.mutex = "ready", !.id_counter = 2].list = hdr.list
           /\ [hdr EXCEPT !.refcount = n].list = hdr.list
           /\ [hdr EXCEPT !.id_counter = n].list = hdr.list
           /\ \A l \in ListLife :
                 /\ [hdr EXCEPT !.list = l].list = l
                 /\ [hdr EXCEPT !.mutex = "destroyed", !.list = l].list = l
BY Zenon DEF Header

(***************************************************************************)
(* A store to a header that makes the list or leaves it as it is.          *)
(***************************************************************************)
LEMMA ListStore ==
    ASSUME TypeOK, NEW p \in Procs, call[p].object # None, NEW hdr \in Header, SetHdr(p, hdr),
           NEW o \in Objects, header'["claims"][o].list = "none",
           hdr.list = Hdr(p).list \/ hdr.list # "none"
    PROVE  /\ header["claims"][o].list = "none"
           /\ hdr.list # "none" => ~ Mine(p, "claims", o)
<1>1. /\ header'[call[p].kind][call[p].object] = hdr
      /\ ~ Mine(p, "claims", o) => header'["claims"][o] = header["claims"][o]
  <2>1. "claims" \in Kinds
    BY Basics, Zenon
  <2>2. /\ header'[call[p].kind][call[p].object] = hdr
        /\ \A k \in Kinds, n \in Objects :
              k # call[p].kind \/ n # call[p].object => header'[k][n] = header[k][n]
    BY SetHdrFrame, Zenon
  <2> QED BY <2>1, <2>2, Zenon DEF Mine
<1>2. CASE Mine(p, "claims", o)
  BY <1>1, <1>2, Zenon DEF Mine, Hdr
<1>3. CASE ~ Mine(p, "claims", o)
  BY <1>1, <1>3, Zenon
<1> QED BY <1>2, <1>3, Zenon

(***************************************************************************)
(* Once claim_list_init was done for an object, it stays done.             *)
(***************************************************************************)
LEMMA ListStep ==
    ASSUME TypeOK, RefcountExact, NEW p \in Procs, Control(p), Act(p), NEW o \in Objects,
           header'["claims"][o].list = "none"
    PROVE  header["claims"][o].list = "none"
<1>1. ASSUME header' = header PROVE header["claims"][o].list = "none"
  BY <1>1, Zenon
<1>2. CASE Create(p) \/ Open(p) \/ Close(p) \/ Clean(p) \/ Crash(p)
  BY <1>1, <1>2, Zenon DEF Create, Open, Close, Clean, Crash
<1>3. CASE CreateOpen(p) \/ OpenOpen(p) \/ OpenSize(p) \/ OpenWait(p) \/ CloseUnlink(p)
  BY <1>1, <1>3, Zenon DEF CreateOpen, OpenOpen, OpenSize, OpenWait, CloseUnlink
<1>4. ASSUME pc[p] \in Creating \cup {"list_init", "list_uninit"}
      PROVE  call[p].object # None /\ call[p].object \in Objects /\ Hdr(p) \in Header
  <2>1. call[p].object \in 1 .. calls /\ calls \in Nat
    BY <1>4, UseAssumption, SMTT(30) DEF Control, CreateControl, TypeOK
  <2>2. call[p].object # None
    BY <2>1, Basics
  <2>3. call[p].object \in Objects
    BY <2>2, Zenon DEF TypeOK, Call
  <2> QED BY <2>2, <2>3, HdrType, Zenon
<1>5. CASE CreateSize(p) \/ CreateFields(p) \/ CreateMutex(p)
  <2>1. call[p].object # None /\ Hdr(p) \in Header
    BY <1>4, <1>5, Zenon DEF CreateSize, CreateFields, CreateMutex, Creating
  <2>2. \/ header' = header
        \/ SetHdr(p, [Hdr(p) EXCEPT !.sized = TRUE])
        \/ SetHdr(p, [Hdr(p) EXCEPT !.block_size = TRUE])
        \/ SetHdr(p, [Hdr(p) EXCEPT !.mutex = "ready", !.id_counter = 2])
    BY <1>5, Zenon DEF CreateSize, CreateFields, CreateMutex, CreateAborts
  <2>3. 0 \in Nat
    BY Zenon
  <2>4. CASE SetHdr(p, [Hdr(p) EXCEPT !.sized = TRUE])
    <3> DEFINE hdr == [Hdr(p) EXCEPT !.sized = TRUE]
    <3>1. hdr \in Header /\ hdr.list = Hdr(p).list /\ SetHdr(p, hdr)
      BY <2>1, <2>3, <2>4, Fields, FieldsList, Zenon
    <3> HIDE DEF hdr
    <3> QED BY <2>1, <3>1, ListStore, Zenon
  <2>5. CASE SetHdr(p, [Hdr(p) EXCEPT !.block_size = TRUE])
    <3> DEFINE hdr == [Hdr(p) EXCEPT !.block_size = TRUE]
    <3>1. hdr \in Header /\ hdr.list = Hdr(p).list /\ SetHdr(p, hdr)
      BY <2>1, <2>3, <2>5, Fields, FieldsList, Zenon
    <3> HIDE DEF hdr
    <3> QED BY <2>1, <3>1, ListStore, Zenon
  <2>6. CASE SetHdr(p, [Hdr(p) EXCEPT !.mutex = "ready", !.id_counter = 2])
    <3> DEFINE hdr == [Hdr(p) EXCEPT !.mutex = "ready", !.id_counter = 2]
    <3>1. hdr \in Header /\ hdr.list = Hdr(p).list /\ SetHdr(p, hdr)
      BY <2>1, <2>3, <2>6, Fields, FieldsList, Zenon
    <3> HIDE DEF hdr
    <3> QED BY <2>1, <3>1, ListStore, Zenon
  <2> QED BY <1>1, <2>2, <2>4, <2>5, <2>6, Zenon
<1>6. ASSUME call[p].object # None, NEW n \in Nat,
             SetHdr(p, [Hdr(p) EXCEPT !.refcount = n]) \/ SetHdr(p, [Hdr(p) EXCEPT !.id_counter = n])
      PROVE  header["claims"][o].list = "none"
  <2>1. Hdr(p) \in Header
    BY <1>6, HdrType, Zenon
  <2>2. CASE SetHdr(p, [Hdr(p) EXCEPT !.refcount = n])
    <3> DEFINE hdr == [Hdr(p) EXCEPT !.refcount = n]
    <3>1. hdr \in Header /\ hdr.list = Hdr(p).list /\ SetHdr(p, hdr)
      BY <2>1, <2>2, Counters, FieldsList, Zenon
    <3> HIDE DEF hdr
    <3> QED BY <1>6, <3>1, ListStore, Zenon
  <2>3. CASE SetHdr(p, [Hdr(p) EXCEPT !.id_counter = n])
    <3> DEFINE hdr == [Hdr(p) EXCEPT !.id_counter = n]
    <3>1. hdr \in Header /\ hdr.list = Hdr(p).list /\ SetHdr(p, hdr)
      BY <2>1, <2>3, Counters, FieldsList, Zenon
    <3> HIDE DEF hdr
    <3> QED BY <1>6, <3>1, ListStore, Zenon
  <2> QED BY <1>6, <2>2, <2>3, Zenon
<1>7. CASE CreatePublish(p)
  <2>1. call[p].object # None /\ 1 \in Nat
    BY <1>4, <1>7, Zenon DEF CreatePublish, Creating
  <2>2. SetHdr(p, [Hdr(p) EXCEPT !.refcount = 1])
    BY <1>7, Zenon DEF CreatePublish
  <2> QED BY <1>6, <2>1, <2>2, Zenon
<1>8. CASE OpenRef(p) \/ OpenId(p)
  <2>1. call[p].object # None
    BY <1>8, Zenon DEF OpenRef, OpenId, Control, OpenControl, Opens
  <2>2. Hdr(p).refcount + 1 \in Nat /\ Hdr(p).id_counter + 1 \in Nat
    BY <2>1, HdrType
  <2>3. \/ SetHdr(p, [Hdr(p) EXCEPT !.refcount = Hdr(p).refcount + 1])
        \/ SetHdr(p, [Hdr(p) EXCEPT !.id_counter = Hdr(p).id_counter + 1])
    BY <1>8, Zenon DEF OpenRef, OpenId
  <2> QED BY <1>6, <2>1, <2>2, <2>3, Zenon
<1>9. CASE CloseSub(p)
  <2>1. /\ call[p].object # None /\ memory[p][call[p].kind].object = call[p].object
        /\ p \notin forked
    BY <1>9, Zenon DEF CloseSub, Control, CloseControl, IdleControl
  <2>2. call[p].kind \in Kinds /\ call[p].object \in Objects
    BY <2>1, Zenon DEF TypeOK, Call
  <2>3. Hdr(p).refcount \in Nat \ {0}
    BY <2>1, <2>2, UserCounts, Zenon DEF Hdr
  <2>4. Hdr(p).refcount - 1 \in Nat
    BY <2>3
  <2>5. SetHdr(p, [Hdr(p) EXCEPT !.refcount = Hdr(p).refcount - 1])
    BY <1>9, Zenon DEF CloseSub
  <2> QED BY <1>6, <2>1, <2>4, <2>5, Zenon
<1>10. CASE ListInit(p)
  <2>1. call[p].object # None /\ Hdr(p) \in Header /\ 0 \in Nat
    BY <1>4, <1>10, Zenon DEF ListInit
  <2>2. CASE ListStored(p)
    <3>1. PICK l \in {"ready", "no_condition"} : SetHdr(p, [Hdr(p) EXCEPT !.list = l])
      BY <2>2, Zenon DEF ListStored
    <3>2. l \in ListLife /\ l # "none"
      BY Zenon DEF ListLife, Life
    <3>3. [Hdr(p) EXCEPT !.list = l] \in Header /\ [Hdr(p) EXCEPT !.list = l].list = l
      BY <2>1, <3>2, Fields, FieldsList, Zenon
    <3> QED BY <2>1, <3>1, <3>2, <3>3, ListStore, Zenon
  <2> QED BY <1>1, <1>10, <2>2, Zenon DEF ListInit, ListStored
<1>11. CASE ListUninit(p)
  <2> DEFINE n == call[p].object
  <2>1. n \in Objects /\ header' = [header EXCEPT !["claims"][n].list = "destroyed"]
    BY <1>4, <1>11, Zenon DEF ListUninit
  <2> HIDE DEF n
  <2>2. header \in [Kinds -> [Objects -> Header]] /\ "claims" \in Kinds
    BY Basics, Zenon DEF TypeOK
  <2>3. /\ header'["claims"][n] = [header["claims"][n] EXCEPT !.list = "destroyed"]
        /\ o # n => header'["claims"][o] = header["claims"][o]
    BY <2>1, <2>2, Zenon
  <2>4. header["claims"][n] \in Header /\ "destroyed" \in ListLife /\ 0 \in Nat
    BY <2>1, <2>2, Zenon DEF ListLife, Life
  <2>5. [header["claims"][n] EXCEPT !.list = "destroyed"].list = "destroyed"
    BY <2>4, FieldsList, Zenon
  <2> QED BY <2>3, <2>5, Zenon
<1>12. CASE CloseDestroy(p)
  <2> DEFINE l == IF call[p].op = "close" /\ call[p].kind = "claims"
                  THEN "destroyed" ELSE Hdr(p).list
             hdr == [Hdr(p) EXCEPT !.mutex = "destroyed", !.list = l]
  <2>1. call[p].object # None /\ SetHdr(p, hdr) /\ 0 \in Nat
    BY <1>12, Zenon DEF CloseDestroy, Control, CloseControl
  <2>2. l \in ListLife /\ Hdr(p) \in Header /\ (l = Hdr(p).list \/ l # "none")
    BY <2>1, HdrType, Zenon DEF ListLife, Life
  <2> HIDE DEF l
  <2>3. hdr \in Header /\ hdr.list = l
    BY <2>1, <2>2, Fields, FieldsList, Zenon
  <2> HIDE DEF hdr
  <2> QED BY <2>1, <2>2, <2>3, ListStore, Zenon
<1> QED BY <1>2, <1>3, <1>5, <1>7, <1>8, <1>9, <1>10, <1>11, <1>12, ZenonT(30) DEF Act, Step

(***************************************************************************)
(* create comes to the real memory only through claim_list_init.           *)
(***************************************************************************)
LEMMA RealStep ==
    ASSUME TypeOK, NEW p \in Procs, Control(p), Act(p), NEW o \in Objects, MakesReal(p, o)'
    PROVE  MakesReal(p, o) \/ (ListStored(p) /\ Mine(p, "claims", o))
<1>0. pc \in [Procs -> PC] /\ call \in [Procs -> Call] /\ call'[p].op = "create"
      /\ call'[p].kind = "real" /\ call'[p].object = o
  BY Zenon DEF TypeOK, MakesReal
<1>1. ASSUME call'[p] = call[p] PROVE MakesReal(p, o)
  BY <1>0, <1>1, Zenon DEF MakesReal
<1>2. ASSUME call'[p] = NoCall PROVE FALSE
  BY <1>0, <1>2, Basics, Zenon
<1>3. ASSUME NEW op, NEW k, NEW n, call'[p] = Locals(op, k, n) PROVE op = "create" /\ k = "real"
  <2>1. Locals(op, k, n).op = op /\ Locals(op, k, n).kind = k
    BY Zenon DEF Locals
  <2> QED BY <1>0, <1>3, <2>1, Zenon
<1>4. CASE Create(p)
  <2>1. call'[p] = Locals("create", "claims", calls + 1)
    BY <1>0, <1>4, Zenon DEF Create
  <2>2. "claims" = "real"
    BY <1>3, <2>1, Zenon
  <2> QED BY <2>2, Zenon
<1>5. CASE Open(p)
  <2>1. call'[p] = Locals("open", "real", None)
    BY <1>0, <1>5, Zenon DEF Open
  <2>2. "open" = "create"
    BY <1>3, <2>1, Zenon
  <2> QED BY <2>2, Zenon
<1>6. ASSUME NEW op \in {"close", "undo"}, NEW k \in Kinds, CloseBlock(p, op, k) PROVE FALSE
  <2>1. call'[p] = Locals(op, k, memory[p][k].object)
    BY <1>6, CloseBlockStep, Zenon
  <2> QED BY <1>3, <2>1, Zenon
<1>7. CASE Close(p)
  BY <1>6, <1>7, Basics, Zenon DEF Close
<1>8. CASE Clean(p) \/ OpenWait(p) \/ OpenRef(p) \/ CloseDestroy(p)
  BY <1>1, <1>8, Zenon DEF Clean, OpenWait, OpenRef, CloseDestroy
<1>9. CASE Crash(p)
  BY <1>0, <1>2, <1>9, Zenon DEF Crash, Die
<1>10. ASSUME CreateFails(p) PROVE MakesReal(p, o)
  BY <1>1, <1>2, <1>10, CreateFailsStep, Zenon
<1>11. CASE CreateOpen(p) \/ CreateSize(p)
  BY <1>1, <1>10, <1>11, Zenon DEF CreateOpen, CreateSize, CreateAborts
<1>12. CASE CreateFields(p)
  BY <1>0, <1>1, <1>2, <1>10, <1>12, Zenon DEF CreateFields, CreateAborts, Die
<1>13. CASE CreateMutex(p)
  <2>1. CASE call' = [call EXCEPT ![p].access_id = 1]
    <3>1. /\ call'[p].op = call[p].op /\ call'[p].kind = call[p].kind
          /\ call'[p].object = call[p].object
      BY <1>0, <2>1, Zenon DEF Call
    <3> QED BY <1>0, <3>1, Zenon DEF MakesReal
  <2> QED BY <1>10, <1>13, <2>1, Zenon DEF CreateMutex, CreateAborts
<1>14. CASE CreatePublish(p)
  BY <1>1, <1>2, <1>14, ReturnStep, Zenon DEF CreatePublish
<1>15. CASE ListInit(p)
  <2>1. CASE ListStored(p) /\ call' = [call EXCEPT ![p].kind = "real"]
    <3>1. call'[p].object = call[p].object
      BY <1>0, <2>1, Zenon DEF Call
    <3>2. call[p].kind = "claims"
      BY <1>15, Zenon DEF ListInit, Control, CreateControl
    <3> QED BY <1>0, <2>1, <3>1, <3>2, Zenon DEF Mine
  <2>2. CASE CloseBlock(p, "undo", "claims")
    BY <1>6, <2>2, Basics, Zenon
  <2> QED BY <1>15, <2>1, <2>2, Zenon DEF ListInit, ListStored
<1>16. CASE ListUninit(p)
  BY <1>6, <1>16, Basics, Zenon DEF ListUninit
<1>17. ASSUME OpenFails(p) PROVE FALSE
  BY <1>2, <1>3, <1>17, OpenFailsStep, Zenon
<1>18. CASE OpenOpen(p)
  <2>1. CASE call' = [call EXCEPT ![p].object = linked[call[p].kind]]
    <3>1. call'[p].op = call[p].op
      BY <1>0, <2>1, Zenon DEF Call
    <3>2. call[p].op = "open"
      BY <1>18, Zenon DEF OpenOpen, Control, OpenControl, Opens
    <3> QED BY <1>0, <3>1, <3>2, Zenon
  <2> QED BY <1>17, <1>18, <2>1, Zenon DEF OpenOpen
<1>19. CASE OpenSize(p)
  BY <1>0, <1>1, <1>2, <1>17, <1>19, Zenon DEF OpenSize, Die
<1>20. CASE OpenId(p)
  <2>1. call'[p] = Locals("open", "claims", None) \/ call'[p] = NoCall
    BY <1>0, <1>20, ReturnStep, Zenon DEF OpenId
  <2> QED BY <1>2, <1>3, <2>1, Zenon
<1>21. ASSUME CloseNext(p) PROVE FALSE
  BY <1>2, <1>3, <1>21, CloseNextStep, Zenon
<1>22. CASE CloseSub(p) \/ CloseUnlink(p)
  BY <1>1, <1>21, <1>22, Zenon DEF CloseSub, CloseUnlink
<1> QED BY <1>4, <1>5, <1>7, <1>8, <1>9, <1>11, <1>12, <1>13, <1>14, <1>15, <1>16, <1>18, <1>19,
           <1>20, <1>22, ZenonT(30) DEF Act, Step

(***************************************************************************)
(* Until its list is made, nobody has or makes the real memory of a create *)
(* call.                                                                   *)
(***************************************************************************)
LEMMA ListFirstStep == Inv /\ ListFirst /\ [Next]_vars => ListFirst'
<1> SUFFICES ASSUME Inv, ListFirst, [Next]_vars, NEW o \in Objects,
                    header'["claims"][o].list = "none"
             PROVE  Unused("real", o)' /\ \A q \in Procs : ~ MakesReal(q, o)'
  BY Zenon DEF ListFirst
<1>0. /\ TypeOK /\ RefcountExact /\ "real" \in Kinds /\ o # None
      /\ \A q \in Procs : Control(q)
  BY Basics, Zenon DEF Inv
<1>1. ASSUME header["claims"][o].list = "none"
      PROVE  Unused("real", o) /\ \A q \in Procs : ~ MakesReal(q, o)
  BY <1>1, Zenon DEF ListFirst
<1>2. ASSUME NEW p \in Procs, Act(p)
      PROVE  Unused("real", o)' /\ \A q \in Procs : ~ MakesReal(q, o)'
  <2>1. Unused("real", o) /\ \A q \in Procs : ~ MakesReal(q, o)
    BY <1>0, <1>1, <1>2, ListStep, Zenon
  <2>2. CreatePublish(p) => ~ Mine(p, "real", o)
    BY <1>0, <2>1, Zenon DEF CreatePublish, Creating, Control, CreateControl, MakesReal, Mine
  <2>3. Unused("real", o)'
    BY <1>0, <1>2, <2>1, <2>2, UnusedKept, Zenon
  <2>4. ASSUME NEW q \in Procs, MakesReal(q, o)' PROVE FALSE
    <3>1. CASE q # p
      BY <1>0, <1>2, <2>1, <2>4, <3>1, OthersKept, Zenon DEF MakesReal
    <3>2. CASE q = p
      <4>1. ListStored(p) /\ Mine(p, "claims", o)
        BY <1>0, <1>2, <2>1, <2>4, <3>2, RealStep, Zenon
      <4>2. call[p].object # None
        BY <1>0, <4>1, Zenon DEF Mine
      <4>3. PICK l \in {"ready", "no_condition"} : SetHdr(p, [Hdr(p) EXCEPT !.list = l])
        BY <4>1, Zenon DEF ListStored
      <4>4. l \in ListLife /\ l # "none" /\ 0 \in Nat
        BY Zenon DEF ListLife, Life
      <4>5. Hdr(p) \in Header
        BY <1>0, <4>2, HdrType, Zenon
      <4> DEFINE hdr == [Hdr(p) EXCEPT !.list = l]
      <4>6. hdr \in Header /\ hdr.list = l /\ SetHdr(p, hdr)
        BY <4>3, <4>4, <4>5, Fields, FieldsList, Zenon
      <4> HIDE DEF hdr
      <4>7. ~ Mine(p, "claims", o)
        BY <1>0, <4>2, <4>4, <4>6, ListStore, Zenon
      <4> QED BY <4>1, <4>7, Zenon
    <3> QED BY <3>1, <3>2, Zenon
  <2> QED BY <2>3, <2>4, Zenon
<1>3. ASSUME NEW p \in Procs, NEW c \in Procs, Fork(p, c)
      PROVE  Unused("real", o)' /\ \A q \in Procs : ~ MakesReal(q, o)'
  <2>1. /\ header' = header /\ pc' = pc /\ call' = call /\ memory'[c] = memory[p]
        /\ \A r \in Procs : r # c => memory'[r] = memory[r]
    BY <1>0, <1>3, Zenon DEF Fork, TypeOK
  <2>2. Unused("real", o) /\ \A q \in Procs : ~ MakesReal(q, o)
    BY <1>1, <2>1, Zenon
  <2>3. \A q \in Procs : memory'[q]["real"].object # o
    BY <2>1, <2>2, Zenon DEF Unused
  <2> QED BY <2>1, <2>2, <2>3, Zenon DEF Unused, MakesReal
<1>4. CASE UNCHANGED vars
  <2>1. header' = header /\ pc' = pc /\ call' = call /\ memory' = memory
    BY <1>4, Zenon DEF vars
  <2>2. Unused("real", o) /\ \A q \in Procs : ~ MakesReal(q, o)
    BY <1>1, <2>1, Zenon
  <2> QED BY <2>1, <2>2, Zenon DEF Unused, MakesReal
<1> QED BY <1>2, <1>3, <1>4, Zenon DEF Next, Act

(***************************************************************************)
(* Whoever has the real memory and the claims block of one create call     *)
(* finds claim_list_init done: for any number of processes, although open  *)
(* can take the claims block before it is.                                 *)
(***************************************************************************)
THEOREM ObjectListBeforeUse == Spec => []ListBeforeUse
<1>1. Init => ListFirst
  <2> SUFFICES ASSUME Init, NEW o \in Objects
               PROVE  Unused("real", o) /\ \A p \in Procs : ~ MakesReal(p, o)
    BY Zenon DEF ListFirst
  <2>1. /\ \A p \in Procs : /\ pc[p] = "idle" /\ call[p] = NoCall
                             /\ memory[p]["real"].object = None
        /\ header["real"][o].refcount = 0 /\ o # None
    BY Basics, Zenon DEF Init, NoMemory
  <2> QED BY <2>1, Basics, Zenon DEF Unused, MakesReal
<1>2. ListFirst => ListBeforeUse
  BY Zenon DEF ListFirst, ListBeforeUse, Unused
<1> QED BY <1>1, <1>2, ListFirstStep, ObjectInvariant, PTL DEF Spec
=============================================================================
