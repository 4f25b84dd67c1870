------------------------ MODULE MemoryObjectControl -------------------------
(***************************************************************************)
(* The inductive invariant for the life of ipm_memory objects, and the     *)
(* part of its proof that is about one process: types, which blocks a      *)
(* process has at each point of its call, and what a step of one process   *)
(* does to the reference counts and access ids that the others rely on.    *)
(***************************************************************************)
EXTENDS MemoryObject, FiniteSetTheorems, TLAPS

-----------------------------------------------------------------------------
(* The inductive invariant *)

Creating == {"create_open", "create_size", "create_fields", "create_mutex", "create_publish"}
Opens == {"open_open", "open_size", "open_wait", "open_ref"}

Has(p, k) == memory[p][k].object # None
Without(p, k) == memory[p][k] = NoBlock

\* What is left to close when the block that p works on is closed.
Rest(p) ==
    /\ call[p].op \in {"close", "undo"}
    /\ IF call[p].op = "close" /\ call[p].kind = "claims"
       THEN Has(p, "real")
       ELSE \A k \in Kinds \ {call[p].kind} : Without(p, k)

\* The blocks that p has, by where it is in its call.
CreateControl(p) ==
    /\ pc[p] \in Creating =>
          /\ call[p].op = "create" /\ Without(p, "real")
          /\ IF call[p].kind = "claims" THEN Without(p, "claims") ELSE Has(p, "claims")
    /\ pc[p] \in {"list_init", "list_uninit"} =>
          call[p].op = "create" /\ Has(p, "claims") /\ Without(p, "real")
    /\ pc[p] = "list_init" => call[p].kind = "claims"
    /\ call[p].op = "create" => call[p].object \in 1 .. calls

OpenControl(p) ==
    /\ pc[p] \in Opens =>
          /\ call[p].op = "open" /\ Without(p, "claims")
          /\ IF call[p].kind = "real" THEN Without(p, "real") ELSE Has(p, "real")
    /\ pc[p] \in (Opens \cup {"open_id"}) \ {"open_open"} => call[p].object # None
    /\ pc[p] = "open_id" =>
          /\ call[p].op = "open" /\ memory[p][call[p].kind].object = call[p].object
          /\ IF call[p].kind = "real" THEN Without(p, "claims") ELSE Has(p, "real")

CloseControl(p) ==
    /\ pc[p] = "close_sub" =>
          call[p].object # None /\ memory[p][call[p].kind].object = call[p].object
    /\ pc[p] \in {"close_destroy", "close_unlink"} =>
          call[p].object # None /\ Without(p, call[p].kind)
    /\ pc[p] \in {"close_sub", "close_destroy", "close_unlink"} => Rest(p)

IdleControl(p) ==
    /\ pc[p] \in {"idle", "dead", "fault"} => call[p] = NoCall
    /\ pc[p] = "idle" => memory[p] = NoMemory \/ \A k \in Kinds : Has(p, k)
    /\ p \in forked => pc[p] \in {"idle", "dead"} /\ \A k \in Kinds : Has(p, k)

Control(p) == CreateControl(p) /\ OpenControl(p) /\ CloseControl(p) /\ IdleControl(p)

\* No two calls make the same object.
OneCreator ==
    \A p, q \in Procs :
        call[p].op = "create" /\ call[q].op = "create" /\ call[p].object = call[q].object
            => p = q

\* p will publish object o of kind k; o is not published yet.
Unpublished(p, k, o) ==
    /\ call[p].op = "create" /\ call[p].object = o
    /\ \/ pc[p] \in Creating /\ call[p].kind = k
       \/ pc[p] \in Creating \cup {"list_init"} /\ call[p].kind = "claims" /\ k = "real"

Fresh(k, o) == o > calls \/ \E p \in Procs : Unpublished(p, k, o)

\* Nobody counts, or is about to count, as a user of it.
Unused(k, o) ==
    /\ header[k][o].refcount = 0
    /\ \A q \in Procs :
          /\ memory[q][k].object # o
          /\ ~ (pc[q] = "open_ref" /\ call[q].kind = k /\ call[q].object = o)

FreshUnused == \A k \in Kinds, o \in Objects : Fresh(k, o) => Unused(k, o)

\* The access ids that were given out are below the counter.
IdsBelow ==
    /\ \A p \in Procs \ forked, k \in Kinds :
          memory[p][k].object \in Objects /\ memory[p][k].access_id # 0 =>
              memory[p][k].access_id < header[k][memory[p][k].object].id_counter
    /\ \A p \in Procs :
          pc[p] = "create_publish" =>
              call[p].access_id = 1 /\ header[call[p].kind][call[p].object].id_counter = 2

IdsDiffer ==
    \A p, q \in Procs \ forked, k \in Kinds :
        /\ p # q
        /\ memory[p][k].object # None /\ memory[p][k].access_id # 0
        /\ memory[p][k].object = memory[q][k].object
        => memory[p][k].access_id # memory[q][k].access_id

Inv ==
    /\ TypeOK
    /\ \A p \in Procs : Control(p)
    /\ OneCreator /\ FreshUnused
    /\ RefcountExact
    /\ IdsBelow /\ IdsDiffer

\* The steps of process p, but for the fork that p is the child of.
Act(p) == Create(p) \/ Open(p) \/ Close(p) \/ Clean(p) \/ Step(p) \/ Crash(p)

\* claim_list_init ran, with or without the condition.
ListStored(p) ==
    \E l \in {"ready", "no_condition"} : SetHdr(p, [Hdr(p) EXCEPT !.list = l])
-----------------------------------------------------------------------------
(* Types and frames *)

(***************************************************************************)
(* The two blocks of an ipm_memory, and what stands for none.              *)
(***************************************************************************)
LEMMA Basics ==
    /\ None \notin Objects /\ None = 0 /\ Objects \subseteq Nat
    /\ "claims" \in Kinds /\ "real" \in Kinds
    /\ NoBlock \in Block /\ NoBlock.object = None /\ NoBlock.access_id = 0
    /\ NoMemory \in [Kinds -> Block]
    /\ NoCall \in Call /\ NoCall.op = "none" /\ NoCall.kind = "claims"
    /\ NoCall.object = None /\ NoCall.access_id = 0
    /\ ZeroHeader \in Header /\ ZeroHeader.refcount = 0
BY UseAssumption DEF Objects, None, Kinds, NoBlock, Block, NoMemory, NoCall, Locals,
                     Call, ZeroHeader, Header, Life, ListLife

(***************************************************************************)
(* A store to the header that a call works on leaves all others alone.     *)
(***************************************************************************)
LEMMA SetHdrFrame ==
    ASSUME TypeOK, NEW p \in Procs, call[p].object # None, NEW hdr \in Header, SetHdr(p, hdr)
    PROVE  /\ header' \in [Kinds -> [Objects -> Header]]
           /\ call[p].kind \in Kinds /\ call[p].object \in Objects
           /\ header'[call[p].kind][call[p].object] = hdr
           /\ \A k \in Kinds, o \in Objects :
                 k # call[p].kind \/ o # call[p].object => header'[k][o] = header[k][o]
<1> DEFINE j == call[p].kind
           n == call[p].object
<1>1. j \in Kinds /\ n \in Objects
  BY Zenon DEF TypeOK, Call
<1>2. header \in [Kinds -> [Objects -> Header]] /\ header' = [header EXCEPT ![j][n] = hdr]
  BY Zenon DEF TypeOK, SetHdr
<1> HIDE DEF j, n
<1>3. /\ header' \in [Kinds -> [Objects -> Header]]
      /\ header'[j][n] = hdr
      /\ \A k \in Kinds, o \in Objects : k # j \/ o # n => header'[k][o] = header[k][o]
  BY <1>1, <1>2, Zenon
<1> QED BY <1>1, <1>3, Zenon DEF j, n

(***************************************************************************)
(* The atomic updates of refcount and id_counter change that field only.   *)
(***************************************************************************)
LEMMA Counters ==
    ASSUME NEW hdr \in Header, NEW n \in Nat
    PROVE  /\ [hdr EXCEPT !.refcount = n] \in Header
           /\ [hdr EXCEPT !.refcount = n].refcount = n
           /\ [hdr EXCEPT !.refcount = n].id_counter = hdr.id_counter
           /\ [hdr EXCEPT !.id_counter = n] \in Header
           /\ [hdr EXCEPT !.id_counter = n].id_counter = n
           /\ [hdr EXCEPT !.id_counter = n].refcount = hdr.refcount
BY Zenon DEF Header

(***************************************************************************)
(* The header that a call works on is one.                                 *)
(***************************************************************************)
LEMMA HdrType ==
    ASSUME TypeOK, NEW p \in Procs, call[p].object # None
    PROVE  /\ Hdr(p) \in Header /\ Hdr(p).refcount \in Nat /\ Hdr(p).id_counter \in Nat
           /\ Hdr(p).list \in ListLife
           /\ Hdr(p) = header[call[p].kind][call[p].object]
<1>1. call[p].kind \in Kinds /\ call[p].object \in Objects
  BY Zenon DEF TypeOK, Call
<1>2. Hdr(p) \in Header
  BY <1>1, Zenon DEF Hdr, TypeOK
<1>3. Hdr(p) = header[call[p].kind][call[p].object]
  BY Zenon DEF Hdr
<1> QED BY <1>2, <1>3, Zenon DEF Header

(***************************************************************************)
(* So do the stores that create, claim_list_init and close make.           *)
(***************************************************************************)
LEMMA Fields ==
    ASSUME NEW hdr \in Header
    PROVE  /\ [hdr EXCEPT !.sized = TRUE] \in Header
           /\ [hdr EXCEPT !.block_size = TRUE] \in Header
           /\ [hdr EXCEPT !.mutex = "ready", !.id_counter = 2] \in Header
           /\ \A l \in ListLife :
                 /\ [hdr EXCEPT !.list = l] \in Header
                 /\ [hdr EXCEPT !.mutex = "destroyed", !.list = l] \in Header
BY Zenon DEF Header, Life, ListLife

\* The ipm_memory objects that refcount counts.
Users(k, o) == {p \in Procs \ forked : memory[p][k].object = o}

(***************************************************************************)
(* A process that has a block open counts: its refcount is not 0.          *)
(***************************************************************************)
LEMMA UserCounts ==
    ASSUME TypeOK, RefcountExact, NEW p \in Procs, p \notin forked, NEW k \in Kinds,
           memory[p][k].object \in Objects
    PROVE  header[k][memory[p][k].object].refcount \in Nat \ {0}
<1> DEFINE o == memory[p][k].object
<1>1. header[k][o].refcount = Cardinality(Users(k, o))
  BY Zenon DEF RefcountExact, Users
<1>2. IsFiniteSet(Users(k, o))
  BY UseAssumption, FS_Subset, Zenon DEF Users
<1>3. p \in Users(k, o)
  BY Zenon DEF Users
<1>4. Cardinality(Users(k, o)) \in Nat /\ Cardinality(Users(k, o)) # 0
  BY <1>2, <1>3, FS_CardinalityType, FS_EmptySet, Zenon
<1> QED BY <1>1, <1>4, Zenon

(***************************************************************************)
(* A step of one process leaves the call and the ipm_memory of every other *)
(* process alone.                                                          *)
(***************************************************************************)
LEMMA OthersKept ==
    ASSUME TypeOK, NEW p \in Procs, NEW q \in Procs, q # p, Act(p)
    PROVE  /\ pc'[q] = pc[q] /\ call'[q] = call[q] /\ memory'[q] = memory[q]
           /\ q \in forked' <=> q \in forked
<1> USE DEF Goto, Return, Die, CloseBlock, CreateFails, CreateAborts, OpenFails, CloseNext
<1>0. /\ pc \in [Procs -> PC] /\ call \in [Procs -> Call]
      /\ memory \in [Procs -> [Kinds -> Block]]
  BY Zenon DEF TypeOK
<1>1. CASE Create(p) \/ Open(p)
  BY <1>0, <1>1, Zenon DEF Create, Open
<1>2. CASE Close(p)
  BY <1>0, <1>2, Zenon DEF Close
<1>3. CASE Clean(p)
  BY <1>0, <1>3, Zenon DEF Clean
<1>4. CASE Crash(p)
  BY <1>0, <1>4, Zenon DEF Crash
<1>5. CASE CreateOpen(p) \/ CreateSize(p)
  BY <1>0, <1>5, Zenon DEF CreateOpen, CreateSize
<1>6. CASE CreateFields(p) \/ CreateMutex(p)
  BY <1>0, <1>6, Zenon DEF CreateFields, CreateMutex
<1>7. CASE CreatePublish(p)
  BY <1>0, <1>7, Zenon DEF CreatePublish
<1>8. CASE ListInit(p) \/ ListUninit(p)
  BY <1>0, <1>8, Zenon DEF ListInit, ListUninit
<1>9. CASE OpenOpen(p) \/ OpenSize(p) \/ OpenWait(p)
  BY <1>0, <1>9, Zenon DEF OpenOpen, OpenSize, OpenWait
<1>10. CASE OpenRef(p)
  BY <1>0, <1>10, Zenon DEF OpenRef
<1>11. CASE OpenId(p)
  BY <1>0, <1>11, Zenon DEF OpenId
<1>12. CASE CloseSub(p)
  BY <1>0, <1>12, Zenon DEF CloseSub
<1>13. CASE CloseDestroy(p) \/ CloseUnlink(p)
  BY <1>0, <1>13, Zenon DEF CloseDestroy, CloseUnlink
<1> QED BY <1>1, <1>2, <1>3, <1>4, <1>5, <1>6, <1>7, <1>8, <1>9, <1>10, <1>11, <1>12, <1>13, Zenon
        DEF Act, Step

(***************************************************************************)
(* A call moves on to its next step.                                       *)
(***************************************************************************)
LEMMA GotoStep ==
    ASSUME TypeOK, NEW p \in Procs, NEW l \in PC, Goto(p, l)
    PROVE  pc' \in [Procs -> PC] /\ pc'[p] = l
BY Zenon DEF TypeOK, Goto

(***************************************************************************)
(* The locals of a call name the operation it is part of.                  *)
(***************************************************************************)
LEMMA LocalsOp ==
    ASSUME NEW op, NEW kind, NEW object
    PROVE  Locals(op, kind, object).op = op
BY Zenon DEF Locals

(***************************************************************************)
(* A call returns to its caller and forgets its locals.                    *)
(***************************************************************************)
LEMMA ReturnStep ==
    ASSUME TypeOK, NEW p \in Procs, Return(p)
    PROVE  /\ pc' \in [Procs -> PC] /\ pc'[p] = "idle"
           /\ call' \in [Procs -> Call] /\ call'[p] = NoCall
BY Basics, Zenon DEF TypeOK, Return, Goto, PC

(***************************************************************************)
(* shared_memory_block_close begins, on the block that the process has.    *)
(***************************************************************************)
LEMMA CloseBlockStep ==
    ASSUME TypeOK, NEW p \in Procs, NEW op \in {"close", "undo"}, NEW k \in Kinds,
           CloseBlock(p, op, k)
    PROVE  /\ pc' \in [Procs -> PC] /\ pc'[p] = "close_sub"
           /\ call' \in [Procs -> Call]
           /\ call'[p] = Locals(op, k, memory[p][k].object)
<1> DEFINE new == Locals(op, k, memory[p][k].object)
<1>1. new \in Call
  BY DEF TypeOK, Block, Call, Locals
<1>2. call' = [call EXCEPT ![p] = new]
  BY Zenon DEF CloseBlock
<1>3. Goto(p, "close_sub") /\ "close_sub" \in PC
  BY Zenon DEF CloseBlock, PC
<1> HIDE DEF new
<1>4. call' \in [Procs -> Call] /\ call'[p] = new
  BY <1>1, <1>2, Zenon DEF TypeOK
<1> QED BY <1>3, <1>4, GotoStep, Zenon DEF new

(***************************************************************************)
(* The exits of ipm_memory_create after a block could not be made.         *)
(***************************************************************************)
LEMMA CreateFailsStep ==
    ASSUME TypeOK, NEW p \in Procs, CreateFails(p)
    PROVE  /\ pc' \in [Procs -> PC] /\ call' \in [Procs -> Call]
           /\ \/ call[p].kind = "claims" /\ pc'[p] = "idle" /\ call'[p] = NoCall
              \/ call[p].kind # "claims" /\ pc'[p] = "list_uninit" /\ call' = call
<1>1. CASE call[p].kind = "claims"
  BY <1>1, ReturnStep, Zenon DEF CreateFails
<1>2. CASE call[p].kind # "claims"
  <2>1. Goto(p, "list_uninit") /\ call' = call /\ "list_uninit" \in PC
    BY <1>2, Zenon DEF CreateFails, PC
  <2> QED BY <1>2, <2>1, GotoStep, Zenon DEF TypeOK
<1> QED BY <1>1, <1>2, Zenon

(***************************************************************************)
(* The exits of ipm_memory_open after a block could not be opened.         *)
(***************************************************************************)
LEMMA OpenFailsStep ==
    ASSUME TypeOK, NEW p \in Procs, OpenFails(p)
    PROVE  /\ pc' \in [Procs -> PC] /\ call' \in [Procs -> Call]
           /\ \/ call[p].kind = "real" /\ pc'[p] = "idle" /\ call'[p] = NoCall
              \/ /\ call[p].kind # "real" /\ pc'[p] = "close_sub"
                 /\ call'[p] = Locals("undo", "real", memory[p]["real"].object)
<1>1. CASE call[p].kind = "real"
  BY <1>1, ReturnStep, Zenon DEF OpenFails
<1>2. CASE call[p].kind # "real"
  BY <1>2, CloseBlockStep, Basics, Zenon DEF OpenFails
<1> QED BY <1>1, <1>2, Zenon

(***************************************************************************)
(* After one block is closed: the other one, or back to the caller.        *)
(***************************************************************************)
LEMMA CloseNextStep ==
    ASSUME TypeOK, NEW p \in Procs, CloseNext(p)
    PROVE  /\ pc' \in [Procs -> PC] /\ call' \in [Procs -> Call]
           /\ \/ /\ ~ (call[p].op = "close" /\ call[p].kind = "claims")
                 /\ pc'[p] = "idle" /\ call'[p] = NoCall
              \/ /\ call[p].op = "close" /\ call[p].kind = "claims" /\ pc'[p] = "close_sub"
                 /\ call'[p] = Locals("close", "real", memory[p]["real"].object)
<1>1. CASE call[p].op = "close" /\ call[p].kind = "claims"
  BY <1>1, CloseBlockStep, Basics, Zenon DEF CloseNext
<1>2. CASE ~ (call[p].op = "close" /\ call[p].kind = "claims")
  BY <1>2, ReturnStep, Zenon DEF CloseNext
<1> QED BY <1>1, <1>2, Zenon

(***************************************************************************)
(* A process gets a block, the object of one, or an access id; its other   *)
(* block stays as it is.                                                   *)
(***************************************************************************)
LEMMA SetBlock ==
    ASSUME TypeOK, NEW p \in Procs, NEW k \in Kinds, NEW b \in Block,
           memory' = [memory EXCEPT ![p][k] = b]
    PROVE  /\ memory' \in [Procs -> [Kinds -> Block]] /\ memory'[p][k] = b
           /\ \A j \in Kinds : j # k => memory'[p][j] = memory[p][j]
BY Zenon DEF TypeOK

(***************************************************************************)
(* The block that open has counted itself into, before it has an id.       *)
(***************************************************************************)
LEMMA SetObject ==
    ASSUME TypeOK, NEW p \in Procs, NEW k \in Kinds, NEW o \in Objects \cup {None},
           memory' = [memory EXCEPT ![p][k].object = o]
    PROVE  /\ memory' \in [Procs -> [Kinds -> Block]] /\ memory'[p][k].object = o
           /\ memory'[p][k].access_id = memory[p][k].access_id
           /\ \A j \in Kinds : j # k => memory'[p][j] = memory[p][j]
<1> DEFINE b == [memory[p][k] EXCEPT !.object = o]
<1>1. memory[p][k] \in Block
  BY Zenon DEF TypeOK
<1>2. b \in Block /\ b.object = o /\ b.access_id = memory[p][k].access_id
  BY <1>1, Zenon DEF Block
<1>3. memory'[p] = [memory[p] EXCEPT ![k] = b] /\ memory[p] \in [Kinds -> Block]
  BY Zenon DEF TypeOK
<1>4. \A q \in Procs : q # p => memory'[q] = memory[q]
  BY Zenon DEF TypeOK
<1> HIDE DEF b
<1>5. /\ memory'[p] \in [Kinds -> Block] /\ memory'[p][k] = b
      /\ \A j \in Kinds : j # k => memory'[p][j] = memory[p][j]
  BY <1>2, <1>3
<1>6. memory' \in [Procs -> [Kinds -> Block]]
  BY <1>4, <1>5, Zenon DEF TypeOK
<1> QED BY <1>2, <1>5, <1>6, Zenon

(***************************************************************************)
(* The id that open draws for a block.                                     *)
(***************************************************************************)
LEMMA SetId ==
    ASSUME TypeOK, NEW p \in Procs, NEW k \in Kinds, NEW n \in Nat,
           memory' = [memory EXCEPT ![p][k].access_id = n]
    PROVE  /\ memory' \in [Procs -> [Kinds -> Block]] /\ memory'[p][k].access_id = n
           /\ memory'[p][k].object = memory[p][k].object
           /\ \A j \in Kinds : j # k => memory'[p][j] = memory[p][j]
<1> DEFINE b == [memory[p][k] EXCEPT !.access_id = n]
<1>1. memory[p][k] \in Block
  BY Zenon DEF TypeOK
<1>2. b \in Block /\ b.access_id = n /\ b.object = memory[p][k].object
  BY <1>1, Zenon DEF Block
<1>3. memory'[p] = [memory[p] EXCEPT ![k] = b] /\ memory[p] \in [Kinds -> Block]
  BY Zenon DEF TypeOK
<1>4. \A q \in Procs : q # p => memory'[q] = memory[q]
  BY Zenon DEF TypeOK
<1> HIDE DEF b
<1>5. /\ memory'[p] \in [Kinds -> Block] /\ memory'[p][k] = b
      /\ \A j \in Kinds : j # k => memory'[p][j] = memory[p][j]
  BY <1>2, <1>3
<1>6. memory' \in [Procs -> [Kinds -> Block]]
  BY <1>4, <1>5, Zenon DEF TypeOK
<1> QED BY <1>2, <1>5, <1>6, Zenon

(***************************************************************************)
(* Objects are only ever added to those that a failed shm_unlink left.     *)
(***************************************************************************)
LEMMA LeakedGrows ==
    ASSUME TypeOK, NEW p \in Procs, Act(p)
    PROVE  /\ leaked' \in [Kinds -> SUBSET Objects]
           /\ \A k \in Kinds : leaked[k] \subseteq leaked'[k]
<1>0. /\ leaked \in [Kinds -> SUBSET Objects] /\ linked \in [Kinds -> Objects \cup {None}]
      /\ call[p].kind \in Kinds
  BY Zenon DEF TypeOK, Call
<1>1. leaked' = leaked \/ Unlink(p)
  BY Zenon DEF Act, Step, Create, Open, Close, Clean, Crash, CreateOpen, CreateSize, CreateFields,
               CreateMutex, CreateAborts, CreatePublish, ListInit, ListUninit, OpenOpen, OpenSize,
               OpenWait, OpenRef, OpenId, CloseSub, CloseDestroy, CloseUnlink
<1>2. CASE leaked' = leaked
  BY <1>0, <1>2, Zenon
<1>3. CASE Unlink(p)
  <2> DEFINE k0 == call[p].kind
             added == leaked[k0] \cup ({linked[k0]} \ {None})
  <2>1. added \in SUBSET Objects /\ leaked[k0] \subseteq added
    BY <1>0, Zenon
  <2>2. leaked' = leaked \/ leaked' = [leaked EXCEPT ![k0] = added]
    BY <1>3, Zenon DEF Unlink
  <2> HIDE DEF k0, added
  <2>3. k0 \in Kinds
    BY <1>0, Zenon DEF k0
  <2>4. CASE leaked' = [leaked EXCEPT ![k0] = added]
    <3>1. /\ leaked'[k0] = added /\ \A k \in Kinds : k # k0 => leaked'[k] = leaked[k]
      BY <1>0, <2>3, <2>4, Zenon
    <3>2. leaked' \in [Kinds -> SUBSET Objects]
      BY <1>0, <2>1, <2>3, <2>4, Zenon
    <3> QED BY <2>1, <3>1, <3>2, Zenon
  <2> QED BY <1>0, <2>2, <2>4, Zenon
<1> QED BY <1>1, <1>2, <1>3, Zenon

(***************************************************************************)
(* Every step keeps the types of the variables.  CloseSub needs more: the  *)
(* reference that it gives back was counted.                               *)
(***************************************************************************)
LEMMA TypeStep ==
    ASSUME TypeOK, RefcountExact, NEW p \in Procs, Control(p), Act(p)
    PROVE  TypeOK'
<1>0. /\ linked \in [Kinds -> Objects \cup {None}] /\ header \in [Kinds -> [Objects -> Header]]
      /\ pc \in [Procs -> PC] /\ call \in [Procs -> Call]
      /\ memory \in [Procs -> [Kinds -> Block]] /\ forked \in SUBSET Procs
      /\ calls \in 0 .. MaxCalls /\ crashes \in 0 .. MaxCrashes
      /\ call[p].kind \in Kinds /\ call[p].object \in Objects \cup {None}
      /\ leaked' \in [Kinds -> SUBSET Objects]
  BY LeakedGrows, Zenon DEF TypeOK, Call
<1>1. CASE Create(p) \/ Open(p)
  <2>1. calls' \in 0 .. MaxCalls /\ calls' = calls + 1 /\ calls + 1 \in Objects
    BY <1>0, <1>1, UseAssumption DEF Create, Open, Objects
  <2>2. /\ Locals("create", "claims", calls + 1) \in Call
        /\ Locals("open", "real", None) \in Call
    BY <2>1, Basics, Zenon DEF Locals, Call
  <2>3. call' \in [Procs -> Call]
    BY <1>0, <1>1, <2>2, Zenon DEF Create, Open
  <2>4. pc' \in [Procs -> PC]
    BY <1>0, <1>1, Zenon DEF Create, Open, Goto, PC
  <2> QED BY <1>0, <1>1, <2>1, <2>3, <2>4, Zenon DEF Create, Open, TypeOK
<1>2. CASE Close(p)
  <2>1. call' \in [Procs -> Call] /\ pc' \in [Procs -> PC]
    BY <1>2, CloseBlockStep, Basics, Zenon DEF Close
  <2> QED BY <1>0, <1>2, <2>1, Zenon DEF Close, TypeOK
<1>3. CASE Clean(p)
  <2>1. memory' \in [Procs -> [Kinds -> Block]] /\ forked' \in SUBSET Procs
    BY <1>0, <1>3, Basics, Zenon DEF Clean
  <2> QED BY <1>0, <1>3, <2>1, Zenon DEF Clean, TypeOK
<1>4. CASE Crash(p)
  <2>1. call' \in [Procs -> Call] /\ pc' \in [Procs -> PC] /\ crashes' \in 0 .. MaxCrashes
    BY <1>0, <1>4, Basics, UseAssumption DEF Crash, Die, Goto, PC
  <2> QED BY <1>0, <1>4, <2>1, Zenon DEF Crash, TypeOK
<1>5. ASSUME pc[p] \in Creating PROVE call[p].object # None /\ call[p].object \in Objects
  <2>1. call[p].object \in 1 .. calls
    BY <1>5, Zenon DEF Control, CreateControl
  <2> QED BY <1>0, <2>1, Basics
<1>6. ASSUME CreateAborts(p)
      PROVE  /\ linked' \in [Kinds -> Objects \cup {None}] /\ header' = header
             /\ pc' \in [Procs -> PC] /\ call' \in [Procs -> Call]
  BY <1>0, <1>6, CreateFailsStep, Zenon DEF CreateAborts, Unlink
<1>7. CASE CreateOpen(p)
  <2>1. call' \in [Procs -> Call] /\ pc' \in [Procs -> PC]
        /\ linked' \in [Kinds -> Objects \cup {None}]
    BY <1>0, <1>7, CreateFailsStep, Zenon DEF CreateOpen, Goto, PC
  <2> QED BY <1>0, <1>7, <2>1, Zenon DEF CreateOpen, TypeOK
<1>8. CASE CreateSize(p)
  <2>1. call[p].object # None
    BY <1>5, <1>8, Zenon DEF CreateSize, Creating
  <2>2. /\ call' \in [Procs -> Call] /\ pc' \in [Procs -> PC]
        /\ linked' \in [Kinds -> Objects \cup {None}]
        /\ header' \in [Kinds -> [Objects -> Header]]
    BY <1>0, <1>6, <1>8, <2>1, HdrType, Fields, SetHdrFrame, ZenonT(30) DEF CreateSize, Goto, PC
  <2> QED BY <1>0, <1>8, <2>2, Zenon DEF CreateSize, TypeOK
<1>9. CASE CreateFields(p)
  <2>1. call[p].object # None
    BY <1>5, <1>9, Zenon DEF CreateFields, Creating
  <2>2. /\ call' \in [Procs -> Call] /\ pc' \in [Procs -> PC]
        /\ linked' \in [Kinds -> Objects \cup {None}]
        /\ header' \in [Kinds -> [Objects -> Header]]
    <3>1. CASE CreateAborts(p)
      BY <1>0, <1>6, <3>1, Zenon
    <3>2. CASE Die(p, "fault") /\ UNCHANGED <<linked, leaked, header>>
      BY <1>0, <3>2, Basics, Zenon DEF Die, Goto, PC
    <3>3. CASE /\ SetHdr(p, [Hdr(p) EXCEPT !.block_size = TRUE])
               /\ Goto(p, "create_mutex") /\ UNCHANGED <<linked, leaked, call>>
      BY <1>0, <2>1, <3>3, HdrType, Fields, SetHdrFrame, Zenon DEF Goto, PC
    <3> QED BY <1>9, <3>1, <3>2, <3>3, Zenon DEF CreateFields
  <2> QED BY <1>0, <1>9, <2>2, Zenon DEF CreateFields, TypeOK
<1>10. CASE CreateMutex(p)
  <2>1. call[p].object # None
    BY <1>5, <1>10, Zenon DEF CreateMutex, Creating
  <2>2. [call EXCEPT ![p].access_id = 1] \in [Procs -> Call]
    <3>1. [call[p] EXCEPT !.access_id = 1] \in Call
      BY <1>0, Zenon DEF Call
    <3> QED BY <1>0, <3>1, Zenon
  <2>3. /\ call' \in [Procs -> Call] /\ pc' \in [Procs -> PC]
        /\ linked' \in [Kinds -> Objects \cup {None}]
        /\ header' \in [Kinds -> [Objects -> Header]]
    BY <1>0, <1>6, <1>10, <2>1, <2>2, HdrType, Fields, SetHdrFrame, ZenonT(30) DEF
                                                                              CreateMutex,
                                                                              Goto, PC
  <2> QED BY <1>0, <1>10, <2>3, Zenon DEF CreateMutex, TypeOK
<1>11. CASE CreatePublish(p)
  <2>1. call[p].object # None /\ call[p].object \in Objects
    BY <1>5, <1>11, Zenon DEF CreatePublish, Creating
  <2>2. header' \in [Kinds -> [Objects -> Header]]
    <3>1. Hdr(p) \in Header
      BY <2>1, HdrType, Zenon
    <3>2. [Hdr(p) EXCEPT !.refcount = 1] \in Header
      BY <3>1, Counters, Zenon
    <3>3. SetHdr(p, [Hdr(p) EXCEPT !.refcount = 1])
      BY <1>11, Zenon DEF CreatePublish
    <3> QED BY <2>1, <3>2, <3>3, SetHdrFrame, Zenon
  <2>3. [object |-> call[p].object, access_id |-> call[p].access_id] \in Block
    BY <1>0, Zenon DEF Block, Call
  <2>4. memory' \in [Procs -> [Kinds -> Block]]
    BY <1>0, <1>11, <2>3, Zenon DEF CreatePublish
  <2>5. call' \in [Procs -> Call] /\ pc' \in [Procs -> PC]
    BY <1>0, <1>11, ReturnStep, Zenon DEF CreatePublish, Goto, PC
  <2> QED BY <1>0, <1>11, <2>2, <2>4, <2>5, Zenon DEF CreatePublish, TypeOK
<1>12. CASE ListInit(p)
  <2>1. call[p].object \in 1 .. calls
    BY <1>12, Zenon DEF ListInit, Control, CreateControl
  <2>2. call[p].object # None
    BY <2>1, Basics
  <2>3. [call EXCEPT ![p].kind = "real"] \in [Procs -> Call]
    <3>1. [call[p] EXCEPT !.kind = "real"] \in Call
      BY <1>0, Basics, Zenon DEF Call
    <3> QED BY <1>0, <3>1, Zenon
  <2>4. CASE /\ ListStored(p)
             /\ call' = [call EXCEPT ![p].kind = "real"]
             /\ Goto(p, "create_open")
    <3>1. header' \in [Kinds -> [Objects -> Header]]
      <4>1. PICK l \in {"ready", "no_condition"} : SetHdr(p, [Hdr(p) EXCEPT !.list = l])
        BY <2>4, Zenon DEF ListStored
      <4>2. l \in ListLife
        BY Zenon DEF ListLife, Life
      <4>3. [Hdr(p) EXCEPT !.list = l] \in Header
        BY <2>2, <4>2, HdrType, Fields, Zenon
      <4> QED BY <2>2, <4>1, <4>3, SetHdrFrame, Zenon
    <3>2. call' \in [Procs -> Call] /\ pc' \in [Procs -> PC]
      BY <1>0, <2>3, <2>4, Zenon DEF Goto, PC
    <3> QED BY <1>0, <1>12, <3>1, <3>2, Zenon DEF ListInit, TypeOK
  <2>5. CASE CloseBlock(p, "undo", "claims") /\ UNCHANGED header
    <3>1. call' \in [Procs -> Call] /\ pc' \in [Procs -> PC]
      BY <2>5, CloseBlockStep, Basics, Zenon
    <3> QED BY <1>0, <1>12, <2>5, <3>1, Zenon DEF ListInit, TypeOK
  <2> QED BY <1>12, <2>4, <2>5, Zenon DEF ListInit, ListStored
<1>13. CASE ListUninit(p)
  <2>1. call[p].object \in 1 .. calls
    BY <1>13, Zenon DEF ListUninit, Control, CreateControl
  <2>2. call[p].object \in Objects
    BY <1>0, <2>1, Basics
  <2>3. call' \in [Procs -> Call] /\ pc' \in [Procs -> PC]
    BY <1>13, CloseBlockStep, Basics, Zenon DEF ListUninit
  <2>4. ASSUME NEW o \in Objects
        PROVE  [header["claims"][o] EXCEPT !.list = "destroyed"] \in Header
    <3>1. header["claims"] \in [Objects -> Header]
      BY Basics, Zenon DEF TypeOK
    <3>2. header["claims"][o] \in Header
      BY <3>1, Zenon
    <3> QED BY <3>2, Fields, Zenon DEF ListLife, Life
  <2>5. header' \in [Kinds -> [Objects -> Header]]
    BY <1>0, <1>13, <2>2, <2>4, Basics, Zenon DEF ListUninit
  <2> QED BY <1>0, <1>13, <2>3, <2>5, Zenon DEF ListUninit, TypeOK
<1>14. CASE OpenOpen(p)
  <2>1. [call EXCEPT ![p].object = linked[call[p].kind]] \in [Procs -> Call]
    <3>1. [call[p] EXCEPT !.object = linked[call[p].kind]] \in Call
      BY <1>0, ZenonT(30) DEF Call
    <3> QED BY <1>0, <3>1, Zenon
  <2>2. call' \in [Procs -> Call] /\ pc' \in [Procs -> PC]
    BY <1>0, <1>14, <2>1, OpenFailsStep, Zenon DEF OpenOpen, Goto, PC
  <2> QED BY <1>0, <1>14, <2>2, Zenon DEF OpenOpen, TypeOK
<1>15. CASE OpenSize(p)
  <2>1. call' \in [Procs -> Call] /\ pc' \in [Procs -> PC]
    <3>1. CASE Die(p, "fault")
      BY <1>0, <3>1, Basics, Zenon DEF Die, Goto, PC
    <3>2. CASE OpenFails(p)
      BY <3>2, OpenFailsStep, Zenon
    <3>3. CASE Goto(p, "open_wait") /\ UNCHANGED call
      BY <1>0, <3>3, Zenon DEF Goto, PC
    <3> QED BY <1>15, <3>1, <3>2, <3>3, Zenon DEF OpenSize
  <2> QED BY <1>0, <1>15, <2>1, Zenon DEF OpenSize, TypeOK
<1>16. CASE OpenWait(p)
  <2>1. pc' \in [Procs -> PC]
    BY <1>0, <1>16, Zenon DEF OpenWait, Goto, PC
  <2> QED BY <1>0, <1>16, <2>1, Zenon DEF OpenWait, TypeOK
<1>17. CASE OpenRef(p)
  <2>1. call[p].object # None
    BY <1>17, Zenon DEF OpenRef, Control, OpenControl, Opens
  <2>2. header' \in [Kinds -> [Objects -> Header]]
    <3>1. [Hdr(p) EXCEPT !.refcount = Hdr(p).refcount + 1] \in Header
      <4>1. Hdr(p) \in Header /\ Hdr(p).refcount + 1 \in Nat
        BY <2>1, HdrType
      <4> QED BY <4>1, Counters, Zenon
    <3>2. SetHdr(p, [Hdr(p) EXCEPT !.refcount = Hdr(p).refcount + 1])
      BY <1>17, Zenon DEF OpenRef
    <3> QED BY <2>1, <3>1, <3>2, SetHdrFrame, Zenon
  <2>3. memory' \in [Procs -> [Kinds -> Block]]
    BY <1>0, <1>17, SetObject, Zenon DEF OpenRef
  <2>4. pc' \in [Procs -> PC]
    BY <1>0, <1>17, Zenon DEF OpenRef, Goto, PC
  <2> QED BY <1>0, <1>17, <2>2, <2>3, <2>4, Zenon DEF OpenRef, TypeOK
<1>18. CASE OpenId(p)
  <2>1. call[p].object # None
    BY <1>18, Zenon DEF OpenId, Control, OpenControl, Opens
  <2>2. header' \in [Kinds -> [Objects -> Header]]
    <3>1. [Hdr(p) EXCEPT !.id_counter = Hdr(p).id_counter + 1] \in Header
      <4>1. Hdr(p) \in Header /\ Hdr(p).id_counter + 1 \in Nat
        BY <2>1, HdrType
      <4> QED BY <4>1, Counters, Zenon
    <3>2. SetHdr(p, [Hdr(p) EXCEPT !.id_counter = Hdr(p).id_counter + 1])
      BY <1>18, Zenon DEF OpenId
    <3> QED BY <2>1, <3>1, <3>2, SetHdrFrame, Zenon
  <2>3. Hdr(p).id_counter \in Nat
    BY <2>1, HdrType, Zenon
  <2>4. memory' \in [Procs -> [Kinds -> Block]]
    BY <1>0, <1>18, <2>3, SetId, Zenon DEF OpenId
  <2>5. Locals("open", "claims", None) \in Call
    BY Basics, Zenon DEF Locals, Call
  <2>6. pc' \in [Procs -> PC] /\ call' \in [Procs -> Call]
    BY <1>0, <1>18, <2>5, ReturnStep, Zenon DEF OpenId, Goto, PC
  <2> QED BY <1>0, <1>18, <2>2, <2>4, <2>6, Zenon DEF OpenId, TypeOK
<1>19. CASE CloseSub(p)
  <2>1. /\ call[p].object # None /\ memory[p][call[p].kind].object = call[p].object
        /\ p \notin forked
    BY <1>19, Zenon DEF CloseSub, Control, CloseControl, IdleControl
  <2>2. Hdr(p).refcount \in Nat \ {0}
    BY <1>0, <2>1, UserCounts, Zenon DEF Hdr
  <2>3. header' \in [Kinds -> [Objects -> Header]]
    <3>1. [Hdr(p) EXCEPT !.refcount = Hdr(p).refcount - 1] \in Header
      <4>1. Hdr(p) \in Header /\ Hdr(p).refcount - 1 \in Nat
        BY <2>1, <2>2, HdrType
      <4> QED BY <4>1, Counters, Zenon
    <3>2. SetHdr(p, [Hdr(p) EXCEPT !.refcount = Hdr(p).refcount - 1])
      BY <1>19, Zenon DEF CloseSub
    <3> QED BY <2>1, <3>1, <3>2, SetHdrFrame, Zenon
  <2>4. memory' \in [Procs -> [Kinds -> Block]]
    BY <1>0, <1>19, Basics, Zenon DEF CloseSub
  <2>5. pc' \in [Procs -> PC] /\ call' \in [Procs -> Call]
    BY <1>0, <1>19, CloseNextStep, Zenon DEF CloseSub, Goto, PC
  <2> QED BY <1>0, <1>19, <2>3, <2>4, <2>5, Zenon DEF CloseSub, TypeOK
<1>20. CASE CloseDestroy(p)
  <2>1. call[p].object # None
    BY <1>20, Zenon DEF CloseDestroy, Control, CloseControl
  <2>2. (IF call[p].op = "close" /\ call[p].kind = "claims"
         THEN "destroyed" ELSE Hdr(p).list) \in ListLife
    BY <2>1, HdrType, Zenon DEF ListLife, Life
  <2>3. header' \in [Kinds -> [Objects -> Header]]
    BY <1>20, <2>1, <2>2, HdrType, Fields, SetHdrFrame, Zenon DEF CloseDestroy
  <2>4. pc' \in [Procs -> PC]
    BY <1>0, <1>20, Zenon DEF CloseDestroy, Goto, PC
  <2> QED BY <1>0, <1>20, <2>3, <2>4, Zenon DEF CloseDestroy, TypeOK
<1>21. CASE CloseUnlink(p)
  <2>1. pc' \in [Procs -> PC] /\ call' \in [Procs -> Call]
    BY <1>21, CloseNextStep, Zenon DEF CloseUnlink
  <2>2. linked' \in [Kinds -> Objects \cup {None}]
    BY <1>0, <1>21, Zenon DEF CloseUnlink, Unlink
  <2> QED BY <1>0, <1>21, <2>1, <2>2, Zenon DEF CloseUnlink, TypeOK
<1> QED BY <1>1, <1>2, <1>3, <1>4, <1>7, <1>8, <1>9, <1>10, <1>11, <1>12, <1>13, <1>14,
           <1>15, <1>16, <1>17, <1>18, <1>19, <1>20, <1>21, ZenonT(30) DEF Act, Step
-----------------------------------------------------------------------------
(* Which blocks a process has *)

(***************************************************************************)
(* create, open and close take and give up the two blocks in their order,  *)
(* and every error path leaves the process with both blocks or with none.  *)
(***************************************************************************)
LEMMA ControlStep ==
    ASSUME TypeOK, NEW p \in Procs, Control(p), Act(p), TypeOK'
    PROVE  Control(p)'
<1> USE DEF Control, Has, Without
<1>0. /\ pc \in [Procs -> PC] /\ call \in [Procs -> Call]
      /\ memory \in [Procs -> [Kinds -> Block]] /\ calls \in Nat
      /\ call[p].kind \in Kinds /\ call[p].object \in Objects \cup {None}
      /\ \A k \in Kinds : memory[p][k] \in Block
  BY UseAssumption DEF TypeOK, Call
<1>1. ASSUME pc'[p] = "idle", call'[p] = NoCall, p \notin forked',
             memory'[p] = NoMemory \/ \A k \in Kinds : memory'[p][k].object # None
      PROVE  Control(p)'
  BY <1>1, Basics, Zenon DEF CreateControl, OpenControl, CloseControl, IdleControl,
                                Creating, Opens
<1>2. ASSUME pc'[p] \in Creating, call'[p].op = "create", call'[p].object \in 1 .. calls',
             memory'[p]["real"] = NoBlock, p \notin forked',
             IF call'[p].kind = "claims" THEN memory'[p]["claims"] = NoBlock
                                         ELSE memory'[p]["claims"].object # None
      PROVE  Control(p)'
  BY <1>2, Zenon DEF CreateControl, OpenControl, CloseControl, IdleControl, Creating, Opens
<1>3. ASSUME pc'[p] \in {"list_init", "list_uninit"}, call'[p].op = "create",
             call'[p].object \in 1 .. calls', p \notin forked',
             memory'[p]["real"] = NoBlock, memory'[p]["claims"].object # None,
             pc'[p] = "list_init" => call'[p].kind = "claims"
      PROVE  Control(p)'
  BY <1>3, Zenon DEF CreateControl, OpenControl, CloseControl, IdleControl, Creating, Opens
<1>4. ASSUME pc'[p] \in Opens, call'[p].op = "open", p \notin forked',
             memory'[p]["claims"] = NoBlock,
             pc'[p] # "open_open" => call'[p].object # None,
             IF call'[p].kind = "real" THEN memory'[p]["real"] = NoBlock
                                       ELSE memory'[p]["real"].object # None
      PROVE  Control(p)'
  BY <1>4, Zenon DEF CreateControl, OpenControl, CloseControl, IdleControl, Creating,
                        Opens
<1>5. ASSUME pc'[p] = "close_sub", p \notin forked', call'[p].object # None,
             memory'[p][call'[p].kind].object = call'[p].object, Rest(p)'
      PROVE  Control(p)'
  BY <1>5, Zenon DEF CreateControl, OpenControl, CloseControl, IdleControl, Creating, Opens, Rest
<1>6. ASSUME pc'[p] \in {"close_destroy", "close_unlink"}, p \notin forked',
             call'[p].object # None, memory'[p][call'[p].kind] = NoBlock, Rest(p)'
      PROVE  Control(p)'
  BY <1>6, Zenon DEF CreateControl, OpenControl, CloseControl, IdleControl, Creating,
                        Opens, Rest
<1>7. ASSUME pc'[p] \in {"dead", "fault"}, call'[p] = NoCall,
             p \in forked' => pc'[p] = "dead" /\ \A k \in Kinds : memory'[p][k].object # None
      PROVE  Control(p)'
  BY <1>7, Basics, Zenon DEF CreateControl, OpenControl, CloseControl, IdleControl, Creating, Opens
<1>8. ASSUME pc[p] \notin {"idle", "dead"} PROVE p \notin forked
  BY <1>8, Zenon DEF IdleControl
<1>9. CASE Create(p)
  <2>1. /\ pc'[p] = "create_open" /\ call'[p] = Locals("create", "claims", calls + 1)
        /\ memory'[p] = NoMemory /\ forked' = forked /\ calls' = calls + 1
    BY <1>0, <1>9, Zenon DEF Create, Goto
  <2>2. p \notin forked
    BY <1>9, Basics, Zenon DEF Create, IdleControl, NoMemory
  <2>3. memory'[p]["real"] = NoBlock /\ memory'[p]["claims"] = NoBlock
    BY <2>1, Basics, Zenon DEF NoMemory
  <2>4. calls + 1 \in 1 .. calls'
    BY <1>0, <2>1
  <2> QED BY <1>2, <2>1, <2>2, <2>3, <2>4 DEF Locals, Creating
<1>10. CASE Open(p)
  <2>1. /\ pc'[p] = "open_open" /\ call'[p] = Locals("open", "real", None)
        /\ memory'[p] = NoMemory /\ forked' = forked
    BY <1>0, <1>10, Zenon DEF Open, Goto
  <2>2. p \notin forked
    BY <1>10, Basics, Zenon DEF Open, IdleControl, NoMemory
  <2>3. memory'[p]["real"] = NoBlock /\ memory'[p]["claims"] = NoBlock
    BY <2>1, Basics, Zenon DEF NoMemory
  <2> QED BY <1>4, <2>1, <2>2, <2>3 DEF Locals, Opens
<1>11. CASE Close(p)
  <2>1. /\ p \notin forked /\ memory' = memory /\ forked' = forked
        /\ \A k \in Kinds : memory[p][k].object # None
    BY <1>11, Zenon DEF Close, Holder, IdleControl
  <2>2. /\ pc'[p] = "close_sub"
        /\ call'[p] = Locals("close", "claims", memory[p]["claims"].object)
    BY <1>11, CloseBlockStep, Basics, Zenon DEF Close
  <2>3. Rest(p)'
    BY <2>1, <2>2, Basics DEF Rest, Locals
  <2> QED BY <1>5, <2>1, <2>2, <2>3, Basics DEF Locals
<1>12. CASE Clean(p)
  <2>1. pc'[p] = "idle" /\ call'[p] = NoCall /\ memory'[p] = NoMemory /\ p \notin forked'
    BY <1>0, <1>12, Zenon DEF Clean, IdleControl
  <2> QED BY <1>1, <2>1, Zenon
<1>13. CASE Crash(p)
  <2>1. /\ pc'[p] = "dead" /\ call'[p] = NoCall /\ memory' = memory /\ forked' = forked
    BY <1>0, <1>13, Zenon DEF Crash, Die, Goto
  <2> QED BY <1>7, <2>1, Zenon DEF IdleControl
<1>14. ASSUME pc[p] \in Creating, CreateFails(p), memory' = memory, forked' = forked,
              calls' = calls
       PROVE  Control(p)'
  <2>1. /\ call[p].op = "create" /\ memory[p]["real"] = NoBlock /\ p \notin forked
        /\ call[p].object \in 1 .. calls
        /\ IF call[p].kind = "claims" THEN memory[p]["claims"] = NoBlock
                                      ELSE memory[p]["claims"].object # None
    BY <1>8, <1>14, Zenon DEF CreateControl, Creating
  <2>2. CASE call[p].kind = "claims" /\ pc'[p] = "idle" /\ call'[p] = NoCall
    <3>1. memory[p] = NoMemory
      BY <1>0, <2>1, <2>2, Zenon DEF NoMemory, Kinds
    <3> QED BY <1>1, <1>14, <2>1, <2>2, <3>1, Zenon
  <2>3. CASE call[p].kind # "claims" /\ pc'[p] = "list_uninit" /\ call' = call
    BY <1>3, <1>14, <2>1, <2>3, Zenon
  <2> QED BY <1>14, <2>2, <2>3, CreateFailsStep, Zenon
<1>15. ASSUME pc[p] \in Creating, pc'[p] \in Creating, forked' = forked, calls' = calls,
              memory' = memory, call'[p].op = call[p].op, call'[p].kind = call[p].kind,
              call'[p].object = call[p].object
       PROVE  Control(p)'
  <2>1. /\ call[p].op = "create" /\ memory[p]["real"] = NoBlock /\ p \notin forked
        /\ call[p].object \in 1 .. calls
        /\ IF call[p].kind = "claims" THEN memory[p]["claims"] = NoBlock
                                      ELSE memory[p]["claims"].object # None
    BY <1>8, <1>15, Zenon DEF CreateControl, Creating
  <2> QED BY <1>2, <1>15, <2>1, Zenon
<1>16. CASE CreateOpen(p)
  BY <1>0, <1>14, <1>15, <1>16, Zenon DEF CreateOpen, Goto, Creating
<1>17. CASE CreateSize(p)
  BY <1>0, <1>14, <1>15, <1>17, Zenon DEF CreateSize, CreateAborts, Goto, Creating
<1>18. CASE CreateFields(p)
  <2>1. CASE Die(p, "fault")
    <3>1. pc'[p] = "fault" /\ call'[p] = NoCall /\ p \notin forked'
      BY <1>0, <1>8, <1>18, <2>1, Zenon DEF CreateFields, Die, Goto
    <3> QED BY <1>7, <3>1, Zenon
  <2>2. CASE CreateAborts(p)
    BY <1>14, <1>18, <2>2, Zenon DEF CreateFields, CreateAborts, Creating
  <2>3. CASE Goto(p, "create_mutex") /\ UNCHANGED call
    BY <1>0, <1>15, <1>18, <2>3, Zenon DEF CreateFields, Goto, Creating
  <2> QED BY <1>18, <2>1, <2>2, <2>3, Zenon DEF CreateFields
<1>19. CASE CreateMutex(p)
  <2>1. CASE CreateAborts(p)
    BY <1>14, <1>19, <2>1, Zenon DEF CreateMutex, CreateAborts, Creating
  <2>2. CASE call' = [call EXCEPT ![p].access_id = 1] /\ Goto(p, "create_publish")
    <3>1. /\ call'[p].op = call[p].op /\ call'[p].kind = call[p].kind
          /\ call'[p].object = call[p].object
      BY <1>0, <2>2, Zenon DEF Call
    <3> QED BY <1>0, <1>15, <1>19, <2>2, <3>1, Zenon DEF CreateMutex, Goto, Creating
  <2> QED BY <1>19, <2>1, <2>2, Zenon DEF CreateMutex
<1>20. CASE CreatePublish(p)
  <2> DEFINE b == [object |-> call[p].object, access_id |-> call[p].access_id]
  <2>1. /\ call[p].op = "create" /\ memory[p]["real"] = NoBlock /\ p \notin forked
        /\ call[p].object \in 1 .. calls /\ call[p].object # None
        /\ call[p].kind # "claims" => memory[p]["claims"].object # None
    BY <1>8, <1>20, Basics DEF CreateControl, Creating, CreatePublish
  <2>2. b \in Block /\ b.object = call[p].object
    BY <1>0, Zenon DEF Block, Call
  <2>3. /\ memory' = [memory EXCEPT ![p][call[p].kind] = b]
        /\ forked' = forked
        /\ calls' = calls
    BY <1>20, Zenon DEF CreatePublish
  <2> HIDE DEF b
  <2>4. /\ memory'[p][call[p].kind] = b
        /\ \A j \in Kinds : j # call[p].kind => memory'[p][j] = memory[p][j]
    BY <1>0, <2>2, <2>3, Zenon
  <2>5. CASE call[p].kind = "claims"
    <3>1. pc'[p] = "list_init" /\ call' = call
      BY <1>0, <1>20, <2>5, Zenon DEF CreatePublish, Goto
    <3>2. memory'[p]["real"] = NoBlock /\ memory'[p]["claims"].object # None
      BY <2>1, <2>2, <2>4, <2>5, Basics, Zenon
    <3> QED BY <1>3, <2>1, <2>3, <2>5, <3>1, <3>2, Zenon
  <2>6. CASE call[p].kind # "claims"
    <3>1. pc'[p] = "idle" /\ call'[p] = NoCall
      BY <1>20, <2>6, ReturnStep, Zenon DEF CreatePublish
    <3>2. \A k \in Kinds : memory'[p][k].object # None
      BY <1>0, <2>1, <2>2, <2>4, <2>6, Zenon DEF Kinds
    <3> QED BY <1>1, <2>1, <2>3, <3>1, <3>2, Zenon
  <2> QED BY <2>5, <2>6, Zenon
<1>21. CASE ListInit(p) \/ ListUninit(p)
  <2>1. /\ call[p].op = "create" /\ memory[p]["real"] = NoBlock /\ p \notin forked
        /\ call[p].object \in 1 .. calls /\ memory[p]["claims"].object # None
        /\ memory' = memory /\ forked' = forked /\ calls' = calls
    BY <1>8, <1>21, Zenon DEF CreateControl, ListInit, ListUninit
  <2>2. CASE call' = [call EXCEPT ![p].kind = "real"] /\ Goto(p, "create_open")
    <3>1. /\ call'[p].op = "create"
          /\ call'[p].object = call[p].object
          /\ call'[p].kind = "real"
      BY <1>0, <2>1, <2>2, Zenon DEF Call
    <3>2. pc'[p] \in Creating
      BY <1>0, <2>2, Zenon DEF Goto, Creating
    <3> QED BY <1>2, <2>1, <3>1, <3>2, Zenon
  <2>3. CASE CloseBlock(p, "undo", "claims")
    <3>1. /\ pc'[p] = "close_sub"
          /\ call'[p] = Locals("undo", "claims", memory[p]["claims"].object)
      BY <2>3, CloseBlockStep, Basics, Zenon
    <3>2. Rest(p)'
      BY <2>1, <3>1, Basics DEF Rest, Locals, Kinds
    <3> QED BY <1>5, <2>1, <3>1, <3>2, SMTT(30) DEF Locals
  <2> QED BY <1>21, <2>2, <2>3, Zenon DEF ListInit, ListUninit
<1>22. ASSUME pc[p] \in Opens, OpenFails(p), memory' = memory, forked' = forked
       PROVE  Control(p)'
  <2>1. /\ memory[p]["claims"] = NoBlock /\ p \notin forked
        /\ IF call[p].kind = "real" THEN memory[p]["real"] = NoBlock
                                    ELSE memory[p]["real"].object # None
    BY <1>8, <1>22, Zenon DEF OpenControl, Opens
  <2>2. CASE call[p].kind = "real" /\ pc'[p] = "idle" /\ call'[p] = NoCall
    <3>1. memory[p] = NoMemory
      BY <1>0, <2>1, <2>2, Zenon DEF NoMemory, Kinds
    <3> QED BY <1>1, <1>22, <2>1, <2>2, <3>1, Zenon
  <2>3. CASE /\ call[p].kind # "real" /\ pc'[p] = "close_sub"
             /\ call'[p] = Locals("undo", "real", memory[p]["real"].object)
    <3>1. Rest(p)'
      BY <1>22, <2>1, <2>3, Basics DEF Rest, Locals, Kinds
    <3> QED BY <1>5, <1>22, <2>1, <2>3, <3>1, SMTT(30) DEF Locals
  <2> QED BY <1>22, <2>2, <2>3, OpenFailsStep, Zenon
<1>23. ASSUME pc[p] \in Opens, pc'[p] \in Opens, memory' = memory, forked' = forked,
              call'[p].op = call[p].op, call'[p].kind = call[p].kind,
              call'[p].object # None
       PROVE  Control(p)'
  <2>1. /\ memory[p]["claims"] = NoBlock /\ p \notin forked /\ call[p].op = "open"
        /\ IF call[p].kind = "real" THEN memory[p]["real"] = NoBlock
                                    ELSE memory[p]["real"].object # None
    BY <1>8, <1>23, Zenon DEF OpenControl, Opens
  <2> QED BY <1>4, <1>23, <2>1, Zenon
<1>24. CASE OpenOpen(p)
  <2>1. CASE OpenFails(p)
    BY <1>22, <1>24, <2>1, Zenon DEF OpenOpen, Opens
  <2>2. CASE /\ linked[call[p].kind] # None
             /\ call' = [call EXCEPT ![p].object = linked[call[p].kind]]
             /\ Goto(p, "open_size")
    <3>1. /\ call'[p].op = call[p].op /\ call'[p].kind = call[p].kind
          /\ call'[p].object # None
      BY <1>0, <2>2, Zenon DEF Call
    <3> QED BY <1>0, <1>23, <1>24, <2>2, <3>1, Zenon DEF OpenOpen, Goto, Opens
  <2> QED BY <1>24, <2>1, <2>2, Zenon DEF OpenOpen
<1>25. CASE OpenSize(p)
  <2>1. CASE OpenFails(p)
    BY <1>22, <1>25, <2>1, Zenon DEF OpenSize, Opens
  <2>2. CASE Die(p, "fault")
    <3>1. pc'[p] = "fault" /\ call'[p] = NoCall /\ p \notin forked'
      BY <1>0, <1>8, <1>25, <2>2, Zenon DEF OpenSize, Die, Goto
    <3> QED BY <1>7, <3>1, Zenon
  <2>3. CASE Goto(p, "open_wait") /\ UNCHANGED call
    <3>1. call[p].object # None
      BY <1>25, Zenon DEF OpenSize, OpenControl, Opens
    <3> QED BY <1>0, <1>23, <1>25, <2>3, <3>1, Zenon DEF OpenSize, Goto, Opens
  <2> QED BY <1>25, <2>1, <2>2, <2>3, Zenon DEF OpenSize
<1>26. CASE OpenWait(p)
  <2>1. call[p].object # None
    BY <1>26, Zenon DEF OpenWait, OpenControl, Opens
  <2> QED BY <1>0, <1>23, <1>26, <2>1, Zenon DEF OpenWait, Goto, Opens
<1>27. ASSUME pc'[p] = "open_id", p \notin forked', call'[p].op = "open",
              call'[p].object # None,
              memory'[p][call'[p].kind].object = call'[p].object,
              IF call'[p].kind = "real" THEN memory'[p]["claims"] = NoBlock
                                        ELSE memory'[p]["real"].object # None
       PROVE  Control(p)'
  BY <1>27, Zenon DEF CreateControl, OpenControl, CloseControl, IdleControl, Creating, Opens
<1>28. CASE OpenRef(p)
  <2>1. /\ memory[p]["claims"] = NoBlock /\ p \notin forked /\ call[p].op = "open"
        /\ call[p].kind # "real" => memory[p]["real"].object # None
        /\ call[p].object # None
    BY <1>8, <1>28, Zenon DEF OpenRef, OpenControl, Opens
  <2>2. pc'[p] = "open_id" /\ call' = call /\ forked' = forked
    BY <1>0, <1>28, Zenon DEF OpenRef, Goto
  <2>3. /\ memory'[p][call[p].kind].object = call[p].object
        /\ \A j \in Kinds : j # call[p].kind => memory'[p][j] = memory[p][j]
    BY <1>0, <1>28, SetObject DEF OpenRef
  <2> QED BY <1>0, <1>27, <2>1, <2>2, <2>3, Basics, Zenon
<1>29. CASE OpenId(p)
  <2>1. /\ p \notin forked /\ call[p].op = "open" /\ call[p].object # None
        /\ memory[p][call[p].kind].object = call[p].object
        /\ IF call[p].kind = "real" THEN memory[p]["claims"] = NoBlock
                                    ELSE memory[p]["real"].object # None
    BY <1>8, <1>29, Zenon DEF OpenId, OpenControl, Opens
  <2>2. Hdr(p).id_counter \in Nat
    BY <2>1, HdrType, Zenon
  <2>3. /\ memory'[p][call[p].kind].object = call[p].object
        /\ \A j \in Kinds : j # call[p].kind => memory'[p][j] = memory[p][j]
    BY <1>0, <1>29, <2>1, <2>2, SetId DEF OpenId
  <2>4. forked' = forked
    BY <1>29, Zenon DEF OpenId
  <2>5. CASE call[p].kind = "real"
    <3>1. call'[p] = Locals("open", "claims", None) /\ pc'[p] = "open_open"
      BY <1>0, <1>29, <2>5, Zenon DEF OpenId, Goto
    <3>2. call'[p].op = "open" /\ call'[p].kind = "claims"
      BY <3>1 DEF Locals
    <3> QED BY <1>4, <2>1, <2>3, <2>4, <2>5, <3>1, <3>2, Basics, Zenon DEF Opens
  <2>6. CASE call[p].kind # "real"
    <3>1. pc'[p] = "idle" /\ call'[p] = NoCall
      BY <1>29, <2>6, ReturnStep, Zenon DEF OpenId
    <3>2. \A k \in Kinds : memory'[p][k].object # None
      BY <1>0, <2>1, <2>3, <2>6, Zenon DEF Kinds
    <3> QED BY <1>1, <2>1, <2>4, <3>1, <3>2, Zenon
  <2> QED BY <2>5, <2>6, Zenon
<1>30. ASSUME CloseNext(p), Rest(p), memory'[p][call[p].kind] = NoBlock, p \notin forked',
              \A j \in Kinds : j # call[p].kind => memory'[p][j] = memory[p][j]
       PROVE  Control(p)'
  <2>1. CASE /\ ~ (call[p].op = "close" /\ call[p].kind = "claims")
             /\ pc'[p] = "idle" /\ call'[p] = NoCall
    <3>1. \A k \in Kinds : memory'[p][k] = NoBlock
      BY <1>30, <2>1, Zenon DEF Rest
    <3>2. memory'[p] \in [Kinds -> Block]
      BY Zenon DEF TypeOK
    <3>3. memory'[p] = NoMemory
      BY <3>1, <3>2, Zenon DEF NoMemory
    <3> QED BY <1>1, <1>30, <2>1, <3>3, Zenon
  <2>2. CASE /\ call[p].op = "close" /\ call[p].kind = "claims" /\ pc'[p] = "close_sub"
             /\ call'[p] = Locals("close", "real", memory[p]["real"].object)
    <3>1. memory'[p]["real"] = memory[p]["real"] /\ memory[p]["real"].object # None
          /\ memory'[p]["claims"] = NoBlock
      BY <1>30, <2>2, Basics, Zenon DEF Rest
    <3>2. Rest(p)'
      BY <2>2, <3>1, SMTT(30) DEF Rest, Locals, Kinds
    <3> QED BY <1>5, <1>30, <2>2, <3>1, <3>2 DEF Locals
  <2> QED BY <1>30, <2>1, <2>2, CloseNextStep, Zenon
<1>31. CASE CloseSub(p)
  <2>1. p \notin forked' /\ Rest(p) /\ call[p].object # None
    BY <1>8, <1>31, Zenon DEF CloseSub, CloseControl
  <2>2. /\ memory'[p][call[p].kind] = NoBlock
        /\ \A j \in Kinds : j # call[p].kind => memory'[p][j] = memory[p][j]
    BY <1>0, <1>31, SetBlock, Basics DEF CloseSub
  <2>3. CASE Goto(p, "close_destroy") /\ UNCHANGED call
    <3>1. pc'[p] = "close_destroy" /\ call' = call
      BY <1>0, <2>3, Zenon DEF Goto
    <3>2. Rest(p)'
      BY <2>1, <2>2, <3>1, Basics, Zenon DEF Rest
    <3> QED BY <1>6, <2>1, <2>2, <3>1, <3>2, Zenon
  <2>4. CASE CloseNext(p)
    BY <1>30, <2>1, <2>2, <2>4, Zenon
  <2> QED BY <1>31, <2>3, <2>4, Zenon DEF CloseSub
<1>32. CASE CloseDestroy(p)
  <2>1. /\ pc'[p] = "close_unlink" /\ call' = call /\ memory' = memory /\ forked' = forked
        /\ p \notin forked /\ Rest(p) /\ call[p].object # None
        /\ memory[p][call[p].kind] = NoBlock
    BY <1>0, <1>8, <1>32, Zenon DEF CloseDestroy, Goto, CloseControl
  <2>2. Rest(p)'
    BY <2>1, Zenon DEF Rest
  <2> QED BY <1>6, <2>1, <2>2, Zenon
<1>33. CASE CloseUnlink(p)
  <2>1. /\ memory' = memory /\ p \notin forked' /\ Rest(p)
        /\ memory[p][call[p].kind] = NoBlock /\ CloseNext(p)
    BY <1>8, <1>33, Zenon DEF CloseUnlink, CloseControl
  <2> QED BY <1>30, <2>1, Zenon
<1> QED BY <1>9, <1>10, <1>11, <1>12, <1>13, <1>16, <1>17, <1>18, <1>19, <1>20, <1>21, <1>24,
           <1>25, <1>26, <1>28, <1>29, <1>31, <1>32, <1>33, ZenonT(30) DEF Act, Step
-----------------------------------------------------------------------------
(* What a step does to references and ids *)

\* The block that the call of p works on.
Mine(p, k, o) == k = call[p].kind /\ o = call[p].object

\* Neither counter of a header changes, and no ipm_memory.
Quiet ==
    /\ memory' = memory /\ forked' = forked
    /\ \A k \in Kinds, o \in Objects :
          /\ header'[k][o].refcount = header[k][o].refcount
          /\ header'[k][o].id_counter = header[k][o].id_counter

\* create has set up the mutex and taken access id 1.
MutexMade(p) ==
    /\ pc[p] = "create_mutex" /\ pc'[p] = "create_publish"
    /\ call[p].kind \in Kinds /\ call[p].object \in Objects
    /\ call'[p].op = call[p].op /\ call'[p].kind = call[p].kind
    /\ call'[p].object = call[p].object /\ call'[p].access_id = 1
    /\ memory' = memory /\ forked' = forked
    /\ header'[call[p].kind][call[p].object].id_counter = 2
    /\ \A k \in Kinds, o \in Objects :
          /\ header'[k][o].refcount = header[k][o].refcount
          /\ ~ Mine(p, k, o) => header'[k][o].id_counter = header[k][o].id_counter

(***************************************************************************)
(* The stores that create, claim_list_init and close make to the rest of   *)
(* the header leave its counters alone.                                    *)
(***************************************************************************)
LEMMA FieldsCounters ==
    ASSUME NEW hdr \in Header
    PROVE  /\ [hdr EXCEPT !.sized = TRUE].refcount = hdr.refcount
           /\ [hdr EXCEPT !.sized = TRUE].id_counter = hdr.id_counter
           /\ [hdr EXCEPT !.block_size = TRUE].refcount = hdr.refcount
           /\ [hdr EXCEPT !.block_size = TRUE].id_counter = hdr.id_counter
           /\ [hdr EXCEPT !.mutex = "ready", !.id_counter = 2].refcount = hdr.refcount
           /\ [hdr EXCEPT !.mutex = "ready", !.id_counter = 2].id_counter = 2
           /\ \A l \in ListLife :
                 /\ [hdr EXCEPT !.list = l].refcount = hdr.refcount
                 /\ [hdr EXCEPT !.list = l].id_counter = hdr.id_counter
                 /\ [hdr EXCEPT !.mutex = "destroyed", !.list = l].refcount = hdr.refcount
                 /\ [hdr EXCEPT !.mutex = "destroyed", !.list = l].id_counter = hdr.id_counter
BY Zenon DEF Header

(***************************************************************************)
(* A store to the header that keeps its counters.                          *)
(***************************************************************************)
LEMMA QuietStore ==
    ASSUME TypeOK, NEW p \in Procs, call[p].object # None, NEW hdr \in Header,
           SetHdr(p, hdr), hdr.refcount = Hdr(p).refcount, hdr.id_counter = Hdr(p).id_counter
    PROVE  \A k \in Kinds, o \in Objects :
              /\ header'[k][o].refcount = header[k][o].refcount
              /\ header'[k][o].id_counter = header[k][o].id_counter
<1>1. Hdr(p) = header[call[p].kind][call[p].object]
  BY Zenon DEF Hdr
<1> QED BY <1>1, SetHdrFrame

(***************************************************************************)
(* create makes the mutex of its object and takes id 1, or gives up.       *)
(***************************************************************************)
LEMMA MutexStep ==
    ASSUME TypeOK, NEW p \in Procs, Control(p), CreateMutex(p)
    PROVE  MutexMade(p) \/ (Quiet /\ pc'[p] # "create_publish")
<1>0. /\ call \in [Procs -> Call] /\ pc \in [Procs -> PC] /\ calls \in Nat
      /\ call[p].kind \in Kinds /\ call[p].object \in Objects \cup {None}
  BY UseAssumption DEF TypeOK, Call
<1>1. call[p].object # None /\ Hdr(p) \in Header /\ call[p].object \in Objects
  <2>1. call[p].object \in 1 .. calls
    BY Zenon DEF CreateMutex, Creating, Control, CreateControl
  <2>2. call[p].object # None
    BY <2>1, Basics
  <2> QED BY <1>0, <2>2, HdrType, Zenon
<1>2. CASE CreateAborts(p)
  <2>1. pc'[p] # "create_publish"
    BY <1>2, CreateFailsStep, Zenon DEF CreateAborts
  <2> QED BY <1>2, <2>1, Zenon DEF CreateMutex, CreateAborts, Quiet
<1>3. CASE /\ SetHdr(p, [Hdr(p) EXCEPT !.mutex = "ready", !.id_counter = 2])
           /\ call' = [call EXCEPT ![p].access_id = 1]
           /\ Goto(p, "create_publish")
  <2> DEFINE hdr == [Hdr(p) EXCEPT !.mutex = "ready", !.id_counter = 2]
  <2>1. hdr \in Header /\ hdr.refcount = Hdr(p).refcount /\ hdr.id_counter = 2
    BY <1>1, Fields, FieldsCounters, Zenon
  <2>2. SetHdr(p, hdr)
    BY <1>3, Zenon
  <2> HIDE DEF hdr
  <2>3. /\ header'[call[p].kind][call[p].object] = hdr
        /\ \A k \in Kinds, o \in Objects : ~ Mine(p, k, o) => header'[k][o] = header[k][o]
    BY <1>1, <2>1, <2>2, SetHdrFrame DEF Mine
  <2>4. Hdr(p) = header[call[p].kind][call[p].object]
    BY Zenon DEF Hdr
  <2>5. \A k \in Kinds, o \in Objects :
           /\ header'[k][o].refcount = header[k][o].refcount
           /\ ~ Mine(p, k, o) => header'[k][o].id_counter = header[k][o].id_counter
    BY <2>1, <2>3, <2>4, Zenon DEF Mine
  <2>6. /\ call'[p].op = call[p].op /\ call'[p].kind = call[p].kind
        /\ call'[p].object = call[p].object /\ call'[p].access_id = 1
    BY <1>0, <1>3, Zenon DEF Call
  <2>7. /\ pc[p] = "create_mutex" /\ pc'[p] = "create_publish"
        /\ memory' = memory /\ forked' = forked
    BY <1>0, <1>3, Zenon DEF CreateMutex, Goto
  <2> QED BY <1>0, <1>1, <2>1, <2>3, <2>5, <2>6, <2>7, Zenon DEF MutexMade
<1> QED BY <1>2, <1>3, Zenon DEF CreateMutex

(***************************************************************************)
(* Only six steps touch the references or the ids.                         *)
(***************************************************************************)
LEMMA QuietStep ==
    ASSUME TypeOK, NEW p \in Procs, Control(p), Act(p)
    PROVE  \/ Quiet \/ Clean(p) \/ MutexMade(p)
           \/ CreatePublish(p) \/ OpenRef(p) \/ OpenId(p) \/ CloseSub(p)
<1>0. /\ call \in [Procs -> Call] /\ pc \in [Procs -> PC] /\ calls \in Nat
      /\ header \in [Kinds -> [Objects -> Header]]
      /\ call[p].kind \in Kinds /\ call[p].object \in Objects \cup {None}
  BY UseAssumption DEF TypeOK, Call
<1>1. ASSUME header' = header, memory' = memory, forked' = forked PROVE Quiet
  BY <1>1, Zenon DEF Quiet
<1>2. CASE Create(p) \/ Open(p) \/ Close(p) \/ Crash(p)
  BY <1>1, <1>2, Zenon DEF Create, Open, Close, Crash
<1>3. CASE CreateOpen(p) \/ OpenOpen(p) \/ OpenSize(p) \/ OpenWait(p) \/ CloseUnlink(p)
  BY <1>1, <1>3, Zenon DEF CreateOpen, OpenOpen, OpenSize, OpenWait, CloseUnlink
<1>4. ASSUME pc[p] \in Creating \cup {"list_init", "list_uninit"}
      PROVE  /\ call[p].object # None /\ call[p].object \in Objects
             /\ Hdr(p) \in Header
  <2>1. call[p].object \in 1 .. calls
    BY <1>4, Zenon DEF Control, CreateControl
  <2>2. call[p].object # None
    BY <2>1, Basics
  <2> QED BY <1>0, <2>2, HdrType, Zenon
<1>5. CASE CreateSize(p)
  <2>1. call[p].object # None /\ Hdr(p) \in Header
    BY <1>4, <1>5, Zenon DEF CreateSize, Creating
  <2>2. CASE CreateAborts(p)
    BY <1>1, <1>5, <2>2, Zenon DEF CreateSize, CreateAborts
  <2>3. CASE SetHdr(p, [Hdr(p) EXCEPT !.sized = TRUE])
    BY <1>5, <2>1, <2>3, QuietStore, Fields, FieldsCounters, Zenon DEF CreateSize, Quiet
  <2> QED BY <1>5, <2>2, <2>3, Zenon DEF CreateSize
<1>6. CASE CreateFields(p)
  <2>1. call[p].object # None /\ Hdr(p) \in Header
    BY <1>4, <1>6, Zenon DEF CreateFields, Creating
  <2>2. CASE CreateAborts(p) \/ UNCHANGED header
    BY <1>1, <1>6, <2>2, Zenon DEF CreateFields, CreateAborts
  <2>3. CASE SetHdr(p, [Hdr(p) EXCEPT !.block_size = TRUE])
    BY <1>6, <2>1, <2>3, QuietStore, Fields, FieldsCounters, Zenon DEF CreateFields, Quiet
  <2> QED BY <1>6, <2>2, <2>3, Zenon DEF CreateFields
<1>7. CASE CreateMutex(p)
  BY <1>7, MutexStep, Zenon
<1>8. CASE ListInit(p)
  <2>1. call[p].object # None /\ Hdr(p) \in Header
    BY <1>4, <1>8, Zenon DEF ListInit
  <2>2. CASE ListStored(p)
    <3>1. PICK l \in {"ready", "no_condition"} : SetHdr(p, [Hdr(p) EXCEPT !.list = l])
      BY <2>2, Zenon DEF ListStored
    <3>2. l \in ListLife
      BY Zenon DEF ListLife, Life
    <3> QED BY <1>8, <2>1, <3>1, <3>2, QuietStore, Fields, FieldsCounters, Zenon
            DEF ListInit, Quiet
  <2>3. CASE UNCHANGED header
    BY <1>1, <1>8, <2>3, Zenon DEF ListInit
  <2> QED BY <1>8, <2>2, <2>3, Zenon DEF ListInit, ListStored
<1>9. CASE ListUninit(p)
  <2> DEFINE n == call[p].object
  <2>1. n \in Objects
    BY <1>4, <1>9, Zenon DEF ListUninit
  <2>2. header' = [header EXCEPT !["claims"][n].list = "destroyed"]
    BY <1>9, Zenon DEF ListUninit
  <2> HIDE DEF n
  <2>3. header["claims"][n] \in Header
    BY <1>0, <2>1, Basics, Zenon
  <2>4. /\ [header["claims"][n] EXCEPT !.list = "destroyed"].refcount = header["claims"][n].refcount
        /\ [header["claims"][n] EXCEPT !.list = "destroyed"].id_counter = header["claims"][n].id_counter
    BY <2>3, Zenon DEF Header
  <2>5. /\ header'["claims"][n] = [header["claims"][n] EXCEPT !.list = "destroyed"]
        /\ \A k \in Kinds, o \in Objects : k # "claims" \/ o # n => header'[k][o] = header[k][o]
    BY <1>0, <2>1, <2>2, Basics, Zenon
  <2>6. \A k \in Kinds, o \in Objects :
           /\ header'[k][o].refcount = header[k][o].refcount
           /\ header'[k][o].id_counter = header[k][o].id_counter
    BY <2>4, <2>5, Zenon
  <2> QED BY <1>9, <2>6, Zenon DEF ListUninit, Quiet
<1>10. CASE CloseDestroy(p)
  <2> DEFINE l == IF call[p].op = "close" /\ call[p].kind = "claims"
                  THEN "destroyed" ELSE Hdr(p).list
  <2>1. call[p].object # None
    BY <1>10, Zenon DEF CloseDestroy, Control, CloseControl
  <2>2. l \in ListLife /\ Hdr(p) \in Header
    BY <2>1, HdrType, Zenon DEF ListLife, Life
  <2> DEFINE hdr == [Hdr(p) EXCEPT !.mutex = "destroyed", !.list = l]
  <2>3. SetHdr(p, hdr) /\ memory' = memory /\ forked' = forked
    BY <1>10, Zenon DEF CloseDestroy
  <2> HIDE DEF l
  <2>4. /\ hdr \in Header /\ hdr.refcount = Hdr(p).refcount
        /\ hdr.id_counter = Hdr(p).id_counter
    BY <2>2, Fields, FieldsCounters, Zenon
  <2> HIDE DEF hdr
  <2> QED BY <2>1, <2>3, <2>4, QuietStore, Zenon DEF Quiet
<1> QED BY <1>2, <1>3, <1>5, <1>6, <1>7, <1>8, <1>9, <1>10, Zenon DEF Act, Step

(***************************************************************************)
(* create stores refcount = 1 and hands over the block with its id.        *)
(***************************************************************************)
LEMMA PublishEffect ==
    ASSUME TypeOK, NEW p \in Procs, Control(p), CreatePublish(p)
    PROVE  /\ call[p].kind \in Kinds /\ call[p].object \in Objects /\ p \notin forked
           /\ memory[p][call[p].kind] = NoBlock /\ forked' = forked
           /\ memory'[p][call[p].kind].object = call[p].object
           /\ memory'[p][call[p].kind].access_id = call[p].access_id
           /\ \A k \in Kinds : k # call[p].kind => memory'[p][k] = memory[p][k]
           /\ header'[call[p].kind][call[p].object].refcount = 1
           /\ \A k \in Kinds, o \in Objects :
                 /\ header'[k][o].id_counter = header[k][o].id_counter
                 /\ ~ Mine(p, k, o) => header'[k][o].refcount = header[k][o].refcount
<1> DEFINE b == [object |-> call[p].object, access_id |-> call[p].access_id]
           hdr == [Hdr(p) EXCEPT !.refcount = 1]
<1>0. call[p].kind \in Kinds /\ call[p].object \in Objects \cup {None} /\ calls \in Nat
  BY UseAssumption DEF TypeOK, Call
<1>1. /\ call[p].object \in 1 .. calls /\ p \notin forked /\ memory[p]["real"] = NoBlock
      /\ call[p].kind = "claims" => memory[p]["claims"] = NoBlock
  BY Zenon DEF CreatePublish, Control, CreateControl, IdleControl, Creating, Without
<1>2. call[p].object # None /\ call[p].object \in Objects
  BY <1>0, <1>1, Basics
<1>3. memory[p][call[p].kind] = NoBlock
  BY <1>0, <1>1, Zenon DEF Kinds
<1>4. Hdr(p) \in Header /\ Hdr(p) = header[call[p].kind][call[p].object]
  BY <1>2, HdrType, Zenon
<1>5. hdr \in Header /\ hdr.refcount = 1 /\ hdr.id_counter = Hdr(p).id_counter
  <2>1. 1 \in Nat
    BY Zenon
  <2> QED BY <1>4, <2>1, Counters, Zenon
<1>6. b \in Block /\ b.object = call[p].object /\ b.access_id = call[p].access_id
  BY Zenon DEF TypeOK, Call, Block
<1>7. SetHdr(p, hdr) /\ memory' = [memory EXCEPT ![p][call[p].kind] = b] /\ forked' = forked
  BY Zenon DEF CreatePublish
<1> HIDE DEF b, hdr
<1>8. /\ memory'[p][call[p].kind] = b
      /\ \A k \in Kinds : k # call[p].kind => memory'[p][k] = memory[p][k]
  BY <1>0, <1>6, <1>7, Zenon DEF TypeOK
<1>9. /\ header'[call[p].kind][call[p].object] = hdr
      /\ \A k \in Kinds, o \in Objects : ~ Mine(p, k, o) => header'[k][o] = header[k][o]
  BY <1>2, <1>5, <1>7, SetHdrFrame DEF Mine
<1>10. \A k \in Kinds, o \in Objects :
          /\ header'[k][o].id_counter = header[k][o].id_counter
          /\ ~ Mine(p, k, o) => header'[k][o].refcount = header[k][o].refcount
  BY <1>4, <1>5, <1>9, Zenon DEF Mine
<1> QED BY <1>0, <1>1, <1>2, <1>3, <1>5, <1>6, <1>7, <1>8, <1>9, <1>10

(***************************************************************************)
(* open adds its reference and has no id yet.                              *)
(***************************************************************************)
LEMMA OpenRefEffect ==
    ASSUME TypeOK, NEW p \in Procs, Control(p), OpenRef(p)
    PROVE  /\ call[p].kind \in Kinds /\ call[p].object \in Objects /\ p \notin forked
           /\ memory[p][call[p].kind] = NoBlock /\ forked' = forked
           /\ memory'[p][call[p].kind].object = call[p].object
           /\ memory'[p][call[p].kind].access_id = 0
           /\ \A k \in Kinds : k # call[p].kind => memory'[p][k] = memory[p][k]
           /\ header'[call[p].kind][call[p].object].refcount =
                 header[call[p].kind][call[p].object].refcount + 1
           /\ \A k \in Kinds, o \in Objects :
                 /\ header'[k][o].id_counter = header[k][o].id_counter
                 /\ ~ Mine(p, k, o) => header'[k][o].refcount = header[k][o].refcount
<1> DEFINE hdr == [Hdr(p) EXCEPT !.refcount = Hdr(p).refcount + 1]
<1>0. /\ call[p].kind \in Kinds /\ call[p].object \in Objects \cup {None}
      /\ memory \in [Procs -> [Kinds -> Block]] /\ \A k \in Kinds : memory[p][k] \in Block
  BY Zenon DEF TypeOK, Call
<1>1. /\ call[p].object # None /\ p \notin forked /\ memory[p]["claims"] = NoBlock
      /\ call[p].kind = "real" => memory[p]["real"] = NoBlock
  BY Zenon DEF OpenRef, Control, OpenControl, IdleControl, Opens, Without
<1>2. memory[p][call[p].kind] = NoBlock
  BY <1>0, <1>1, Zenon DEF Kinds
<1>3. /\ Hdr(p) \in Header /\ Hdr(p) = header[call[p].kind][call[p].object]
      /\ Hdr(p).refcount + 1 \in Nat
  BY <1>1, HdrType
<1>4. /\ hdr \in Header /\ hdr.refcount = Hdr(p).refcount + 1
      /\ hdr.id_counter = Hdr(p).id_counter
  BY <1>3, Counters, Zenon
<1>5. /\ SetHdr(p, hdr) /\ forked' = forked
      /\ memory' = [memory EXCEPT ![p][call[p].kind].object = call[p].object]
  BY Zenon DEF OpenRef
<1> HIDE DEF hdr
<1>6. /\ memory'[p][call[p].kind].object = call[p].object
      /\ memory'[p][call[p].kind].access_id = memory[p][call[p].kind].access_id
      /\ \A k \in Kinds : k # call[p].kind => memory'[p][k] = memory[p][k]
  <2> DEFINE k0 == call[p].kind
             n == call[p].object
  <2>1. k0 \in Kinds /\ n \in Objects \cup {None}
        /\ memory' = [memory EXCEPT ![p][k0].object = n]
    BY <1>0, <1>5, Zenon
  <2> HIDE DEF k0, n
  <2>2. /\ memory'[p][k0].object = n /\ memory'[p][k0].access_id = memory[p][k0].access_id
        /\ \A k \in Kinds : k # k0 => memory'[p][k] = memory[p][k]
    BY <2>1, SetObject, ZenonT(30)
  <2> QED BY <2>2, Zenon DEF k0, n
<1>7. /\ header'[call[p].kind][call[p].object] = hdr
      /\ \A k \in Kinds, o \in Objects : ~ Mine(p, k, o) => header'[k][o] = header[k][o]
  BY <1>1, <1>4, <1>5, SetHdrFrame DEF Mine
<1>8. \A k \in Kinds, o \in Objects :
          /\ header'[k][o].id_counter = header[k][o].id_counter
          /\ ~ Mine(p, k, o) => header'[k][o].refcount = header[k][o].refcount
  BY <1>3, <1>4, <1>7, Zenon DEF Mine
<1>9. header'[call[p].kind][call[p].object].refcount =
         header[call[p].kind][call[p].object].refcount + 1
  BY <1>3, <1>4, <1>7, Zenon
<1>10. memory'[p][call[p].kind].access_id = 0 /\ call[p].object \in Objects
  BY <1>0, <1>1, <1>2, <1>6, Basics, Zenon
<1> QED BY <1>0, <1>1, <1>2, <1>5, <1>6, <1>8, <1>9, <1>10, Zenon

(***************************************************************************)
(* open draws an id from the counter.                                      *)
(***************************************************************************)
LEMMA OpenIdEffect ==
    ASSUME TypeOK, NEW p \in Procs, Control(p), OpenId(p)
    PROVE  /\ call[p].kind \in Kinds /\ call[p].object \in Objects /\ p \notin forked
           /\ memory[p][call[p].kind].object = call[p].object /\ forked' = forked
           /\ memory'[p][call[p].kind].object = call[p].object
           /\ memory'[p][call[p].kind].access_id =
                 header[call[p].kind][call[p].object].id_counter
           /\ \A k \in Kinds : k # call[p].kind => memory'[p][k] = memory[p][k]
           /\ header'[call[p].kind][call[p].object].id_counter =
                 header[call[p].kind][call[p].object].id_counter + 1
           /\ \A k \in Kinds, o \in Objects :
                 /\ header'[k][o].refcount = header[k][o].refcount
                 /\ ~ Mine(p, k, o) => header'[k][o].id_counter = header[k][o].id_counter
<1> DEFINE hdr == [Hdr(p) EXCEPT !.id_counter = Hdr(p).id_counter + 1]
<1>0. /\ call[p].kind \in Kinds /\ call[p].object \in Objects \cup {None}
      /\ memory \in [Procs -> [Kinds -> Block]] /\ \A k \in Kinds : memory[p][k] \in Block
  BY Zenon DEF TypeOK, Call
<1>1. /\ call[p].object # None /\ p \notin forked
      /\ memory[p][call[p].kind].object = call[p].object
  BY Zenon DEF OpenId, Control, OpenControl, IdleControl, Opens
<1>2. /\ Hdr(p) \in Header /\ Hdr(p) = header[call[p].kind][call[p].object]
      /\ Hdr(p).id_counter \in Nat /\ Hdr(p).id_counter + 1 \in Nat
  BY <1>1, HdrType
<1>3. /\ hdr \in Header /\ hdr.id_counter = Hdr(p).id_counter + 1
      /\ hdr.refcount = Hdr(p).refcount
  BY <1>2, Counters, Zenon
<1>4. /\ SetHdr(p, hdr) /\ forked' = forked
      /\ memory' = [memory EXCEPT ![p][call[p].kind].access_id = Hdr(p).id_counter]
  BY Zenon DEF OpenId
<1> HIDE DEF hdr
<1>5. /\ memory'[p][call[p].kind].object = call[p].object
      /\ memory'[p][call[p].kind].access_id = Hdr(p).id_counter
      /\ \A k \in Kinds : k # call[p].kind => memory'[p][k] = memory[p][k]
  <2> DEFINE n == Hdr(p).id_counter
  <2>1. n \in Nat /\ memory' = [memory EXCEPT ![p][call[p].kind].access_id = n]
    BY <1>2, <1>4, ZenonT(30)
  <2> HIDE DEF n
  <2>2. /\ memory'[p][call[p].kind].access_id = n
        /\ memory'[p][call[p].kind].object = memory[p][call[p].kind].object
        /\ \A k \in Kinds : k # call[p].kind => memory'[p][k] = memory[p][k]
    BY <1>0, <2>1, SetId
  <2> QED BY <1>1, <2>2, Zenon DEF n
<1>6. /\ header'[call[p].kind][call[p].object] = hdr
      /\ \A k \in Kinds, o \in Objects : ~ Mine(p, k, o) => header'[k][o] = header[k][o]
  BY <1>1, <1>3, <1>4, SetHdrFrame DEF Mine
<1>7. \A k \in Kinds, o \in Objects :
          /\ header'[k][o].refcount = header[k][o].refcount
          /\ ~ Mine(p, k, o) => header'[k][o].id_counter = header[k][o].id_counter
  BY <1>2, <1>3, <1>6, Zenon DEF Mine
<1> QED BY <1>0, <1>1, <1>2, <1>3, <1>4, <1>5, <1>6, <1>7, ZenonT(30)

(***************************************************************************)
(* close gives its reference back and forgets the block.                   *)
(***************************************************************************)
LEMMA CloseSubEffect ==
    ASSUME TypeOK, RefcountExact, NEW p \in Procs, Control(p), CloseSub(p)
    PROVE  /\ call[p].kind \in Kinds /\ call[p].object \in Objects /\ p \notin forked
           /\ memory[p][call[p].kind].object = call[p].object /\ forked' = forked
           /\ memory'[p][call[p].kind] = NoBlock
           /\ \A k \in Kinds : k # call[p].kind => memory'[p][k] = memory[p][k]
           /\ header'[call[p].kind][call[p].object].refcount =
                 header[call[p].kind][call[p].object].refcount - 1
           /\ \A k \in Kinds, o \in Objects :
                 /\ header'[k][o].id_counter = header[k][o].id_counter
                 /\ ~ Mine(p, k, o) => header'[k][o].refcount = header[k][o].refcount
<1> DEFINE hdr == [Hdr(p) EXCEPT !.refcount = Hdr(p).refcount - 1]
<1>0. /\ call[p].kind \in Kinds /\ call[p].object \in Objects \cup {None}
      /\ memory \in [Procs -> [Kinds -> Block]] /\ \A k \in Kinds : memory[p][k] \in Block
  BY Zenon DEF TypeOK, Call
<1>1. /\ call[p].object # None /\ p \notin forked
      /\ memory[p][call[p].kind].object = call[p].object
  BY Zenon DEF CloseSub, Control, CloseControl, IdleControl
<1>2. Hdr(p) \in Header /\ Hdr(p) = header[call[p].kind][call[p].object]
  BY <1>1, HdrType, ZenonT(30)
<1>3. Hdr(p).refcount - 1 \in Nat
  <2>1. call[p].kind \in Kinds /\ memory[p][call[p].kind].object \in Objects
    BY <1>0, <1>1, Zenon
  <2>2. header[call[p].kind][memory[p][call[p].kind].object].refcount \in Nat \ {0}
    BY <1>1, <2>1, UserCounts, Zenon
  <2> QED BY <1>1, <1>2, <2>2
<1>4. /\ hdr \in Header /\ hdr.refcount = Hdr(p).refcount - 1
      /\ hdr.id_counter = Hdr(p).id_counter
  BY <1>2, <1>3, Counters, Zenon
<1>5. /\ SetHdr(p, hdr) /\ forked' = forked
      /\ memory' = [memory EXCEPT ![p][call[p].kind] = NoBlock]
  BY Zenon DEF CloseSub
<1> HIDE DEF hdr
<1>6. /\ memory'[p][call[p].kind] = NoBlock
      /\ \A k \in Kinds : k # call[p].kind => memory'[p][k] = memory[p][k]
  BY <1>0, <1>5, SetBlock, Basics
<1>7. /\ header'[call[p].kind][call[p].object] = hdr
      /\ \A k \in Kinds, o \in Objects : ~ Mine(p, k, o) => header'[k][o] = header[k][o]
  BY <1>1, <1>4, <1>5, SetHdrFrame DEF Mine
<1>8. \A k \in Kinds, o \in Objects :
          /\ header'[k][o].id_counter = header[k][o].id_counter
          /\ ~ Mine(p, k, o) => header'[k][o].refcount = header[k][o].refcount
  BY <1>2, <1>4, <1>7, Zenon DEF Mine
<1> QED BY <1>0, <1>1, <1>2, <1>4, <1>5, <1>6, <1>7, <1>8, Zenon
-----------------------------------------------------------------------------
(* Objects that nobody has opened yet *)

(***************************************************************************)
(* How a call comes to the points where it counts itself in or publishes,  *)
(* and what a create call is about to publish: nothing that was not its    *)
(* own, but for a call that has just begun with a new object.              *)
(***************************************************************************)
Moves(p) ==
    /\ pc'[p] = "open_ref" => OpenWait(p)
    /\ pc'[p] = "create_publish" => MutexMade(p)
    /\ calls' \in Nat /\ calls' >= calls
    /\ call'[p].op = "create" =>
          \/ calls' = calls + 1 /\ call'[p].object = calls + 1
          \/ call[p].op = "create" /\ call'[p].object = call[p].object
    /\ \A k \in Kinds, o \in Objects :
          Unpublished(p, k, o)' => Unpublished(p, k, o) \/ o = calls + 1

(***************************************************************************)
(* Every step of a call moves so.                                          *)
(***************************************************************************)
LEMMA CallStep ==
    ASSUME TypeOK, NEW p \in Procs, Control(p), Act(p)
    PROVE  Moves(p)
<1>0. /\ pc \in [Procs -> PC] /\ call \in [Procs -> Call] /\ calls \in Nat
      /\ call[p].kind \in Kinds
  BY UseAssumption, SMTT(30) DEF TypeOK, Call
<1>1. ASSUME pc'[p] \notin Creating \cup {"list_init", "open_ref"},
             calls' \in {calls, calls + 1},
             call'[p].op = "create" =>
                 call[p].op = "create" /\ call'[p].object = call[p].object
      PROVE  Moves(p)
  <2>1. /\ calls' \in Nat
        /\ calls' >= calls
        /\ pc'[p] # "open_ref"
        /\ pc'[p] # "create_publish"
    BY <1>0, <1>1 DEF Creating
  <2>2. \A k \in Kinds, o \in Objects : ~ Unpublished(p, k, o)'
    BY <1>1, Zenon DEF Unpublished
  <2> QED BY <1>1, <2>1, <2>2, Zenon DEF Moves
<1>2. ASSUME pc[p] \in Creating, pc'[p] \in Creating, calls' = calls,
             pc'[p] = "create_publish" => MutexMade(p),
             call'[p].op = call[p].op, call'[p].kind = call[p].kind,
             call'[p].object = call[p].object
      PROVE  Moves(p)
  <2>1. calls' \in Nat /\ calls' >= calls /\ pc'[p] # "open_ref"
    BY <1>0, <1>2 DEF Creating
  <2>2. \A k \in Kinds, o \in Objects : Unpublished(p, k, o)' => Unpublished(p, k, o)
    BY <1>2, Zenon DEF Unpublished
  <2> QED BY <1>2, <2>1, <2>2, Zenon DEF Moves
<1>3. ASSUME CreateFails(p), calls' = calls PROVE Moves(p)
  BY <1>1, <1>3, CreateFailsStep, Basics, Zenon DEF Creating
<1>4. ASSUME OpenFails(p), calls' = calls PROVE Moves(p)
  <2>1. pc'[p] \in {"idle", "close_sub"} /\ call'[p].op # "create"
    BY <1>4, OpenFailsStep, Basics, LocalsOp
  <2> QED BY <1>1, <1>4, <2>1, Zenon DEF Creating
<1>5. ASSUME CloseNext(p), calls' = calls PROVE Moves(p)
  <2>1. pc'[p] \in {"idle", "close_sub"} /\ call'[p].op # "create"
    BY <1>5, CloseNextStep, Basics, LocalsOp
  <2> QED BY <1>1, <1>5, <2>1, Zenon DEF Creating
<1>6. ASSUME NEW op \in {"close", "undo"}, NEW k \in Kinds, CloseBlock(p, op, k), calls' = calls
      PROVE  Moves(p)
  <2>1. pc'[p] = "close_sub" /\ call'[p].op = op
    BY <1>6, CloseBlockStep, LocalsOp
  <2> QED BY <1>1, <1>6, <2>1, Zenon DEF Creating
<1>7. ASSUME NEW l \in PC \ (Creating \cup {"list_init", "open_ref"}), Goto(p, l), calls' = calls,
             call' = call
      PROVE  Moves(p)
  BY <1>0, <1>1, <1>7, Zenon DEF Goto
<1>8. ASSUME NEW l \in {"dead", "fault"}, Die(p, l), calls' = calls
      PROVE  Moves(p)
  <2>1. pc'[p] = l /\ call'[p] = NoCall
    BY <1>0, <1>8, Zenon DEF Die, Goto
  <2> QED BY <1>1, <1>8, <2>1, Basics, Zenon DEF Creating
<1>9. CASE Create(p)
  <2>1. /\ pc'[p] = "create_open" /\ call'[p] = Locals("create", "claims", calls + 1)
        /\ calls' = calls + 1
    BY <1>0, <1>9, Zenon DEF Create, Goto
  <2>2. call'[p].object = calls + 1
    BY <2>1 DEF Locals
  <2>3. \A k \in Kinds, o \in Objects : Unpublished(p, k, o)' => o = calls + 1
    BY <2>2, Zenon DEF Unpublished
  <2> QED BY <1>0, <2>1, <2>2, <2>3 DEF Moves
<1>10. CASE Open(p)
  <2>1. /\ pc'[p] = "open_open" /\ call'[p] = Locals("open", "real", None)
        /\ calls' = calls + 1
    BY <1>0, <1>10, Zenon DEF Open, Goto
  <2> QED BY <1>1, <2>1 DEF Locals, Creating
<1>11. CASE Close(p)
  BY <1>6, <1>11, Basics, Zenon DEF Close
<1>12. CASE Clean(p)
  BY <1>1, <1>12, Zenon DEF Clean, Creating
<1>13. CASE Crash(p)
  BY <1>8, <1>13, Zenon DEF Crash
<1>14. CASE CreateOpen(p)
  BY <1>0, <1>2, <1>3, <1>14, Zenon DEF CreateOpen, Goto, Creating
<1>15. CASE CreateSize(p)
  BY <1>0, <1>2, <1>3, <1>15, Zenon DEF CreateSize, CreateAborts, Goto, Creating
<1>16. CASE CreateFields(p)
  <2>1. CASE Die(p, "fault")
    BY <1>8, <1>16, <2>1, Zenon DEF CreateFields
  <2>2. CASE CreateAborts(p)
    BY <1>3, <1>16, <2>2, Zenon DEF CreateFields, CreateAborts
  <2>3. CASE Goto(p, "create_mutex") /\ UNCHANGED call
    BY <1>0, <1>2, <1>16, <2>3, Zenon DEF CreateFields, Goto, Creating
  <2> QED BY <1>16, <2>1, <2>2, <2>3, Zenon DEF CreateFields
<1>17. CASE CreateMutex(p)
  <2>1. CASE CreateAborts(p)
    BY <1>3, <1>17, <2>1, Zenon DEF CreateMutex, CreateAborts
  <2>2. CASE Goto(p, "create_publish")
    <3>1. MutexMade(p)
      BY <1>0, <1>17, <2>2, MutexStep, Zenon DEF Goto
    <3>2. calls' = calls
      BY <1>17, Zenon DEF CreateMutex
    <3> QED BY <1>2, <3>1, <3>2, Zenon DEF MutexMade, Creating
  <2> QED BY <1>17, <2>1, <2>2, Zenon DEF CreateMutex
<1>18. CASE CreatePublish(p)
  <2>1. CASE call[p].kind = "claims"
    <3>1. pc'[p] = "list_init" /\ call' = call /\ calls' = calls /\ pc[p] \in Creating
      BY <1>0, <1>18, <2>1, Zenon DEF CreatePublish, Goto, Creating
    <3>2. \A k \in Kinds, o \in Objects : Unpublished(p, k, o)' => Unpublished(p, k, o)
      BY <3>1, Zenon DEF Unpublished, Creating
    <3> QED BY <1>0, <3>1, <3>2 DEF Moves
  <2>2. CASE call[p].kind # "claims"
    BY <1>1, <1>18, <2>2, ReturnStep, Basics, Zenon DEF CreatePublish, Creating
  <2> QED BY <2>1, <2>2, Zenon
<1>19. CASE ListInit(p)
  <2>1. CASE call' = [call EXCEPT ![p].kind = "real"] /\ Goto(p, "create_open")
    <3>1. /\ call'[p].op = call[p].op /\ call'[p].object = call[p].object
          /\ call'[p].kind = "real"
      BY <1>0, <2>1, Zenon DEF Call
    <3>2. pc'[p] = "create_open" /\ calls' = calls /\ pc[p] = "list_init"
      BY <1>0, <1>19, <2>1, Zenon DEF ListInit, Goto
    <3>3. call[p].kind = "claims"
      BY <3>2, Zenon DEF Control, CreateControl
    <3>4. \A k \in Kinds, o \in Objects : Unpublished(p, k, o)' => Unpublished(p, k, o)
      BY <3>1, <3>2, <3>3, Zenon DEF Unpublished, Creating
    <3> QED BY <1>0, <3>1, <3>2, <3>4 DEF Moves
  <2>2. CASE CloseBlock(p, "undo", "claims")
    BY <1>6, <1>19, <2>2, Basics, Zenon DEF ListInit
  <2> QED BY <1>19, <2>1, <2>2, Zenon DEF ListInit
<1>20. CASE ListUninit(p)
  BY <1>6, <1>20, Basics, Zenon DEF ListUninit
<1>21. CASE OpenOpen(p)
  <2>1. CASE OpenFails(p)
    BY <1>4, <1>21, <2>1, Zenon DEF OpenOpen
  <2>2. CASE /\ call' = [call EXCEPT ![p].object = linked[call[p].kind]]
             /\ Goto(p, "open_size")
    <3>1. call'[p].op = call[p].op /\ call[p].op = "open"
      BY <1>0, <1>21, <2>2, Zenon DEF OpenOpen, Control, OpenControl, Opens, Call
    <3> QED BY <1>0, <1>1, <1>21, <2>2, <3>1, Zenon DEF OpenOpen, Goto, Creating
  <2> QED BY <1>21, <2>1, <2>2, Zenon DEF OpenOpen
<1>22. CASE OpenSize(p)
  BY <1>4, <1>7, <1>8, <1>22, Zenon DEF OpenSize, PC, Creating
<1>23. CASE OpenWait(p)
  <2>1. pc'[p] = "open_ref" /\ call' = call /\ calls' = calls
    BY <1>0, <1>23, Zenon DEF OpenWait, Goto
  <2>2. \A k \in Kinds, o \in Objects : ~ Unpublished(p, k, o)'
    BY <2>1, Zenon DEF Unpublished, Creating
  <2> QED BY <1>0, <1>23, <2>1, <2>2 DEF Moves
<1>24. CASE OpenRef(p)
  BY <1>7, <1>24, Zenon DEF OpenRef, PC, Creating
<1>25. CASE OpenId(p)
  <2>1. CASE call[p].kind = "real"
    <3>1. /\ call'[p] = Locals("open", "claims", None)
          /\ pc'[p] = "open_open"
          /\ calls' = calls
      BY <1>0, <1>25, <2>1, Zenon DEF OpenId, Goto
    <3> QED BY <1>1, <3>1 DEF Locals, Creating
  <2>2. CASE call[p].kind # "real"
    BY <1>1, <1>25, <2>2, ReturnStep, Basics, Zenon DEF OpenId, Creating
  <2> QED BY <2>1, <2>2, Zenon
<1>26. CASE CloseSub(p) \/ CloseDestroy(p) \/ CloseUnlink(p)
  BY <1>5, <1>7, <1>26, Zenon DEF CloseSub, CloseDestroy, CloseUnlink, PC, Creating
<1> QED BY <1>9, <1>10, <1>11, <1>12, <1>13, <1>14, <1>15, <1>16, <1>17, <1>18, <1>19, <1>20,
           <1>21, <1>22, <1>23, <1>24, <1>25, <1>26, ZenonT(30) DEF Act, Step

(***************************************************************************)
(* An object is new only once: it never becomes unpublished again.         *)
(***************************************************************************)
LEMMA FreshBack ==
    ASSUME TypeOK, NEW p \in Procs, Control(p), Act(p), NEW k \in Kinds, NEW o \in Objects,
           Fresh(k, o)'
    PROVE  Fresh(k, o)
<1>0. calls \in Nat /\ calls' \in Nat /\ calls' >= calls /\ o \in Nat
  <2>1. calls \in Nat
    BY UseAssumption DEF TypeOK
  <2>2. calls' \in Nat /\ calls' >= calls
    BY CallStep, Zenon DEF Moves
  <2> QED BY <2>1, <2>2, Basics, Zenon
<1>1. CASE o > calls'
  BY <1>0, <1>1 DEF Fresh
<1>2. ASSUME NEW q \in Procs, Unpublished(q, k, o)' PROVE Fresh(k, o)
  <2>1. CASE q = p
    <3>1. Unpublished(p, k, o) \/ o = calls + 1
      BY <1>2, <2>1, CallStep, Zenon DEF Moves
    <3> QED BY <1>0, <3>1 DEF Fresh
  <2>2. CASE q # p
    <3>1. pc'[q] = pc[q] /\ call'[q] = call[q]
      BY <2>2, OthersKept, Zenon
    <3>2. Unpublished(q, k, o)
      BY <1>2, <3>1, Zenon DEF Unpublished
    <3> QED BY <3>2, Zenon DEF Fresh
  <2> QED BY <2>1, <2>2, Zenon
<1> QED BY <1>1, <1>2, Zenon DEF Fresh

(***************************************************************************)
(* Two create calls never make the same object.                            *)
(***************************************************************************)
LEMMA CreatorStep ==
    ASSUME TypeOK, \A q \in Procs : Control(q), OneCreator, NEW p \in Procs, Act(p)
    PROVE  OneCreator'
<1>0. calls \in Nat
  BY UseAssumption DEF TypeOK
<1>1. Moves(p)
  BY CallStep, Zenon
<1>2. ASSUME NEW q \in Procs, q # p, call'[p].op = "create", call'[q].op = "create",
             call'[p].object = call'[q].object
      PROVE  FALSE
  <2>1. call'[q] = call[q] /\ call[q].op = "create" /\ call[q].object \in 1 .. calls
    BY <1>2, OthersKept, Zenon DEF Control, CreateControl
  <2>2. call[p].op = "create" /\ call'[p].object = call[p].object
    BY <1>0, <1>1, <1>2, <2>1 DEF Moves
  <2> QED BY <1>2, <2>1, <2>2, Zenon DEF OneCreator
<1>3. ASSUME NEW q \in Procs, NEW r \in Procs, q # p, r # p, call'[q].op = "create",
             call'[r].op = "create", call'[q].object = call'[r].object
      PROVE  q = r
  <2>1. call'[q] = call[q] /\ call'[r] = call[r]
    BY <1>3, OthersKept, Zenon
  <2> QED BY <1>3, <2>1, Zenon DEF OneCreator
<1> QED BY <1>2, <1>3, Zenon DEF OneCreator

(***************************************************************************)
(* What create has published is not new any more.                          *)
(***************************************************************************)
LEMMA PublishedNotFresh ==
    ASSUME TypeOK, \A q \in Procs : Control(q), OneCreator, NEW p \in Procs, CreatePublish(p),
           Act(p), NEW j \in Kinds, NEW n \in Objects, Mine(p, j, n)
    PROVE  ~ Fresh(j, n)'
<1> USE DEF Mine
<1>1. /\ call[p].op = "create" /\ n \in 1 .. calls /\ calls' = calls /\ calls \in Nat
  BY UseAssumption DEF CreatePublish, Control, CreateControl, Creating, TypeOK
<1>2. ~ (n > calls')
  BY <1>1
<1>3. ASSUME NEW q \in Procs, Unpublished(q, j, n)' PROVE FALSE
  <2>1. CASE q # p
    <3>1. call'[q] = call[q]
      BY <2>1, OthersKept, Zenon
    <3> QED BY <1>1, <1>3, <2>1, <3>1, Zenon DEF Unpublished, OneCreator
  <2>2. CASE q = p /\ j = "claims"
    <3>1. pc'[p] = "list_init"
      BY <2>2, Zenon DEF CreatePublish, Goto, TypeOK
    <3> QED BY <1>3, <2>2, <3>1, Zenon DEF Unpublished, Creating
  <2>3. CASE q = p /\ j # "claims"
    <3>1. call'[p] = NoCall
      BY <2>3, ReturnStep, Zenon DEF CreatePublish
    <3> QED BY <1>3, <2>3, <3>1, Basics, Zenon DEF Unpublished
  <2> QED BY <2>1, <2>2, <2>3, Zenon
<1> QED BY <1>2, <1>3, Zenon DEF Fresh
=============================================================================
