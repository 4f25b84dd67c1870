----------------------- MODULE PlannedLifetimeProofs ------------------------
(***************************************************************************)
(* Proofs about the life of ipm_memory objects when open is only called    *)
(* while a handle is sure to stay open and the system refuses no call:     *)
(* every ipm_memory in use is whole and has its names.                     *)
(***************************************************************************)
EXTENDS MemoryObjectProofs

-----------------------------------------------------------------------------
(* The inductive invariant for coordinated opens *)

\* The block k of object o is set up and not yet destroyed.
Made(k, o) ==
    header[k][o].sized /\ header[k][o].block_size /\ header[k][o].mutex = "ready"

Closing == {"close_destroy", "close_unlink"}

\* The blocks of p have their names, are whole, and come from one create call.
Blocks(p) ==
    p \notin forked =>
        /\ \A k \in Kinds : Has(p, k) =>
              linked[k] = memory[p][k].object /\ Made(k, memory[p][k].object)
        /\ Has(p, "claims") /\ Has(p, "real") =>
              /\ memory[p]["claims"].object = memory[p]["real"].object
              /\ header["claims"][memory[p]["claims"].object].list = "ready"

\* How far the block that p makes has come.
Making(p) ==
    pc[p] \in Creating \ {"create_open"} =>
        LET hdr == header[call[p].kind][call[p].object]
        IN /\ linked[call[p].kind] = call[p].object
           /\ pc[p] # "create_size" => hdr.sized
           /\ pc[p] \in {"create_mutex", "create_publish"} => hdr.block_size
           /\ pc[p] = "create_publish" => hdr.mutex = "ready"

\* The claims block that p has made.
Halfway(p) ==
    /\ \/ pc[p] \in {"list_init", "list_uninit"}
       \/ pc[p] \in Creating /\ call[p].kind = "real"
       => memory[p]["claims"].object = call[p].object
    /\ pc[p] \in Creating /\ call[p].kind = "real" =>
          header["claims"][call[p].object].list = "ready"
    /\ pc[p] = "list_uninit" =>
          \A q \in Procs \ forked : memory[q]["real"].object # call[p].object

\* The last user of a block removes it: nobody counts any more.
Removing(p) ==
    pc[p] \in Closing =>
        /\ linked[call[p].kind] = call[p].object
        /\ header[call[p].kind][call[p].object].refcount = 0
        /\ ~ Fresh(call[p].kind, call[p].object)
        /\ \A q \in Procs : pc[q] \in Closing /\ call[q].kind = call[p].kind => q = p

\* An ipm_memory that keeps both blocks open while p opens them.
Anchor(q) == q \notin forked /\ pc[q] \in {"idle", "dead"} /\ \A k \in Kinds : Has(q, k)

Attached(p) ==
    /\ Opening(p) => \E q \in Procs : Anchor(q)
    /\ pc[p] \in {"open_size", "open_wait", "open_ref"} =>
          call[p].object = linked[call[p].kind]

Planned ==
    \A p \in Procs : Blocks(p) /\ Making(p) /\ Halfway(p) /\ Removing(p) /\ Attached(p)
-----------------------------------------------------------------------------
(* What a step does to names, blocks and headers *)

\* A store keeps the lengths; a mild one keeps the mutex and the list too.
Tame(old, new) ==
    /\ new \in Header
    /\ old.sized => new.sized
    /\ old.block_size => new.block_size

Mild(old, new) ==
    /\ Tame(old, new)
    /\ old.mutex = "ready" => new.mutex = "ready"
    /\ old.list = "ready" => new.list = "ready"

(***************************************************************************)
(* The stores of create, claim_list_init, open and close to one header.    *)
(***************************************************************************)
LEMMA StoresTame ==
    ASSUME NEW hdr \in Header
    PROVE  /\ Mild(hdr, [hdr EXCEPT !.sized = TRUE])
           /\ Mild(hdr, [hdr EXCEPT !.block_size = TRUE])
           /\ Mild(hdr, [hdr EXCEPT !.mutex = "ready", !.id_counter = 2])
           /\ Mild(hdr, [hdr EXCEPT !.list = "ready"])
           /\ \A n \in Nat : /\ Mild(hdr, [hdr EXCEPT !.refcount = n])
                           /\ Mild(hdr, [hdr EXCEPT !.id_counter = n])
           /\ \A l \in ListLife : /\ Tame(hdr, [hdr EXCEPT !.list = l])
                            /\ [hdr EXCEPT !.list = l].mutex = hdr.mutex
                            /\ Tame(hdr, [hdr EXCEPT !.mutex = "destroyed", !.list = l])
                            /\ [hdr EXCEPT !.mutex = "destroyed", !.list = l].list = l
BY ZenonT(30) DEF Header, Life, ListLife, Tame, Mild

\* What p does to the header of object o of kind k.
Stores(p, k, o) ==
    /\ Tame(header[k][o], header'[k][o])
    /\ header[k][o].mutex = "ready" /\ header'[k][o].mutex # "ready" =>
          pc[p] = "close_destroy" /\ Mine(p, k, o)
    /\ header[k][o].list = "ready" /\ header'[k][o].list # "ready" =>
          /\ k = "claims" /\ o = call[p].object
          /\ \/ pc[p] = "list_uninit"
             \/ pc[p] = "close_destroy" /\ call[p].kind = "claims"

(***************************************************************************)
(* A mutex that is ready is destroyed by close only, and the list of       *)
(* claims by close or by the exit of a create that failed; a block that    *)
(* has a length keeps it.                                                  *)
(***************************************************************************)
LEMMA StoresStep ==
    ASSUME ~ MayFail, TypeOK, RefcountExact, NEW p \in Procs, Control(p), Act(p),
           NEW k \in Kinds, NEW o \in Objects
    PROVE  Stores(p, k, o)
<1> DEFINE old == header[k][o]
<1>0. /\ old \in Header /\ calls \in Nat
      /\ call[p].kind \in Kinds /\ call[p].object \in Objects \cup {None}
      /\ header \in [Kinds -> [Objects -> Header]]
  BY UseAssumption DEF TypeOK, Call
<1>1. ASSUME header' = header PROVE Stores(p, k, o)
  BY <1>0, <1>1, Zenon DEF Stores, Tame
<1>2. ASSUME pc[p] \in Creating \cup {"list_init", "list_uninit"}
      PROVE  call[p].object # None /\ call[p].object \in Objects
  <2>1. call[p].object \in 1 .. calls
    BY <1>2, Zenon DEF Control, CreateControl
  <2> QED BY <1>0, <2>1, Basics
<1>3. ASSUME call[p].object # None, NEW hdr, SetHdr(p, hdr), Mild(Hdr(p), hdr)
      PROVE  Stores(p, k, o)
  <2>0. hdr \in Header
    BY <1>3, Zenon DEF Mild, Tame
  <2>1. CASE Mine(p, k, o)
    <3>1. header'[k][o] = hdr /\ Hdr(p) = header[k][o]
      BY <1>3, <2>0, <2>1, SetHdrFrame, HdrType, Zenon DEF Mine
    <3> QED BY <1>3, <3>1, Zenon DEF Stores, Mild
  <2>2. CASE ~ Mine(p, k, o)
    <3>1. header'[k][o] = header[k][o]
      BY <1>3, <2>0, <2>2, SetHdrFrame, ZenonT(30) DEF Mine
    <3> QED BY <1>0, <3>1, Zenon DEF Stores, Tame
  <2> QED BY <2>1, <2>2, Zenon
<1>4. ASSUME call[p].object # None
      PROVE  Hdr(p) \in Header /\ Hdr(p).refcount \in Nat /\ Hdr(p).id_counter \in Nat
  BY <1>4, HdrType, Zenon
<1>5. CASE Create(p) \/ Open(p) \/ Close(p) \/ Clean(p) \/ Crash(p)
  BY <1>1, <1>5, Zenon DEF Create, Open, Close, Clean, Crash
<1>6. CASE CreateOpen(p) \/ OpenOpen(p) \/ OpenSize(p) \/ OpenWait(p) \/ CloseUnlink(p)
  BY <1>1, <1>6, Zenon DEF CreateOpen, OpenOpen, OpenSize, OpenWait, CloseUnlink
<1>7. CASE CreateSize(p)
  <2>1. call[p].object # None
    BY <1>2, <1>7, Zenon DEF CreateSize, Creating
  <2>2. CASE CreateAborts(p)
    BY <1>1, <2>2, Zenon DEF CreateAborts
  <2>3. CASE SetHdr(p, [Hdr(p) EXCEPT !.sized = TRUE])
    BY <1>3, <1>4, <2>1, <2>3, StoresTame, Zenon
  <2> QED BY <1>7, <2>2, <2>3, Zenon DEF CreateSize
<1>8. CASE CreateFields(p)
  <2>1. call[p].object # None
    BY <1>2, <1>8, Zenon DEF CreateFields, Creating
  <2>2. CASE CreateAborts(p) \/ UNCHANGED header
    BY <1>1, <2>2, Zenon DEF CreateAborts
  <2>3. CASE SetHdr(p, [Hdr(p) EXCEPT !.block_size = TRUE])
    BY <1>3, <1>4, <2>1, <2>3, StoresTame, Zenon
  <2> QED BY <1>8, <2>2, <2>3, Zenon DEF CreateFields
<1>9. CASE CreateMutex(p)
  <2>1. call[p].object # None
    BY <1>2, <1>9, Zenon DEF CreateMutex, Creating
  <2>2. CASE CreateAborts(p)
    BY <1>1, <2>2, Zenon DEF CreateAborts
  <2>3. CASE SetHdr(p, [Hdr(p) EXCEPT !.mutex = "ready", !.id_counter = 2])
    BY <1>3, <1>4, <2>1, <2>3, StoresTame, Zenon
  <2> QED BY <1>9, <2>2, <2>3, Zenon DEF CreateMutex
<1>10. CASE CreatePublish(p)
  <2>1. call[p].object # None /\ 1 \in Nat
    BY <1>2, <1>10, Zenon DEF CreatePublish, Creating
  <2>2. SetHdr(p, [Hdr(p) EXCEPT !.refcount = 1])
    BY <1>10, Zenon DEF CreatePublish
  <2> QED BY <1>3, <1>4, <2>1, <2>2, StoresTame, Zenon
<1>11. CASE ListInit(p)
  <2>1. call[p].object # None
    BY <1>2, <1>11, Zenon DEF ListInit
  <2>2. CASE SetHdr(p, [Hdr(p) EXCEPT !.list = "ready"])
    BY <1>3, <1>4, <2>1, <2>2, StoresTame, Zenon
  <2>3. CASE UNCHANGED header
    BY <1>1, <2>3, Zenon
  <2> QED BY <1>11, <2>2, <2>3, Zenon DEF ListInit
<1>12. CASE ListUninit(p)
  <2> DEFINE n == call[p].object
  <2>1. n \in Objects /\ pc[p] = "list_uninit"
    BY <1>2, <1>12, Zenon DEF ListUninit
  <2>2. header' = [header EXCEPT !["claims"][n].list = "destroyed"]
    BY <1>12, Zenon DEF ListUninit
  <2> HIDE DEF n
  <2>3. CASE k = "claims" /\ o = n
    <3>1. header'[k][o] = [old EXCEPT !.list = "destroyed"]
      BY <1>0, <2>1, <2>2, <2>3, Basics, Zenon
    <3>2. "destroyed" \in ListLife
      BY Zenon DEF Life, ListLife
    <3>3. Tame(old, header'[k][o]) /\ header'[k][o].mutex = old.mutex
      <4>1. /\ Tame(old, [old EXCEPT !.list = "destroyed"])
            /\ [old EXCEPT !.list = "destroyed"].mutex = old.mutex
        BY <1>0, <3>2, StoresTame, Zenon
      <4> HIDE DEF old
      <4> QED BY <3>1, <4>1, Zenon
    <3> QED BY <2>1, <2>3, <3>3, Zenon DEF Stores, n
  <2>4. CASE ~ (k = "claims" /\ o = n)
    <3>1. header'[k][o] = header[k][o]
      BY <1>0, <2>1, <2>2, <2>4, Basics, Zenon
    <3> QED BY <1>0, <3>1, Zenon DEF Stores, Tame
  <2> QED BY <2>3, <2>4, Zenon
<1>13. CASE OpenRef(p)
  <2>1. call[p].object # None
    BY <1>13, Zenon DEF OpenRef, Control, OpenControl, Opens
  <2>2. /\ SetHdr(p, [Hdr(p) EXCEPT !.refcount = Hdr(p).refcount + 1])
        /\ Hdr(p).refcount + 1 \in Nat
    BY <1>4, <1>13, <2>1 DEF OpenRef
  <2> QED BY <1>3, <1>4, <2>1, <2>2, StoresTame, Zenon
<1>14. CASE OpenId(p)
  <2>1. call[p].object # None
    BY <1>14, Zenon DEF OpenId, Control, OpenControl, Opens
  <2>2. /\ SetHdr(p, [Hdr(p) EXCEPT !.id_counter = Hdr(p).id_counter + 1])
        /\ Hdr(p).id_counter + 1 \in Nat
    BY <1>4, <1>14, <2>1 DEF OpenId
  <2> QED BY <1>3, <1>4, <2>1, <2>2, StoresTame, Zenon
<1>15. CASE CloseSub(p)
  <2>1. /\ call[p].object # None /\ call[p].object \in Objects /\ p \notin forked
        /\ memory[p][call[p].kind].object = call[p].object
    BY <1>0, <1>15, CloseSubEffect, Basics, Zenon
  <2>2. Hdr(p).refcount \in Nat \ {0}
    BY <1>0, <2>1, UserCounts, Zenon DEF Hdr
  <2>3. /\ SetHdr(p, [Hdr(p) EXCEPT !.refcount = Hdr(p).refcount - 1])
        /\ Hdr(p).refcount - 1 \in Nat
    BY <1>15, <2>2 DEF CloseSub
  <2> QED BY <1>3, <1>4, <2>1, <2>3, StoresTame, Zenon
<1>16. CASE CloseDestroy(p)
  <2> DEFINE l == IF call[p].op = "close" /\ call[p].kind = "claims"
                  THEN "destroyed" ELSE Hdr(p).list
             hdr == [Hdr(p) EXCEPT !.mutex = "destroyed", !.list = l]
  <2>1. call[p].object # None /\ pc[p] = "close_destroy"
    BY <1>16, Zenon DEF CloseDestroy, Control, CloseControl
  <2>2. l \in ListLife /\ Hdr(p) \in Header
    BY <2>1, HdrType, Zenon DEF Life, ListLife
  <2>3. SetHdr(p, hdr)
    BY <1>16, Zenon DEF CloseDestroy
  <2>4. l = Hdr(p).list \/ call[p].kind = "claims"
    BY Zenon
  <2> HIDE DEF l
  <2>5. Tame(Hdr(p), hdr) /\ hdr \in Header /\ hdr.list = l
    BY <2>2, StoresTame, Zenon DEF Tame
  <2> HIDE DEF hdr
  <2>6. CASE Mine(p, k, o)
    <3>1. header'[k][o] = hdr /\ Hdr(p) = header[k][o]
      BY <2>1, <2>3, <2>5, <2>6, SetHdrFrame, HdrType, ZenonT(30) DEF Mine
    <3> QED BY <2>1, <2>4, <2>5, <2>6, <3>1, ZenonT(30) DEF Stores, Mine
  <2>7. CASE ~ Mine(p, k, o)
    <3>1. header'[k][o] = header[k][o]
      BY <2>1, <2>3, <2>5, <2>7, SetHdrFrame, ZenonT(30) DEF Mine
    <3> QED BY <1>0, <3>1, Zenon DEF Stores, Tame
  <2> QED BY <2>6, <2>7, Zenon
<1> QED BY <1>5, <1>6, <1>7, <1>8, <1>9, <1>10, <1>11, <1>12, <1>13, <1>14, <1>15, <1>16, Zenon
        DEF Act, Step

(***************************************************************************)
(* A process gets a block by publishing it or by adding its reference.     *)
(***************************************************************************)
LEMMA HasStep ==
    ASSUME Inv, NEW p \in Procs, Act(p), NEW k \in Kinds, p \notin forked', Has(p, k)'
    PROVE  /\ memory'[p][k].object \in Objects
           /\ \/ p \notin forked /\ memory'[p][k].object = memory[p][k].object
              \/ /\ CreatePublish(p) \/ OpenRef(p)
                 /\ Mine(p, k, memory'[p][k].object)
<1>0. TypeOK /\ Control(p) /\ RefcountExact
  BY Zenon DEF Inv
<1>1. memory' \in [Procs -> [Kinds -> Block]]
  BY <1>0, TypeStep, Zenon DEF TypeOK
<1>2. memory'[p][k].object \in Objects
  BY <1>1, Zenon DEF Has, Block
<1>3. CASE Quiet \/ MutexMade(p)
  BY <1>2, <1>3, Zenon DEF Quiet, MutexMade
<1>4. CASE Clean(p)
  <2>1. memory'[p] = NoMemory
    BY <1>0, <1>4, Zenon DEF Clean, TypeOK
  <2> QED BY <2>1, Basics, Zenon DEF NoMemory, Has
<1>5. CASE CreatePublish(p)
  BY <1>0, <1>2, <1>5, PublishEffect, Zenon DEF Mine
<1>6. CASE OpenRef(p)
  BY <1>0, <1>2, <1>6, OpenRefEffect, ZenonT(30) DEF Mine
<1>7. CASE OpenId(p)
  BY <1>0, <1>2, <1>7, OpenIdEffect
<1>8. CASE CloseSub(p)
  BY <1>0, <1>2, <1>8, CloseSubEffect, Basics DEF Has
<1> QED BY <1>0, <1>3, <1>4, <1>5, <1>6, <1>7, <1>8, QuietStep, ZenonT(30)
-----------------------------------------------------------------------------
(* The invariant for coordinated opens is kept *)

(***************************************************************************)
(* A block that somebody has open keeps its name and stays set up: only    *)
(* the last user removes a block, and nobody makes it again.               *)
(***************************************************************************)
LEMMA InUseStays ==
    ASSUME ~ MayFail, Inv, Planned, NEW p \in Procs, Act(p), NEW q \in Procs, q \notin forked,
           NEW k \in Kinds, NEW o \in Objects, memory[q][k].object = o
    PROVE  linked[k] = o /\ linked'[k] = o /\ Made(k, o) /\ Made(k, o)'
<1>0. TypeOK /\ RefcountExact /\ Control(p) /\ o # None
  BY Basics, Zenon DEF Inv
<1>1. linked[k] = o /\ Made(k, o)
  BY <1>0, Zenon DEF Planned, Blocks, Has
<1>2. header[k][o].refcount # 0
  BY <1>0, UserCounts, Zenon
<1>3. ASSUME pc[p] \in Closing, call[p].kind = k PROVE FALSE
  BY <1>1, <1>2, <1>3, ZenonT(30) DEF Planned, Removing
<1>4. linked'[k] = o
  BY <1>0, <1>1, <1>3, LinkedStep, Zenon DEF Closing
<1>5. Stores(p, k, o)
  BY <1>0, StoresStep, Zenon
<1>6. Made(k, o)'
  BY <1>1, <1>3, <1>5, Zenon DEF Made, Stores, Tame, Mine, Closing
<1> QED BY <1>1, <1>4, <1>6, Zenon

(***************************************************************************)
(* The blocks that p opens are the ones that somebody has open.            *)
(***************************************************************************)
LEMMA OpensWhatIsOpen ==
    ASSUME Inv, Planned, NEW p \in Procs, Opening(p)
    PROVE  \E a \in Procs, o \in Objects :
              /\ a \notin forked /\ Anchor(a)
              /\ \A k \in Kinds : memory[a][k].object = o /\ linked[k] = o
              /\ header["claims"][o].list = "ready"
<1>1. PICK a \in Procs : Anchor(a)
  BY Zenon DEF Planned, Attached
<1>2. a \notin forked /\ Has(a, "claims") /\ Has(a, "real") /\ Blocks(a)
  BY <1>1, Basics, Zenon DEF Anchor, Planned
<1> DEFINE o == memory[a]["claims"].object
<1>3. o \in Objects
  BY <1>2, Basics DEF Has, Inv, TypeOK, Block
<1>4. /\ memory[a]["real"].object = o /\ header["claims"][o].list = "ready"
      /\ linked["claims"] = o /\ linked["real"] = o
  BY <1>2, Basics, Zenon DEF Blocks
<1> HIDE DEF o
<1>5. memory[a]["claims"].object = o
  BY Zenon DEF o
<1>6. \A k \in Kinds : memory[a][k].object = o /\ linked[k] = o
  BY <1>4, <1>5, Zenon DEF Kinds
<1> QED BY <1>1, <1>2, <1>3, <1>4, <1>6, Zenon

(***************************************************************************)
(* The list of claims of a whole ipm_memory is destroyed under nobody: by  *)
(* the last user only, or before the real memory was published.            *)
(***************************************************************************)
LEMMA ListStays ==
    ASSUME ~ MayFail, Inv, Planned, NEW p \in Procs, Act(p), NEW q \in Procs, q \notin forked,
           NEW o \in Objects, memory[q]["claims"].object = o,
           header["claims"][o].list = "ready",
           pc[p] = "list_uninit" /\ call[p].object = o => memory[q]["real"].object = o
    PROVE  header'["claims"][o].list = "ready"
<1>0. TypeOK /\ RefcountExact /\ Control(p) /\ o # None /\ "claims" \in Kinds
  BY Basics, Zenon DEF Inv
<1>1. Stores(p, "claims", o)
  BY <1>0, StoresStep, Zenon
<1>2. header["claims"][o].refcount # 0
  BY <1>0, UserCounts, Zenon
<1>3. ~ (pc[p] = "close_destroy" /\ call[p].kind = "claims" /\ call[p].object = o)
  BY <1>2, Zenon DEF Planned, Removing, Closing
<1>4. ~ (pc[p] = "list_uninit" /\ call[p].object = o)
  BY Zenon DEF Planned, Halfway
<1> QED BY <1>1, <1>3, <1>4, Zenon DEF Stores

(***************************************************************************)
(* A block that p comes to have is one that p has made, or that somebody   *)
(* else has open.                                                          *)
(***************************************************************************)
LEMMA NewBlock ==
    ASSUME ~ MayFail, Inv, Planned, NEW p \in Procs, Act(p), NEW k \in Kinds,
           NEW o \in Objects, Mine(p, k, o), CreatePublish(p) \/ OpenRef(p)
    PROVE  linked'[k] = o /\ Made(k, o)'
<1>0. TypeOK /\ RefcountExact /\ Control(p) /\ o # None
  BY Basics, Zenon DEF Inv
<1>1. CASE CreatePublish(p)
  <2>1. linked' = linked /\ pc[p] = "create_publish"
    BY <1>1, Zenon DEF CreatePublish
  <2>2. linked[k] = o /\ Made(k, o)
    BY <2>1, Zenon DEF Planned, Making, Creating, Mine, Made
  <2>3. Stores(p, k, o)
    BY <1>0, StoresStep, Zenon
  <2> QED BY <2>1, <2>2, <2>3, Zenon DEF Stores, Made, Tame
<1>2. CASE OpenRef(p)
  <2>1. Opening(p) /\ linked[k] = o
    BY <1>0, <1>2, Zenon DEF OpenRef, Control, OpenControl, Opens, Opening, Planned, Attached, Mine
  <2>2. PICK a \in Procs : a \notin forked /\ memory[a][k].object = linked[k]
    BY <2>1, OpensWhatIsOpen, Zenon
  <2> QED BY <2>1, <2>2, InUseStays, ZenonT(30)
<1> QED BY <1>1, <1>2, Zenon

(***************************************************************************)
(* The blocks of every ipm_memory keep their names and stay whole.         *)
(***************************************************************************)
LEMMA BlocksStep ==
    ASSUME ~ MayFail, Inv, Planned, NEW p \in Procs, Act(p), NEW q \in Procs
    PROVE  Blocks(q)'
<1> SUFFICES ASSUME q \notin forked' PROVE Blocks(q)'
  BY Zenon DEF Blocks
<1>0. /\ TypeOK /\ RefcountExact /\ Control(p) /\ "claims" \in Kinds /\ "real" \in Kinds
      /\ "claims" # "real"
  BY Basics, Zenon DEF Inv
<1>1. ASSUME NEW k \in Kinds, Has(q, k)'
      PROVE  /\ memory'[q][k].object \in Objects
             /\ \/ q \notin forked /\ memory'[q][k].object = memory[q][k].object
                \/ /\ q = p /\ (CreatePublish(p) \/ OpenRef(p))
                   /\ Mine(p, k, memory'[q][k].object)
  <2>1. CASE q = p
    BY <1>1, <2>1, HasStep, Zenon
  <2>2. CASE q # p
    <3>1. q \notin forked /\ memory'[q] = memory[q]
      BY <1>0, <2>2, OthersKept, Zenon
    <3> QED BY <1>0, <1>1, <3>1, Basics DEF Has, TypeOK, Block
  <2> QED BY <2>1, <2>2, Zenon
<1>2. ASSUME NEW k \in Kinds, NEW o \in Objects, memory'[q][k].object = o
      PROVE  linked'[k] = o /\ Made(k, o)'
  <2>1. CASE q \notin forked /\ memory[q][k].object = o
    BY <2>1, InUseStays
  <2>2. CASE (CreatePublish(p) \/ OpenRef(p)) /\ Mine(p, k, o)
    BY <2>2, NewBlock, Zenon
  <2>3. Has(q, k)'
    BY <1>2, Basics, Zenon DEF Has
  <2> QED BY <1>1, <1>2, <2>1, <2>2, <2>3, Zenon
<1>3. ASSUME Has(q, "claims")', Has(q, "real")'
      PROVE  \E o \in Objects :
                /\ memory'[q]["claims"].object = o /\ memory'[q]["real"].object = o
                /\ header'["claims"][o].list = "ready"
  <2>1. CASE /\ q \notin forked /\ memory'[q]["claims"].object = memory[q]["claims"].object
             /\ memory'[q]["real"].object = memory[q]["real"].object
    <3> DEFINE o == memory[q]["claims"].object
    <3>1. o \in Objects
      BY <1>0, <1>1, <1>3, <2>1, Zenon
    <3>2. Has(q, "claims") /\ Has(q, "real")
      BY <1>3, <2>1, Zenon DEF Has
    <3>3. memory[q]["real"].object = o /\ header["claims"][o].list = "ready"
      BY <2>1, <3>2, Zenon DEF Planned, Blocks
    <3> HIDE DEF o
    <3>4. memory[q]["claims"].object = o
      BY Zenon DEF o
    <3>5. header'["claims"][o].list = "ready"
      BY <2>1, <3>1, <3>3, <3>4, ListStays, ZenonT(30)
    <3> QED BY <2>1, <3>1, <3>3, <3>4, <3>5, ZenonT(30)
  <2>2. CASE q = p /\ CreatePublish(p)
    <3>1. /\ pc[p] = "create_publish" /\ call[p].kind \in Kinds /\ call[p].object \in Objects
          /\ p \notin forked
          /\ memory'[p][call[p].kind].object = call[p].object
          /\ \A k \in Kinds : k # call[p].kind => memory'[p][k] = memory[p][k]
      BY <1>0, <2>2, PublishEffect, Zenon DEF CreatePublish
    <3>2. memory[p]["real"] = NoBlock
      BY <1>0, <3>1, Zenon DEF Control, CreateControl, Creating, Without
    <3>3. call[p].kind = "real"
      BY <1>0, <1>3, <2>2, <3>1, <3>2, Basics, ZenonT(30) DEF Has, Kinds
    <3>4. /\ memory[p]["claims"].object = call[p].object
          /\ header["claims"][call[p].object].list = "ready"
      BY <3>1, <3>3, Zenon DEF Planned, Halfway, Creating
    <3>5. header'["claims"][call[p].object].list = "ready"
      BY <3>1, <3>4, ListStays, Zenon
    <3> QED BY <1>0, <2>2, <3>1, <3>3, <3>4, <3>5, ZenonT(30)
  <2>3. CASE q = p /\ OpenRef(p)
    <3>1. /\ pc[p] = "open_ref" /\ call[p].kind \in Kinds /\ call[p].object \in Objects
          /\ p \notin forked
          /\ memory'[p][call[p].kind].object = call[p].object
          /\ \A k \in Kinds : k # call[p].kind => memory'[p][k] = memory[p][k]
      BY <1>0, <2>3, OpenRefEffect, Zenon DEF OpenRef
    <3>2. memory[p]["claims"] = NoBlock /\ Opening(p)
      BY <1>0, <3>1, Zenon DEF Control, OpenControl, Opens, Without, Opening
    <3>3. call[p].kind = "claims" /\ Has(p, "real")
      BY <1>0, <1>3, <2>3, <3>1, <3>2, Basics, ZenonT(30) DEF Has, Kinds
    <3>4. PICK a \in Procs, o \in Objects :
              /\ a \notin forked /\ Anchor(a)
              /\ \A k \in Kinds : memory[a][k].object = o /\ linked[k] = o
              /\ header["claims"][o].list = "ready"
      BY <3>2, OpensWhatIsOpen, Zenon
    <3>5. header'["claims"][o].list = "ready"
      BY <1>0, <3>4, ListStays, Zenon
    <3>6. call[p].object = o
      BY <1>0, <3>1, <3>3, <3>4, Zenon DEF Planned, Attached
    <3>7. memory[p]["real"].object = o
      BY <1>0, <3>1, <3>3, <3>4, Zenon DEF Planned, Blocks
    <3> QED BY <1>0, <2>3, <3>1, <3>3, <3>5, <3>6, <3>7, ZenonT(30)
  <2> QED BY <1>0, <1>1, <1>3, <2>1, <2>2, <2>3, ZenonT(30)
<1>4. ASSUME Has(q, "claims")', Has(q, "real")'
      PROVE  /\ memory'[q]["claims"].object = memory'[q]["real"].object
             /\ header'["claims"][memory'[q]["claims"].object].list = "ready"
  BY <1>3, <1>4, Zenon
<1>5. ASSUME NEW k \in Kinds, Has(q, k)'
      PROVE  linked'[k] = memory'[q][k].object /\ Made(k, memory[q][k].object)'
  <2>1. PICK o \in Objects : memory'[q][k].object = o
    BY <1>1, <1>5, Zenon
  <2>2. linked'[k] = o /\ Made(k, o)'
    BY <1>2, <2>1, Zenon
  <2> QED BY <2>1, <2>2, Zenon DEF Made
<1> QED BY <1>4, <1>5, Zenon DEF Blocks

\* How a call comes to where it is.
Targets(p) ==
    /\ pc'[p] \in Creating \ {"create_open"} =>
          CreateOpen(p) \/ CreateSize(p) \/ CreateFields(p) \/ CreateMutex(p)
    /\ pc'[p] = "create_open" => Create(p) \/ ListInit(p)
    /\ pc'[p] = "list_init" => CreatePublish(p)
    /\ pc'[p] = "list_uninit" => CreateOpen(p) \/ MayFail
    /\ pc'[p] \in Closing => CloseSub(p) \/ CloseDestroy(p)
    /\ pc'[p] \in {"open_size", "open_wait", "open_ref"} =>
          OpenOpen(p) \/ OpenSize(p) \/ OpenWait(p)
    /\ pc'[p] = "fault" => MayFail \/ (OpenSize(p) /\ ~ Hdr(p).sized)
    /\ call'[p].op = "open" => call[p].op = "open" \/ Open(p)

(***************************************************************************)
(* The steps of create, open and close follow each other so.               *)
(***************************************************************************)
LEMMA TargetsStep ==
    ASSUME TypeOK, NEW p \in Procs, Control(p), Act(p)
    PROVE  Targets(p)
<1>0. pc \in [Procs -> PC] /\ call \in [Procs -> Call] /\ NoCall.op # "open"
  BY Basics, Zenon DEF TypeOK
<1> USE DEF Creating, Closing
<1>1. ASSUME pc'[p] \in {"idle", "open_open", "open_id", "close_sub", "dead"},
             call'[p].op = "open" => call[p].op = "open" \/ Open(p)
      PROVE  Targets(p)
  BY <1>1, Zenon DEF Targets
<1>2. CASE Create(p)
  BY <1>0, <1>2, Zenon DEF Create, Goto, Targets, Locals
<1>3. CASE Open(p)
  BY <1>0, <1>1, <1>3, Zenon DEF Open, Goto
<1>4. ASSUME NEW op \in {"close", "undo"}, NEW k \in Kinds, CloseBlock(p, op, k)
      PROVE  Targets(p)
  BY <1>1, <1>4, CloseBlockStep, LocalsOp
<1>5. CASE Close(p)
  BY <1>4, <1>5, Basics, Zenon DEF Close
<1>6. CASE Clean(p)
  BY <1>0, <1>1, <1>6, Zenon DEF Clean
<1>7. CASE Crash(p)
  BY <1>0, <1>1, <1>7, Zenon DEF Crash, Die, Goto
<1>8. CASE CreateOpen(p)
  <2>1. CASE CreateFails(p)
    BY <1>0, <1>8, <2>1, CreateFailsStep, Zenon DEF Targets
  <2>2. CASE Goto(p, "create_size") /\ UNCHANGED call
    BY <1>0, <1>8, <2>2, Zenon DEF Goto, Targets
  <2> QED BY <1>8, <2>1, <2>2, Zenon DEF CreateOpen
<1>9. ASSUME CreateAborts(p) PROVE Targets(p)
  BY <1>0, <1>9, CreateFailsStep, Zenon DEF Targets, CreateAborts
<1>10. CASE CreateSize(p)
  BY <1>0, <1>9, <1>10, Zenon DEF CreateSize, Goto, Targets
<1>11. CASE CreateFields(p)
  BY <1>0, <1>9, <1>11, Zenon DEF CreateFields, Goto, Die, Targets
<1>12. CASE CreateMutex(p)
  <2>1. CASE CreateAborts(p)
    BY <1>9, <2>1, Zenon
  <2>2. CASE call' = [call EXCEPT ![p].access_id = 1] /\ Goto(p, "create_publish")
    <3>1. call'[p].op = call[p].op
      BY <1>0, <2>2, Zenon DEF Call
    <3> QED BY <1>0, <1>12, <2>2, <3>1, Zenon DEF Goto, Targets
  <2> QED BY <1>12, <2>1, <2>2, Zenon DEF CreateMutex
<1>13. CASE CreatePublish(p)
  BY <1>0, <1>1, <1>13, ReturnStep, Zenon DEF CreatePublish, Goto, Targets
<1>14. CASE ListInit(p)
  <2>1. CASE call' = [call EXCEPT ![p].kind = "real"] /\ Goto(p, "create_open")
    <3>1. call'[p].op = call[p].op
      BY <1>0, <2>1, Zenon DEF Call
    <3> QED BY <1>0, <1>14, <2>1, <3>1, Zenon DEF Goto, Targets
  <2>2. CASE CloseBlock(p, "undo", "claims")
    BY <1>4, <2>2, Basics, Zenon
  <2> QED BY <1>14, <2>1, <2>2, Zenon DEF ListInit
<1>15. CASE ListUninit(p)
  BY <1>4, <1>15, Basics, Zenon DEF ListUninit
<1>16. ASSUME OpenFails(p) PROVE Targets(p)
  BY <1>0, <1>1, <1>16, OpenFailsStep, LocalsOp
<1>17. CASE OpenOpen(p)
  <2>1. CASE call' = [call EXCEPT ![p].object = linked[call[p].kind]] /\ Goto(p, "open_size")
    <3>1. call'[p].op = call[p].op
      BY <1>0, <2>1, Zenon DEF Call
    <3> QED BY <1>0, <1>17, <2>1, <3>1, Zenon DEF Goto, Targets
  <2> QED BY <1>16, <1>17, <2>1, Zenon DEF OpenOpen
<1>18. CASE OpenSize(p)
  <2>1. CASE (~ Hdr(p).sized \/ MayFail) /\ Die(p, "fault")
    BY <1>0, <1>18, <2>1, Zenon DEF Die, Goto, Targets
  <2>2. CASE Goto(p, "open_wait") /\ UNCHANGED call
    BY <1>0, <1>18, <2>2, Zenon DEF Goto, Targets
  <2> QED BY <1>16, <1>18, <2>1, <2>2, ZenonT(30) DEF OpenSize
<1>19. CASE OpenWait(p)
  BY <1>0, <1>19, Zenon DEF OpenWait, Goto, Targets
<1>20. CASE OpenRef(p)
  BY <1>0, <1>1, <1>20, Zenon DEF OpenRef, Goto
<1>21. CASE OpenId(p)
  <2>1. call[p].op = "open"
    BY <1>21, Zenon DEF OpenId, Control, OpenControl
  <2> QED BY <1>0, <1>1, <1>21, <2>1, ReturnStep, Zenon DEF OpenId, Goto
<1>22. ASSUME CloseNext(p) PROVE Targets(p)
  BY <1>0, <1>1, <1>22, CloseNextStep, LocalsOp
<1>23. CASE CloseSub(p)
  BY <1>0, <1>22, <1>23, Zenon DEF CloseSub, Goto, Targets
<1>24. CASE CloseDestroy(p)
  BY <1>0, <1>24, Zenon DEF CloseDestroy, Goto, Targets
<1>25. CASE CloseUnlink(p)
  BY <1>22, <1>25, Zenon DEF CloseUnlink
<1> QED BY <1>2, <1>3, <1>5, <1>6, <1>7, <1>8, <1>10, <1>11, <1>12, <1>13, <1>14, <1>15, <1>17,
           <1>18, <1>19, <1>20, <1>21, <1>23, <1>24, <1>25, ZenonT(30) DEF Act, Step

(***************************************************************************)
(* A block that is being made keeps its name and what was set up: nobody   *)
(* else removes it.                                                        *)
(***************************************************************************)
LEMMA MakingKept ==
    ASSUME ~ MayFail, Inv, Planned, NEW p \in Procs, Act(p), NEW q \in Procs,
           pc[q] \in Creating \ {"create_open"}, NEW k \in Kinds, NEW o \in Objects,
           Mine(q, k, o)
    PROVE  /\ linked[k] = o /\ linked'[k] = o
           /\ Tame(header[k][o], header'[k][o])
           /\ header[k][o].mutex = "ready" => header'[k][o].mutex = "ready"
<1>0. TypeOK /\ RefcountExact /\ Control(p) /\ Control(q) /\ o # None
  BY Basics, Zenon DEF Inv
<1>1. linked[k] = o
  BY Zenon DEF Planned, Making, Mine
<1>2. Fresh(k, o)
  BY <1>0, Zenon DEF Control, CreateControl, Fresh, Unpublished, Mine
<1>3. ~ (pc[p] \in Closing /\ call[p].kind = k)
  BY <1>1, <1>2, ZenonT(30) DEF Planned, Removing
<1>4. linked'[k] = o
  BY <1>0, <1>1, <1>3, LinkedStep, Zenon DEF Closing
<1>5. Stores(p, k, o)
  BY <1>0, StoresStep, Zenon
<1> QED BY <1>1, <1>3, <1>4, <1>5, Zenon DEF Stores, Mine, Closing

(***************************************************************************)
(* create sets up its block in order.                                      *)
(***************************************************************************)
LEMMA MakingStep ==
    ASSUME ~ MayFail, Inv, Planned, NEW p \in Procs, Act(p), NEW q \in Procs
    PROVE  Making(q)'
<1>0. /\ TypeOK /\ RefcountExact /\ Control(p) /\ Control(q)
      /\ call \in [Procs -> Call] /\ pc \in [Procs -> PC]
  BY Zenon DEF Inv, TypeOK
<1>1. ASSUME NEW r \in Procs, call[r].op = "create"
      PROVE  call[r].object \in Objects /\ call[r].object # None /\ call[r].kind \in Kinds
  <2>1. call[r].object \in 1 .. calls /\ calls \in 0 .. MaxCalls
    BY <1>1, Zenon DEF Inv, Control, CreateControl, TypeOK
  <2>2. call[r].object \in Objects
    BY <2>1, UseAssumption DEF Objects
  <2> QED BY <1>0, <2>2, Basics, Zenon DEF Call
<1>2. CASE q # p
  <2>1. pc'[q] = pc[q] /\ call'[q] = call[q]
    BY <1>0, <1>2, OthersKept, Zenon
  <2> SUFFICES ASSUME pc[q] \in Creating \ {"create_open"} PROVE Making(q)'
    BY <2>1, Zenon DEF Making
  <2> DEFINE k == call[q].kind
             o == call[q].object
  <2>2. k \in Kinds /\ o \in Objects
    BY <1>0, <1>1, ZenonT(30) DEF Control, CreateControl
  <2>3. /\ linked'[k] = o /\ Tame(header[k][o], header'[k][o])
        /\ header[k][o].mutex = "ready" => header'[k][o].mutex = "ready"
    BY <2>2, MakingKept DEF Mine
  <2>4. Making(q)
    BY Zenon DEF Planned
  <2> QED BY <2>1, <2>3, <2>4, Zenon DEF Making, Tame
<1>3. CASE q = p
  <2> SUFFICES ASSUME pc'[p] \in Creating \ {"create_open"} PROVE Making(p)'
    BY <1>3, Zenon DEF Making
  <2> DEFINE k == call[p].kind
             o == call[p].object
  <2>1. CreateOpen(p) \/ CreateSize(p) \/ CreateFields(p) \/ CreateMutex(p)
    BY <1>0, TargetsStep, Zenon DEF Targets
  <2>2. pc[p] \in Creating /\ call[p].op = "create"
    BY <1>0, <2>1, Zenon
    DEF CreateOpen, CreateSize, CreateFields, CreateMutex, Creating, Control, CreateControl
  <2>3. /\ k \in Kinds
        /\ o \in Objects
        /\ o # None
        /\ Hdr(p) = header[k][o]
        /\ Hdr(p) \in Header
    BY <1>0, <1>1, <2>2, HdrType, ZenonT(30)
  <2>4. ASSUME pc[p] \in Creating \ {"create_open"}
        PROVE  linked'[k] = o /\ Tame(header[k][o], header'[k][o]) /\ Making(p)
    BY <2>3, <2>4, MakingKept DEF Mine, Planned
  <2>5. ASSUME NEW hdr \in Header, SetHdr(p, hdr) PROVE header'[k][o] = hdr
    BY <1>0, <2>3, <2>5, SetHdrFrame, Zenon
  <2>6. CASE CreateOpen(p)
    <3>1. pc'[p] = "create_size" /\ call' = call /\ linked'[k] = o
      <4>1. CASE CreateFails(p)
        BY <1>0, <4>1, CreateFailsStep, ZenonT(30) DEF Creating
      <4>2. CASE /\ linked' = [linked EXCEPT ![k] = o]
                 /\ Goto(p, "create_size") /\ UNCHANGED call
        BY <1>0, <2>3, <4>2, Zenon DEF Goto, TypeOK
      <4> QED BY <2>6, <4>1, <4>2, Zenon DEF CreateOpen
    <3> QED BY <3>1, Zenon DEF Making
  <2>7. CASE CreateSize(p)
    <3>1. /\ pc[p] = "create_size" /\ pc'[p] = "create_fields" /\ call' = call
          /\ SetHdr(p, [Hdr(p) EXCEPT !.sized = TRUE])
      BY <1>0, <2>7, Zenon DEF CreateSize, CreateAborts, Goto
    <3>2. header'[k][o].sized
      BY <2>3, <2>5, <3>1, Zenon DEF Header
    <3>3. linked'[k] = o
      BY <2>4, <3>1, Zenon DEF Creating
    <3> QED BY <3>1, <3>2, <3>3, Zenon DEF Making
  <2>8. CASE CreateFields(p)
    <3>1. /\ pc[p] = "create_fields" /\ pc'[p] = "create_mutex" /\ call' = call
          /\ SetHdr(p, [Hdr(p) EXCEPT !.block_size = TRUE])
      BY <1>0, <2>8, Zenon DEF CreateFields, CreateAborts, Goto
    <3>2. header'[k][o].block_size
      BY <2>3, <2>5, <3>1, Zenon DEF Header
    <3>3. linked'[k] = o /\ header'[k][o].sized
      BY <2>4, <3>1, Zenon DEF Creating, Making, Tame
    <3> QED BY <3>1, <3>2, <3>3, Zenon DEF Making
  <2>9. CASE CreateMutex(p)
    <3>1. /\ pc[p] = "create_mutex" /\ pc'[p] = "create_publish"
          /\ call' = [call EXCEPT ![p].access_id = 1]
          /\ SetHdr(p, [Hdr(p) EXCEPT !.mutex = "ready", !.id_counter = 2])
      BY <1>0, <2>9, Zenon DEF CreateMutex, CreateAborts, Goto
    <3>2. header'[k][o].mutex = "ready"
      BY <2>3, <2>5, <3>1, Zenon DEF Header, Life
    <3>3. linked'[k] = o /\ header'[k][o].sized /\ header'[k][o].block_size
      BY <2>4, <3>1, Zenon DEF Creating, Making, Tame
    <3>4. call'[p].kind = k /\ call'[p].object = o
      BY <1>0, <3>1, Zenon DEF Call
    <3> QED BY <3>1, <3>2, <3>3, <3>4, Zenon DEF Making
  <2> QED BY <2>1, <2>6, <2>7, <2>8, <2>9, Zenon
<1> QED BY <1>2, <1>3, Zenon

(***************************************************************************)
(* Whoever comes to have the real memory of object o has made it, or it    *)
(* was open already.                                                       *)
(***************************************************************************)
LEMMA RealOrigin ==
    ASSUME ~ MayFail, Inv, Planned, NEW p \in Procs, Act(p), NEW r \in Procs, r \notin forked',
           NEW o \in Objects, memory'[r]["real"].object = o
    PROVE  \/ \E a \in Procs \ forked : memory[a]["real"].object = o
           \/ pc[p] = "create_publish" /\ call[p].op = "create" /\ call[p].object = o
<1>0. TypeOK /\ RefcountExact /\ Control(p) /\ "real" \in Kinds /\ o # None
  BY Basics, Zenon DEF Inv
<1>1. CASE r # p
  <2>1. r \notin forked /\ memory'[r] = memory[r]
    BY <1>0, <1>1, OthersKept, Zenon
  <2> QED BY <2>1, Zenon
<1>2. CASE r = p
  <2>1. Has(p, "real")'
    BY <1>0, <1>2, Zenon DEF Has
  <2>2. CASE p \notin forked /\ memory'[p]["real"].object = memory[p]["real"].object
    BY <1>2, <2>2, Zenon
  <2>3. CASE CreatePublish(p) /\ Mine(p, "real", o)
    BY <1>0, <2>3, Zenon DEF CreatePublish, Mine, Control, CreateControl, Creating
  <2>4. CASE OpenRef(p) /\ Mine(p, "real", o)
    <3>1. Opening(p) /\ linked["real"] = o
      BY <1>0, <2>4, Zenon DEF OpenRef, Control, OpenControl, Opens, Opening, Planned, Attached,
                        Mine
    <3>2. PICK a \in Procs : a \notin forked /\ memory[a]["real"].object = linked["real"]
      BY <1>0, <3>1, OpensWhatIsOpen, ZenonT(30)
    <3> QED BY <3>1, <3>2, Zenon
  <2> QED BY <1>0, <1>2, <2>1, <2>2, <2>3, <2>4, HasStep, ZenonT(30)
<1> QED BY <1>1, <1>2, Zenon

(***************************************************************************)
(* Between its two blocks, create has the claims block of its own object   *)
(* with the list set up; when it gives up, nobody has the real memory.     *)
(***************************************************************************)
LEMMA HalfwayStep ==
    ASSUME ~ MayFail, Inv, Planned, NEW p \in Procs, Act(p), NEW q \in Procs
    PROVE  Halfway(q)'
<1>0. /\ TypeOK /\ RefcountExact /\ Control(p) /\ Control(q) /\ OneCreator
      /\ call \in [Procs -> Call] /\ pc \in [Procs -> PC]
      /\ "claims" \in Kinds /\ "real" \in Kinds
  BY Basics, ZenonT(30) DEF Inv, TypeOK
<1>1. ASSUME NEW r \in Procs, call[r].op = "create" PROVE call[r].object \in Objects
  <2>1. call[r].object \in 1 .. calls /\ calls \in 0 .. MaxCalls
    BY <1>1, Zenon DEF Inv, Control, CreateControl, TypeOK
  <2> QED BY <2>1, UseAssumption DEF Objects
<1>2. CASE q # p
  <2>1. pc'[q] = pc[q] /\ call'[q] = call[q] /\ memory'[q] = memory[q]
    BY <1>0, <1>2, OthersKept, Zenon
  <2>2. Halfway(q)
    BY Zenon DEF Planned
  <2>3. ASSUME pc[q] \in Creating, call[q].kind = "real"
        PROVE  header'["claims"][call[q].object].list = "ready"
    <3>1. call[q].op = "create" /\ q \notin forked
      BY <1>0, <2>3, Zenon DEF Control, CreateControl, IdleControl, Creating
    <3>2. ~ (pc[p] = "list_uninit" /\ call[p].object = call[q].object)
      BY <1>0, <1>2, <3>1, Zenon DEF OneCreator, Control, CreateControl
    <3>3. call[q].object \in Objects
      BY <1>1, <3>1, Zenon
    <3> QED BY <2>2, <2>3, <3>1, <3>2, <3>3, ListStays, ZenonT(30) DEF Halfway
  <2>4. ASSUME pc[q] = "list_uninit", NEW r \in Procs, r \notin forked',
               memory'[r]["real"].object = call[q].object
        PROVE  FALSE
    <3>1. call[q].op = "create"
      BY <1>0, <2>4, Zenon DEF Control, CreateControl
    <3>2. call[q].object \in Objects
      BY <1>1, <3>1, Zenon
    <3>3. CASE \E a \in Procs \ forked : memory[a]["real"].object = call[q].object
      BY <2>2, <2>4, <3>3, ZenonT(30) DEF Halfway
    <3>4. CASE call[p].op = "create" /\ call[p].object = call[q].object
      BY <1>0, <1>2, <3>1, <3>4, ZenonT(30) DEF OneCreator
    <3> QED BY <2>4, <3>2, <3>3, <3>4, RealOrigin
  <2> QED BY <2>1, <2>2, <2>3, <2>4, Zenon DEF Halfway
<1>3. CASE q = p
  <2>0. Halfway(p) /\ Targets(p)
    BY <1>0, TargetsStep, Zenon DEF Planned
  <2>1. CASE pc'[p] = "list_init"
    <3>1. CreatePublish(p)
      BY <2>0, <2>1, Zenon DEF Targets
    <3>2. call[p].kind = "claims" /\ call' = call
      BY <1>0, <2>1, <3>1, ReturnStep, ZenonT(30) DEF CreatePublish
    <3>3. memory'[p]["claims"].object = call[p].object
      BY <1>0, <3>1, <3>2, PublishEffect, Zenon
    <3> QED BY <1>3, <2>1, <3>2, <3>3, Zenon DEF Halfway, Creating
  <2>2. CASE pc'[p] = "list_uninit"
    <3>1. CreateOpen(p) /\ pc[p] = "create_open" /\ memory' = memory /\ forked' = forked
      BY <2>0, <2>2, Zenon DEF Targets, CreateOpen
    <3>2. call[p].kind = "real" /\ call' = call /\ call[p].op = "create"
      <4>1. CreateFails(p)
        BY <1>0, <2>2, <3>1, ZenonT(30) DEF CreateOpen, Goto
      <4>2. call[p].kind # "claims" /\ call' = call
        BY <1>0, <2>2, <4>1, CreateFailsStep, ZenonT(30)
      <4> QED BY <1>0, <3>1, <4>2, Zenon DEF Call, Kinds, Control, CreateControl, Creating
    <3>3. memory[p]["claims"].object = call[p].object
      BY <2>0, <3>1, <3>2, ZenonT(30) DEF Halfway, Creating
    <3>4. Fresh("real", call[p].object) /\ call[p].object \in Objects
      BY <1>1, <3>1, <3>2, Zenon DEF Fresh, Unpublished, Creating
    <3>5. \A r \in Procs : memory[r]["real"].object # call[p].object
      BY <1>0, <3>4, Zenon DEF Inv, FreshUnused, Unused
    <3> QED BY <1>3, <2>2, <3>1, <3>2, <3>3, <3>5, ZenonT(30) DEF Halfway, Creating
  <2>3. CASE pc'[p] = "create_open" /\ call'[p].kind = "real"
    <3>1. ListInit(p)
      <4>1. Create(p) => call'[p].kind = "claims"
        BY <1>0 DEF Create, Locals
      <4> QED BY <2>0, <2>3, <4>1, Zenon DEF Targets
    <3>2. /\ pc[p] = "list_init" /\ memory' = memory
          /\ SetHdr(p, [Hdr(p) EXCEPT !.list = "ready"])
          /\ call' = [call EXCEPT ![p].kind = "real"]
      BY <2>3, <3>1, Zenon DEF ListInit, CloseBlock, Goto
    <3>3. call'[p].object = call[p].object
      BY <1>0, <3>2, Zenon DEF Call
    <3>4. /\ call[p].kind = "claims" /\ call[p].op = "create"
          /\ memory[p]["claims"].object = call[p].object
      BY <1>0, <2>0, <3>2, ZenonT(30) DEF Control, CreateControl, Halfway
    <3>5. call[p].object \in Objects /\ call[p].object # None
      BY <1>1, <3>4, Basics, Zenon
    <3>6. header'["claims"][call[p].object].list = "ready"
      <4>1. Hdr(p) \in Header
        BY <1>0, <3>5, HdrType, Zenon
      <4>2. /\ [Hdr(p) EXCEPT !.list = "ready"] \in Header
            /\ [Hdr(p) EXCEPT !.list = "ready"].list = "ready"
        BY <4>1, Zenon DEF Header, Life, ListLife
      <4> DEFINE hdr == [Hdr(p) EXCEPT !.list = "ready"]
      <4>3. hdr \in Header /\ hdr.list = "ready" /\ SetHdr(p, hdr)
        BY <3>2, <4>2, Zenon
      <4> HIDE DEF hdr
      <4>4. header'[call[p].kind][call[p].object] = hdr
        BY <1>0, <3>5, <4>3, SetHdrFrame, ZenonT(30)
      <4> QED BY <3>4, <4>3, <4>4, Zenon
    <3>7. /\ memory'[p]["claims"].object = call'[p].object
          /\ header'["claims"][call'[p].object].list = "ready"
      BY <3>2, <3>3, <3>4, <3>6, ZenonT(30)
    <3> QED BY <1>3, <2>3, <3>7, ZenonT(30) DEF Halfway
  <2>4. CASE pc'[p] \in Creating \ {"create_open"} /\ call'[p].kind = "real"
    <3>1. /\ CreateOpen(p) \/ CreateSize(p) \/ CreateFields(p) \/ CreateMutex(p)
          /\ pc[p] \in Creating /\ memory' = memory
      BY <2>0, <2>4, Zenon
      DEF Targets, CreateOpen, CreateSize, CreateFields, CreateMutex, Creating
    <3>2. call'[p].kind = call[p].kind /\ call'[p].object = call[p].object
      <4>1. CASE CreateMutex(p)
        BY <1>0, <2>4, <4>1, Zenon DEF CreateMutex, CreateAborts, Call
      <4>2. CASE CreateFails(p)
        BY <1>0, <2>4, <4>2, CreateFailsStep, Zenon DEF Creating
      <4>3. CASE call' = call
        BY <4>3, Zenon
      <4> QED BY <3>1, <4>1, <4>2, <4>3, ZenonT(30) DEF CreateOpen, CreateSize, CreateFields,
                                            CreateAborts
    <3>3. /\ memory[p]["claims"].object = call[p].object
          /\ header["claims"][call[p].object].list = "ready"
      BY <2>0, <2>4, <3>1, <3>2, Zenon DEF Halfway
    <3>4. call[p].object \in Objects /\ p \notin forked
      BY <1>0, <1>1, <3>1, Zenon DEF Control, CreateControl, IdleControl, Creating
    <3>5. header'["claims"][call[p].object].list = "ready"
      BY <3>1, <3>3, <3>4, ListStays, ZenonT(30) DEF Creating
    <3> QED BY <1>3, <2>4, <3>1, <3>2, <3>3, <3>5, ZenonT(30) DEF Halfway, Creating
  <2> QED BY <1>3, <2>1, <2>2, <2>3, <2>4, ZenonT(30) DEF Halfway
<1> QED BY <1>2, <1>3, Zenon

(***************************************************************************)
(* The block of the last user stays without users while it is removed.     *)
(***************************************************************************)
LEMMA RemovedUnused ==
    ASSUME ~ MayFail, Inv, Planned, NEW p \in Procs, Act(p), NEW k \in Kinds, NEW o \in Objects,
           header[k][o].refcount = 0, linked[k] = o, ~ Fresh(k, o)
    PROVE  header'[k][o].refcount = 0
<1>0. TypeOK /\ RefcountExact /\ Control(p) /\ o # None
  BY Basics, Zenon DEF Inv
<1>1. ASSUME NEW q \in Procs, q \notin forked, memory[q][k].object = o PROVE FALSE
  BY <1>0, <1>1, UserCounts, Zenon
<1>2. CASE Quiet \/ Clean(p) \/ MutexMade(p)
  BY <1>2, Zenon DEF Quiet, Clean, MutexMade
<1>3. CASE CreatePublish(p)
  <2>1. ~ Mine(p, k, o)
    BY <1>0, <1>3, Zenon DEF CreatePublish, Control, CreateControl, Creating, Fresh,
                      Unpublished, Mine
  <2> QED BY <1>0, <1>3, <2>1, PublishEffect, Zenon
<1>4. CASE OpenRef(p)
  <2>1. Opening(p)
    BY <1>0, <1>4, Zenon DEF OpenRef, Control, OpenControl, Opens, Opening
  <2>2. PICK a \in Procs : a \notin forked /\ memory[a][k].object = linked[k]
    BY <2>1, OpensWhatIsOpen, Zenon
  <2> QED BY <1>1, <2>2, Zenon
<1>5. CASE OpenId(p)
  BY <1>0, <1>5, OpenIdEffect, Zenon
<1>6. CASE CloseSub(p)
  <2>1. ~ Mine(p, k, o)
    BY <1>0, <1>1, <1>6, CloseSubEffect, ZenonT(30) DEF Mine
  <2> QED BY <1>0, <1>6, <2>1, CloseSubEffect, ZenonT(30)
<1> QED BY <1>0, <1>2, <1>3, <1>4, <1>5, <1>6, QuietStep, ZenonT(30)

(***************************************************************************)
(* Only one process removes a block, and its name is still the block's.    *)
(***************************************************************************)
LEMMA RemovingStep ==
    ASSUME ~ MayFail, Inv, Planned, NEW p \in Procs, Act(p), NEW q \in Procs
    PROVE  Removing(q)'
<1>0. /\ TypeOK /\ RefcountExact /\ Control(p) /\ Control(q)
      /\ call \in [Procs -> Call] /\ pc \in [Procs -> PC]
      /\ Targets(p) /\ Removing(p) /\ Removing(q) /\ Blocks(p)
  BY TargetsStep, Zenon DEF Inv, TypeOK, Planned
<1>1. ASSUME NEW r \in Procs, pc[r] \in Closing
      PROVE  call[r].kind \in Kinds /\ call[r].object \in Objects /\ call[r].object # None
  BY <1>0, <1>1, Basics, ZenonT(30) DEF Inv, Control, CloseControl, Closing, Call
<1>2. ASSUME CloseSub(p), pc'[p] \in Closing
      PROVE  /\ call' = call /\ call[p].kind \in Kinds /\ call[p].object \in Objects
             /\ header[call[p].kind][call[p].object].refcount = 1
             /\ header'[call[p].kind][call[p].object].refcount = 0
             /\ linked' = linked /\ linked[call[p].kind] = call[p].object
             /\ ~ Fresh(call[p].kind, call[p].object)
  <2>1. /\ call[p].kind \in Kinds /\ call[p].object \in Objects /\ p \notin forked
        /\ memory[p][call[p].kind].object = call[p].object
        /\ header'[call[p].kind][call[p].object].refcount =
              header[call[p].kind][call[p].object].refcount - 1
    BY <1>0, <1>2, CloseSubEffect, Zenon
  <2>2. ~ CloseNext(p)
    BY <1>0, <1>2, CloseNextStep, Zenon DEF Closing
  <2>3. call' = call /\ Hdr(p).refcount = 1 /\ linked' = linked
    BY <1>2, <2>2, Zenon DEF CloseSub
  <2>4. linked[call[p].kind] = call[p].object
    BY <1>0, <2>1, Basics, Zenon DEF Blocks, Has
  <2>5. ~ Fresh(call[p].kind, call[p].object)
    BY <2>1, Zenon DEF Inv, FreshUnused, Unused
  <2> QED BY <2>1, <2>3, <2>4, <2>5 DEF Hdr
<1>3. ASSUME CloseDestroy(p)
      PROVE  pc[p] = "close_destroy" /\ call' = call /\ linked' = linked
  BY <1>3, Zenon DEF CloseDestroy
<1>4. ASSUME NEW r \in Procs, call'[r] = call[r], call[r].kind \in Kinds,
             call[r].object \in Objects, ~ Fresh(call[r].kind, call[r].object)
      PROVE  ~ Fresh(call[r].kind, call[r].object)'
  <2>1. PICK k \in Kinds, o \in Objects : k = call[r].kind /\ o = call[r].object
    BY <1>4, Zenon
  <2>2. ~ Fresh(k, o)'
    BY <1>0, <1>4, <2>1, FreshBack, ZenonT(30)
  <2> QED BY <1>4, <2>1, <2>2, Zenon DEF Fresh, Unpublished
<1>5. CASE q # p
  <2>1. pc'[q] = pc[q] /\ call'[q] = call[q]
    BY <1>0, <1>5, OthersKept, Zenon
  <2> SUFFICES ASSUME pc[q] \in Closing PROVE Removing(q)'
    BY <2>1, Zenon DEF Removing
  <2> DEFINE k == call[q].kind
             o == call[q].object
  <2>2. /\ k \in Kinds /\ o \in Objects /\ o # None
        /\ linked[k] = o /\ header[k][o].refcount = 0 /\ ~ Fresh(k, o)
        /\ \A r \in Procs : pc[r] \in Closing /\ call[r].kind = k => r = q
    BY <1>0, <1>1, Zenon DEF Removing
  <2>3. linked'[k] = o
    <3>1. ~ (pc[p] = "close_unlink" /\ call[p].kind = k)
      BY <1>5, <2>2, Zenon DEF Closing
    <3> QED BY <1>0, <2>2, <3>1, LinkedStep, Zenon
  <2>4. header'[k][o].refcount = 0
    BY <2>2, RemovedUnused, Zenon
  <2>5. ~ Fresh(call[q].kind, call[q].object)'
    BY <1>4, <2>1, <2>2, Zenon
  <2>6. ASSUME NEW r \in Procs, pc'[r] \in Closing, call'[r].kind = k PROVE r = q
    <3>1. CASE r # p
      BY <1>0, <2>2, <2>6, <3>1, OthersKept, ZenonT(30)
    <3>2. CASE r = p /\ CloseDestroy(p)
      BY <1>3, <2>2, <2>6, <3>2, ZenonT(30) DEF Closing
    <3>3. CASE r = p /\ CloseSub(p)
      <4>1. /\ call' = call /\ linked[call[p].kind] = call[p].object
            /\ header[call[p].kind][call[p].object].refcount = 1
        BY <1>2, <2>6, <3>3, ZenonT(30)
      <4>2. call[p].kind = k /\ call[p].object = o
        BY <2>2, <2>6, <3>3, <4>1, Zenon
      <4> QED BY <2>2, <4>1, <4>2
    <3> QED BY <1>0, <2>6, <3>1, <3>2, <3>3, ZenonT(30) DEF Targets
  <2> HIDE DEF k, o
  <2>7. call'[q].kind = k /\ call'[q].object = o
    BY <2>1, Zenon DEF k, o
  <2> QED BY <2>3, <2>4, <2>5, <2>6, <2>7, ZenonT(30) DEF Removing
<1>6. CASE q = p
  <2> SUFFICES ASSUME pc'[p] \in Closing PROVE Removing(p)'
    BY <1>6, Zenon DEF Removing
  <2> DEFINE k == call[p].kind
             o == call[p].object
  <2>1. ASSUME call' = call, k \in Kinds, o \in Objects, linked'[k] = o,
               header'[k][o].refcount = 0, ~ Fresh(k, o),
               \A r \in Procs : r # p /\ pc[r] \in Closing => call[r].kind # k
        PROVE  Removing(p)'
    <3>1. ASSUME NEW r \in Procs, pc'[r] \in Closing, call'[r].kind = k PROVE r = p
      BY <1>0, <2>1, <3>1, OthersKept, Zenon
    <3>2. ~ Fresh(call[p].kind, call[p].object)'
      BY <1>4, <2>1, Zenon
    <3> QED BY <2>1, <3>1, <3>2, Zenon DEF Removing
  <2>2. CASE CloseSub(p)
    <3>1. \A r \in Procs : r # p /\ pc[r] \in Closing => call[r].kind # k
      BY <1>2, <2>2 DEF Planned, Removing
    <3> QED BY <1>2, <2>1, <2>2, <3>1, ZenonT(30)
  <2>3. CASE CloseDestroy(p)
    <3>1. /\ k \in Kinds /\ o \in Objects /\ linked[k] = o /\ header[k][o].refcount = 0
          /\ ~ Fresh(k, o)
          /\ \A r \in Procs : pc[r] \in Closing /\ call[r].kind = k => r = p
      BY <1>0, <1>1, <1>3, <2>3, ZenonT(30) DEF Removing, Closing
    <3>2. header'[k][o].refcount = 0
      BY <3>1, RemovedUnused, Zenon
    <3> QED BY <1>3, <2>1, <2>3, <3>1, <3>2, ZenonT(30)
  <2> QED BY <1>0, <2>2, <2>3, Zenon DEF Targets
<1> QED BY <1>5, <1>6, Zenon

(***************************************************************************)
(* While a process opens the blocks, another one keeps them open: close    *)
(* waits for its turn, and a process that was killed leaves its references. *)
(***************************************************************************)
LEMMA AnchorStep ==
    ASSUME Coordinated, Inv, Planned, NEW p \in Procs, Act(p), NEW r \in Procs, Opening(r)'
    PROVE  \E a \in Procs : Anchor(a)'
<1>0. /\ TypeOK /\ RefcountExact /\ Control(p) /\ Targets(p)
      /\ \A q \in Procs : Control(q) /\ pc \in [Procs -> PC]
  BY TargetsStep, Zenon DEF Inv, TypeOK
<1>1. ASSUME NEW h \in Procs, Holder(h) PROVE Anchor(h)
  BY <1>0, <1>1, Zenon DEF Holder, Anchor, Control, IdleControl
<1>2. ASSUME NEW a \in Procs, a # p, Anchor(a) PROVE Anchor(a)'
  BY <1>0, <1>2, OthersKept, ZenonT(30) DEF Anchor, Has
<1>3. CASE Open(p)
  <2>1. PICK h \in Procs : Holder(h)
    BY <1>3, Zenon DEF Open
  <2>2. h # p
    BY <1>3, <2>1, Zenon DEF Open, Holder
  <2> QED BY <1>1, <1>2, <2>1, <2>2, ZenonT(30)
<1>4. CASE ~ Open(p)
  <2>1. Opening(r)
    <3>1. CASE r = p
      BY <1>0, <1>4, <3>1, Zenon DEF Targets, Opening
    <3>2. CASE r # p
      BY <1>0, <3>2, OthersKept, Zenon DEF Opening
    <3> QED BY <3>1, <3>2, ZenonT(30)
  <2>2. PICK a \in Procs : Anchor(a)
    BY <2>1, Zenon DEF Planned, Attached
  <2>3. CASE a # p
    BY <1>2, <2>2, <2>3, Zenon
  <2>4. CASE a = p
    <3>1. memory[p] # NoMemory /\ p \notin forked /\ pc[p] \in {"idle", "dead"}
      BY <2>2, <2>4, Basics, ZenonT(30) DEF Anchor, Has, NoMemory
    <3>2. Close(p) \/ Crash(p)
      BY <3>1, ZenonT(30) DEF Act, Step, Create, Open, Clean, CreateOpen, CreateSize,
                         CreateFields, CreateMutex, CreatePublish, ListInit, ListUninit,
                         OpenOpen, OpenSize, OpenWait, OpenRef, OpenId, CloseSub,
                         CloseDestroy, CloseUnlink
    <3>3. CASE Crash(p)
      <4>1. memory' = memory /\ forked' = forked /\ pc'[p] = "dead"
        BY <1>0, <3>3, ZenonT(30) DEF Crash, Die, Goto
      <4> QED BY <2>2, <2>4, <4>1, Zenon DEF Anchor, Has
    <3>4. CASE Close(p)
      <4>1. PICK h \in Procs \ {p} : Holder(h)
        BY <2>1, <3>4, Zenon DEF Close
      <4> QED BY <1>1, <1>2, <4>1, ZenonT(30)
    <3> QED BY <3>2, <3>3, <3>4, ZenonT(30)
  <2> QED BY <2>3, <2>4, Zenon
<1> QED BY <1>3, <1>4, Zenon

(***************************************************************************)
(* open works on the blocks that have the names.                           *)
(***************************************************************************)
LEMMA AttachedStep ==
    ASSUME Coordinated, ~ MayFail, Inv, Planned, NEW p \in Procs, Act(p), NEW q \in Procs
    PROVE  Attached(q)'
<1>0. /\ TypeOK /\ RefcountExact /\ Control(p) /\ Control(q) /\ Targets(p)
      /\ call \in [Procs -> Call] /\ pc \in [Procs -> PC] /\ Attached(q)
  BY TargetsStep, Zenon DEF Inv, TypeOK, Planned
<1>1. Opening(q)' => \E a \in Procs : Anchor(a)'
  BY AnchorStep, Zenon
<1>2. ASSUME pc'[q] \in {"open_size", "open_wait", "open_ref"}
      PROVE  call'[q].object = linked'[call'[q].kind]
  <2>1. CASE q # p
    <3>1. pc'[q] = pc[q] /\ call'[q] = call[q]
      BY <1>0, <2>1, OthersKept, Zenon
    <3>2. Opening(q) /\ call[q].object = linked[call[q].kind] /\ call[q].kind \in Kinds
      BY <1>0, <1>2, <3>1, ZenonT(30) DEF Control, OpenControl, Opens, Opening, Attached, Call
    <3>3. PICK a \in Procs, o \in Objects :
              a \notin forked /\ \A k \in Kinds : memory[a][k].object = o /\ linked[k] = o
      BY <3>2, OpensWhatIsOpen, Zenon
    <3>4. linked'[call[q].kind] = o
      BY <3>2, <3>3, InUseStays
    <3> QED BY <3>1, <3>2, <3>3, <3>4, ZenonT(30)
  <2>2. CASE q = p
    <3>1. OpenOpen(p) \/ OpenSize(p) \/ OpenWait(p)
      BY <1>0, <1>2, <2>2, Zenon DEF Targets
    <3>2. CASE OpenOpen(p)
      <4>1. ~ OpenFails(p)
        BY <1>0, <1>2, <2>2, OpenFailsStep, Zenon
      <4>2. call' = [call EXCEPT ![p].object = linked[call[p].kind]] /\ linked' = linked
        BY <3>2, <4>1, Zenon DEF OpenOpen
      <4>3. call'[p].object = linked[call[p].kind] /\ call'[p].kind = call[p].kind
        BY <1>0, <4>2, Zenon DEF Call
      <4> QED BY <2>2, <4>2, <4>3, Zenon
    <3>3. CASE OpenSize(p)
      <4>1. ~ OpenFails(p) /\ ~ Die(p, "fault")
        BY <1>0, <1>2, <2>2, OpenFailsStep, Zenon DEF Die, Goto
      <4>2. call' = call /\ linked' = linked /\ pc[p] = "open_size"
        BY <3>3, <4>1, Zenon DEF OpenSize
      <4> QED BY <1>0, <2>2, <4>2, Zenon DEF Attached
    <3>4. CASE OpenWait(p)
      <4>1. call' = call /\ linked' = linked /\ pc[p] = "open_wait"
        BY <3>4, Zenon DEF OpenWait
      <4> QED BY <1>0, <2>2, <4>1, Zenon DEF Attached
    <3> QED BY <3>1, <3>2, <3>3, <3>4, ZenonT(30)
  <2> QED BY <2>1, <2>2, ZenonT(30)
<1> QED BY <1>1, <1>2, Zenon DEF Attached

(***************************************************************************)
(* The copy that fork makes counts for nothing, and changes nothing.       *)
(***************************************************************************)
LEMMA PlannedFork ==
    ASSUME Inv, Planned, NEW p \in Procs, NEW c \in Procs, Fork(p, c)
    PROVE  Planned'
<1>0. TypeOK
  BY Zenon DEF Inv
<1>1. /\ linked' = linked /\ header' = header /\ pc' = pc /\ call' = call /\ calls' = calls
      /\ forked' = forked \cup {c} /\ pc[c] = "idle" /\ memory[c] = NoMemory
      /\ \A r \in Procs : r # c => memory'[r] = memory[r]
  BY <1>0, Zenon DEF Fork, TypeOK
<1>2. ASSUME NEW q \in Procs PROVE Blocks(q)' /\ Making(q)' /\ Halfway(q)' /\ Removing(q)'
  <2>1. Blocks(q) /\ Making(q) /\ Halfway(q) /\ Removing(q)
    BY Zenon DEF Planned
  <2>2. Blocks(q)'
    <3>1. CASE q = c
      BY <1>1, <3>1, Zenon DEF Blocks
    <3>2. CASE q # c
      BY <1>1, <2>1, <3>2, ZenonT(30) DEF Blocks, Has, Made
    <3> QED BY <3>1, <3>2, Zenon
  <2>3. Making(q)'
    BY <1>1, <2>1, Zenon DEF Making
  <2>4. Halfway(q)'
    <3>1. CASE q = c
      BY <1>1, <3>1, Zenon DEF Halfway, Creating
    <3>2. CASE q # c
      BY <1>1, <2>1, <3>2, Zenon DEF Halfway
    <3> QED BY <3>1, <3>2, Zenon
  <2>5. Removing(q)'
    BY <1>1, <2>1, Zenon DEF Removing, Fresh, Unpublished
  <2> QED BY <2>2, <2>3, <2>4, <2>5, Zenon
<1>3. ASSUME NEW q \in Procs PROVE Attached(q)'
  <2>1. Attached(q)
    BY Zenon DEF Planned
  <2>2. ASSUME NEW a \in Procs, Anchor(a) PROVE Anchor(a)'
    <3>1. a # c
      BY <1>1, <2>2, Basics DEF Anchor, Has, NoMemory
    <3> QED BY <1>1, <2>2, <3>1, Zenon DEF Anchor, Has
  <2> QED BY <1>1, <2>1, <2>2, ZenonT(30) DEF Attached, Opening
<1> QED BY <1>2, <1>3, Zenon DEF Planned

(***************************************************************************)
(* Before the first call there is nothing to be wrong about.               *)
(***************************************************************************)
LEMMA PlannedInit == Init => Planned
<1> SUFFICES ASSUME Init, NEW p \in Procs
             PROVE  Blocks(p) /\ Making(p) /\ Halfway(p) /\ Removing(p) /\ Attached(p)
  BY Zenon DEF Planned
<1>1. pc[p] = "idle" /\ call[p] = NoCall /\ memory[p] = NoMemory
  BY Zenon DEF Init
<1>2. \A k \in Kinds : ~ Has(p, k)
  BY <1>1, Basics, Zenon DEF Has, NoMemory
<1>3. Blocks(p)
  BY <1>2, Basics, Zenon DEF Blocks
<1>4. Making(p) /\ Halfway(p) /\ Removing(p)
  BY <1>1, Zenon DEF Making, Halfway, Removing, Creating, Closing
<1>5. Attached(p)
  BY <1>1, Basics, Zenon DEF Attached, Opening
<1> QED BY <1>1, <1>3, <1>4, <1>5, ZenonT(30)

(***************************************************************************)
(* With opens that are coordinated and system calls that work, every step  *)
(* keeps the invariant.                                                    *)
(***************************************************************************)
LEMMA PlannedStep ==
    ASSUME Coordinated, ~ MayFail
    PROVE  Inv /\ Planned /\ [Next]_vars => Planned'
<1> SUFFICES ASSUME Inv, Planned, [Next]_vars PROVE Planned'
  BY Zenon
<1>1. ASSUME NEW p \in Procs, Act(p) PROVE Planned'
  BY <1>1, BlocksStep, MakingStep, HalfwayStep, RemovingStep, AttachedStep, ZenonT(30)
  DEF Planned
<1>2. CASE UNCHANGED vars
  <2>1. /\ linked' = linked /\ header' = header /\ pc' = pc /\ call' = call
        /\ memory' = memory /\ forked' = forked /\ calls' = calls
    BY <1>2, Zenon DEF vars
  <2>2. ASSUME NEW q \in Procs
        PROVE  Blocks(q)' /\ Making(q)' /\ Halfway(q)' /\ Removing(q)' /\ Attached(q)'
    <3>1. Blocks(q) /\ Making(q) /\ Halfway(q) /\ Removing(q) /\ Attached(q)
      BY Zenon DEF Planned
    <3>2. Blocks(q)' /\ Making(q)'
      BY <2>1, <3>1, Zenon DEF Blocks, Has, Made, Making
    <3>3. Halfway(q)' /\ Removing(q)'
      BY <2>1, <3>1, Zenon DEF Halfway, Removing, Fresh, Unpublished
    <3>4. Attached(q)'
      BY <2>1, <3>1, Zenon DEF Attached, Opening, Anchor, Has
    <3> QED BY <3>2, <3>3, <3>4, Zenon
  <2> QED BY <2>1, <2>2, Zenon DEF Planned
<1> QED BY <1>1, <1>2, PlannedFork, Zenon DEF Next, Act

(***************************************************************************)
(* The invariant of coordinated use holds in every reachable state.        *)
(***************************************************************************)
THEOREM PlannedInvariant ==
    ASSUME Coordinated, ~ MayFail
    PROVE  Spec => [](Inv /\ Planned)
BY PlannedInit, PlannedStep, InitInv, InvStep, PTL DEF Spec

(***************************************************************************)
(* With coordinated opens, an ipm_memory in use has both blocks of one     *)
(* create call, with the mutexes and the condition in working order: for   *)
(* any number of processes that create, open, close, fork and are killed.  *)
(***************************************************************************)
THEOREM PlannedHandlesWhole ==
    ASSUME Coordinated, ~ MayFail
    PROVE  Spec => []HandlesWhole
<1>1. Inv /\ Planned => HandlesWhole
  <2> SUFFICES ASSUME Inv, Planned, NEW p \in Procs, Holder(p)
               PROVE  LET c == memory[p]["claims"].object
                          r == memory[p]["real"].object
                      IN /\ c = r /\ c # None
                         /\ header["claims"][c].mutex = "ready"
                         /\ header["real"][r].mutex = "ready"
                         /\ header["claims"][c].list = "ready"
    BY Zenon DEF HandlesWhole
  <2>1. p \notin forked /\ Has(p, "claims") /\ Has(p, "real") /\ Blocks(p)
    BY Basics, Zenon DEF Holder, Inv, Control, IdleControl, Planned
  <2> QED BY <2>1, Basics, Zenon DEF Blocks, Has, Made
<1> QED BY <1>1, PlannedInvariant, PTL

(***************************************************************************)
(* With coordinated opens, the names keep referring to the blocks of every *)
(* ipm_memory in use: no close, and no create that fails, unlinks them.    *)
(***************************************************************************)
THEOREM PlannedStillLinked ==
    ASSUME Coordinated, ~ MayFail
    PROVE  Spec => []StillLinked
<1>1. Inv /\ Planned => StillLinked
  <2> SUFFICES ASSUME Inv, Planned, NEW p \in Procs, Holder(p), NEW k \in Kinds
               PROVE  linked[k] = memory[p][k].object
    BY Zenon DEF StillLinked
  <2>1. p \notin forked /\ Has(p, k) /\ Blocks(p)
    BY Zenon DEF Holder, Inv, Control, IdleControl, Planned
  <2> QED BY <2>1, Zenon DEF Blocks
<1> QED BY <1>1, PlannedInvariant, PTL
=============================================================================
