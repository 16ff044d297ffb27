--------------------------- MODULE Bpamem_proofs ---------------------------
(***************************************************************************)
(* Proofs about Bpamem for any number of callers, devices, pages and       *)
(* partitions.                                                             *)
(*                                                                         *)
(* That no device is handed out twice rests on one caller searching at a   *)
(* time; that no page leaks rests on knowing, at each step of a call,      *)
(* whether the device of the call has pages.                               *)
(***************************************************************************)
EXTENDS Bpamem, TLAPS

Work == {"copyIn", "findPart", "allocPages", "copyOut",
         "test", "freePages", "clear", "release"}
Search == {"scan", "reserve"}

\* One caller at a time searches, and no other reserves what it has found.
OneSearch ==
  \A p \in Callers :
    pc[p] \in Search => /\ sem_find_dev = 0
                        /\ \A r \in Callers : pc[r] \in Search => p = r

\* What a caller's place says of its own variables.
Frame ==
  \A p \in Callers :
    /\ pc[p] \in Work \cup {"reserve"} => dev[p] \in Devs
    /\ pc[p] = "reserve" => ~used[dev[p]]
    /\ pc[p] \in Work \cup Search \cup {"down"} => device_num[p] = NoDev
    /\ pc[p] \in {"mmap", "remap"} => device_num[p] \in Devs /\ mapped[p] = NoPage
    /\ pc[p] = "allocPages" => part[dev[p]] \in Parts

\* Which devices have pages.
HavePages ==
  /\ \A p \in Callers :
       /\ pc[p] \in {"copyIn", "findPart", "allocPages", "release"} =>
            phys_addr[dev[p]] = NoPage
       /\ pc[p] \in {"copyOut", "test", "freePages", "clear"} =>
            phys_addr[dev[p]] # NoPage
       /\ device_num[p] # NoDev => phys_addr[device_num[p]] # NoPage
  /\ \A d \in Devs : /\ d \in lost => phys_addr[d] # NoPage
                     /\ ~used[d] => phys_addr[d] = NoPage

\* PagesAccounted, page by page.
PagesOwned ==
  /\ \A g \in Pages : g \in taken <=> \E d \in Devs : Holds(d) /\ phys_addr[d] = g
  /\ \A d \in Devs :
       Holds(d) => /\ used[d]
                   /\ PartOf[phys_addr[d]] = part[d]
                   /\ \A c \in Devs : Holds(c) /\ phys_addr[c] = phys_addr[d] => c = d

IInv ==
  /\ TypeOK
  /\ OneSearch
  /\ Frame
  /\ HavePages
  /\ OneOwner
  /\ PagesOwned
  /\ MappingsOwned

\* NoDev is no device, and a search that counts up ends there.
LEMMA NoDevIsNone ==
  /\ NoDev \notin Devs
  /\ 0 \in Devs \cup {NoDev}
  /\ \A d \in Devs : d + 1 \in Devs \cup {NoDev}
BY BpamemAssumption DEF NoDev, Devs

\* Initially no device is in use and no page is taken.
LEMMA InitIInv == Init => IInv
<1> SUFFICES ASSUME Init
             PROVE  IInv
  OBVIOUS
<1> USE BpamemAssumption, NoDevIsNone DEF Init
<1>1. TypeOK /\ OneSearch /\ Frame
  BY DEF TypeOK, OneSearch, Frame, Places, Search, Work
<1>2. HavePages /\ MappingsOwned
  BY DEF HavePages, MappingsOwned
<1>3. OneOwner
  BY DEF OneOwner, Owns
<1>4. PagesOwned
  BY DEF PagesOwned, Holds
<1>5. QED
  BY <1>1, <1>2, <1>3, <1>4 DEF IInv

\* The pages of a device that a caller was given are taken, and nobody is
\* freeing them.
LEMMA GivenDeviceHolds ==
  ASSUME IInv, NEW p \in Callers, device_num[p] # NoDev
  PROVE  /\ device_num[p] \in Devs
         /\ Holds(device_num[p])
         /\ phys_addr[device_num[p]] \in taken
<1>1. device_num[p] \in Devs /\ phys_addr[device_num[p]] \in Pages
  BY DEF IInv, TypeOK, HavePages
<1>2. Holds(device_num[p])
  BY <1>1 DEF IInv, Frame, Work, HavePages, OneOwner, Owns, Holds
<1>3. QED
  BY <1>1, <1>2 DEF IInv, PagesOwned

\* Steps that only move on within a call, or begin one.
LEMMA MovesKeeps ==
  ASSUME IInv, NEW p \in Callers, Alloc(p) \/ CopyIn(p) \/ Test(p) \/ Mmap(p) \/ MmapTest(p)
  PROVE  IInv'
<1> USE BpamemAssumption, NoDevIsNone
    DEF IInv, Alloc, CopyIn, Test, Mmap, MmapTest, At, Goto, table, owner, Work, Search, Places
<1>1. TypeOK'
  BY DEF TypeOK, OneSearch, Frame
<1>2. OneSearch'
  BY DEF TypeOK, OneSearch
<1>3. Frame'
  BY DEF TypeOK, OneSearch, Frame
<1>4. HavePages'
  BY DEF TypeOK, Frame, HavePages, OneOwner, Owns
<1>5. OneOwner'
  BY DEF TypeOK, Frame, HavePages, OneOwner, Owns
<1>6. PagesOwned'
  BY DEF TypeOK, Frame, HavePages, OneOwner, Owns, PagesOwned, Holds
<1>7. MappingsOwned'
  BY DEF TypeOK, Frame, HavePages, OneOwner, Owns, PagesOwned, Holds, MappingsOwned
<1>8. QED
  BY <1>1, <1>2, <1>3, <1>4, <1>5, <1>6, <1>7

\* The search itself changes nothing but its position.
LEMMA SearchesKeeps ==
  ASSUME IInv, NEW p \in Callers, Scan(p) \/ NothingLeft(p)
  PROVE  IInv'
<1> USE BpamemAssumption, NoDevIsNone
    DEF IInv, Scan, NothingLeft, At, Goto, table, owner, Work, Search, Places
<1>1. TypeOK'
  BY DEF TypeOK, OneSearch, Frame
<1>2. OneSearch'
  BY DEF TypeOK, OneSearch
<1>3. Frame'
  BY DEF TypeOK, OneSearch, Frame
<1>4. HavePages'
  BY DEF TypeOK, Frame, HavePages, OneOwner, Owns
<1>5. OneOwner'
  BY DEF TypeOK, Frame, HavePages, OneOwner, Owns
<1>6. PagesOwned'
  BY DEF TypeOK, Frame, HavePages, OneOwner, Owns, PagesOwned, Holds
<1>7. MappingsOwned'
  BY DEF TypeOK, Frame, HavePages, OneOwner, Owns, PagesOwned, Holds, MappingsOwned
<1>8. QED
  BY <1>1, <1>2, <1>3, <1>4, <1>5, <1>6, <1>7

\* The search begins only when nobody else is searching.
LEMMA DownKeeps ==
  ASSUME IInv, NEW p \in Callers, Down(p)
  PROVE  IInv'
<1> USE BpamemAssumption, NoDevIsNone
    DEF IInv, Down, At, Goto, table, owner, Work, Search, Places
<1>1. TypeOK'
  BY DEF TypeOK, OneSearch, Frame
<1>2. OneSearch'
  BY DEF TypeOK, OneSearch
<1>3. Frame'
  BY DEF TypeOK, OneSearch, Frame
<1>4. HavePages'
  BY DEF TypeOK, Frame, HavePages, OneOwner, Owns
<1>5. OneOwner'
  BY DEF TypeOK, Frame, HavePages, OneOwner, Owns
<1>6. PagesOwned'
  BY DEF TypeOK, Frame, HavePages, OneOwner, Owns, PagesOwned, Holds
<1>7. MappingsOwned'
  BY DEF TypeOK, Frame, HavePages, OneOwner, Owns, PagesOwned, Holds, MappingsOwned
<1>8. QED
  BY <1>1, <1>2, <1>3, <1>4, <1>5, <1>6, <1>7

\* What the search has found is still unused: only searches use devices up.
LEMMA ReserveKeeps ==
  ASSUME IInv, NEW p \in Callers, Reserve(p)
  PROVE  IInv'
<1> USE BpamemAssumption, NoDevIsNone
    DEF IInv, Reserve, At, Goto, table, owner, Work, Search, Places
<1>1. TypeOK'
  BY DEF TypeOK, OneSearch, Frame
<1>2. OneSearch'
  BY DEF TypeOK, OneSearch
<1>3. Frame'
  BY DEF TypeOK, OneSearch, Frame
<1>4. HavePages'
  <2>1. dev[p] \in Devs /\ phys_addr[dev[p]] = NoPage
    BY DEF Frame, HavePages
  <2>2. \A d \in Devs : ~used'[d] => ~used[d]
    BY DEF TypeOK
  <2>3. QED
    BY <2>1, <2>2 DEF TypeOK, HavePages
<1>5. OneOwner'
  BY DEF TypeOK, Frame, HavePages, OneOwner, Owns
<1>6. PagesOwned'
  BY DEF TypeOK, Frame, HavePages, OneOwner, Owns, PagesOwned, Holds
<1>7. MappingsOwned'
  BY DEF TypeOK, Frame, HavePages, OneOwner, Owns, PagesOwned, Holds, MappingsOwned
<1>8. QED
  BY <1>1, <1>2, <1>3, <1>4, <1>5, <1>6, <1>7

\* The device of a call is nobody else's, so its partition may be set.
LEMMA FindPartKeeps ==
  ASSUME IInv, NEW p \in Callers, FindPart(p)
  PROVE  IInv'
<1> USE BpamemAssumption, NoDevIsNone
    DEF IInv, FindPart, At, Goto, table, owner, Work, Search, Places
<1>1. TypeOK'
  BY DEF TypeOK, OneSearch, Frame
<1>2. OneSearch'
  BY DEF TypeOK, OneSearch
<1>3. Frame'
  <2>1. dev[p] \in Devs
    BY DEF Frame
  <2>2. PICK q \in Parts \cup {NoPart} :
          /\ part' = [part EXCEPT ![dev[p]] = q]
          /\ pc' = [pc EXCEPT ![p] = IF q = NoPart THEN "release" ELSE "allocPages"]
    OBVIOUS
  <2>3. \A r \in Callers : pc[r] = "allocPages" => dev[r] # dev[p]
    BY <2>1 DEF OneOwner, Owns
  <2>4. QED
    BY <2>1, <2>2, <2>3 DEF TypeOK, Frame
<1>4. HavePages'
  BY DEF TypeOK, Frame, HavePages, OneOwner, Owns
<1>5. OneOwner'
  BY DEF TypeOK, Frame, HavePages, OneOwner, Owns
<1>6. PagesOwned'
  BY DEF TypeOK, Frame, HavePages, OneOwner, Owns, PagesOwned, Holds
<1>7. MappingsOwned'
  BY DEF TypeOK, Frame, HavePages, OneOwner, Owns, PagesOwned, Holds, MappingsOwned
<1>8. QED
  BY <1>1, <1>2, <1>3, <1>4, <1>5, <1>6, <1>7

\* Pages that nobody holds become the pages of the device, or none do.
LEMMA AllocPagesKeeps ==
  ASSUME IInv, NEW p \in Callers, AllocPages(p)
  PROVE  IInv'
<1> USE BpamemAssumption, NoDevIsNone
    DEF IInv, AllocPages, At, Goto, table, owner, Work, Search, Places
<1>1. TypeOK'
  BY DEF TypeOK, Frame
<1>2. OneSearch'
  BY DEF TypeOK, OneSearch
<1>3. Frame'
  BY DEF TypeOK, OneSearch, Frame
<1>4. HavePages'
  <2>1. dev[p] \in Devs /\ used[dev[p]] /\ device_num[p] = NoDev
    BY DEF Frame, OneOwner, Owns
  <2>2. \A r \in Callers : r # p => ~Owns(r, dev[p])
    BY <2>1 DEF OneOwner, Owns
  <2>3. dev[p] \notin lost
    BY <2>1 DEF OneOwner, Owns
  <2>4. \A d \in Devs : d # dev[p] => phys_addr'[d] = phys_addr[d]
    BY DEF TypeOK
  <2>5. phys_addr'[dev[p]] = NoPage <=> pc'[p] = "release"
    BY <2>1 DEF TypeOK
  <2>6. pc'[p] \in {"copyOut", "release"} /\ \A r \in Callers : r # p => pc'[r] = pc[r]
    BY DEF TypeOK
  <2>7. QED
    BY <2>1, <2>2, <2>3, <2>4, <2>5, <2>6 DEF TypeOK, Frame, HavePages, Owns
<1>5. OneOwner'
  BY DEF TypeOK, Frame, HavePages, OneOwner, Owns
<1>6. PagesOwned'
  <2>1. dev[p] \in Devs /\ phys_addr[dev[p]] = NoPage /\ used[dev[p]]
    BY DEF Frame, HavePages, OneOwner, Owns
  <2>2. \A d \in Devs : ~(\E r \in Callers : pc'[r] = "clear" /\ dev[r] = d)
                    <=> ~(\E r \in Callers : pc[r] = "clear" /\ dev[r] = d)
    BY DEF TypeOK
  <2>3. CASE phys_addr' = [phys_addr EXCEPT ![dev[p]] = NoPage] /\ UNCHANGED taken
    <3>1. phys_addr' = phys_addr
      BY <2>1, <2>3 DEF TypeOK
    <3>2. QED
      BY <2>2, <2>3, <3>1 DEF PagesOwned, Holds
  <2>4. CASE \E g \in Pages \ taken :
               /\ PartOf[g] = part[dev[p]]
               /\ taken' = taken \cup {g}
               /\ phys_addr' = [phys_addr EXCEPT ![dev[p]] = g]
    <3>1. PICK g \in Pages \ taken :
                 /\ PartOf[g] = part[dev[p]]
                 /\ taken' = taken \cup {g}
                 /\ phys_addr' = [phys_addr EXCEPT ![dev[p]] = g]
      BY <2>4
    <3>2. \A r \in Callers : ~(pc[r] = "clear" /\ dev[r] = dev[p])
      BY <2>1 DEF OneOwner, Owns
    <3>3. Holds(dev[p])' /\ phys_addr'[dev[p]] = g
      BY <2>1, <2>2, <3>1, <3>2 DEF TypeOK, Holds
    <3>4. \A d \in Devs : d # dev[p] => /\ Holds(d)' <=> Holds(d)
                                      /\ phys_addr'[d] = phys_addr[d]
      BY <2>1, <2>2, <3>1 DEF TypeOK, Holds
    <3>5. ~Holds(dev[p])
      BY <2>1 DEF Holds
    <3>6. \A d \in Devs : Holds(d) => phys_addr[d] \in taken
      BY DEF PagesOwned, TypeOK, Holds
    <3>7. QED
      BY <2>1, <3>1, <3>3, <3>4, <3>5, <3>6 DEF PagesOwned
  <2>5. QED
    BY <2>3, <2>4
<1>7. MappingsOwned'
  <2>1. \A r \in Callers : device_num[r] # dev[p]
    BY NoDevIsNone DEF Frame, OneOwner, Owns
  <2>2. taken \subseteq taken'
    OBVIOUS
  <2>3. \A d \in Devs : d # dev[p] => phys_addr'[d] = phys_addr[d]
    BY DEF TypeOK
  <2>4. QED
    BY <2>1, <2>2, <2>3 DEF TypeOK, MappingsOwned
<1>8. QED
  BY <1>1, <1>2, <1>3, <1>4, <1>5, <1>6, <1>7

\* The caller is told the device, or undoes the allocation.
LEMMA CopyOutKeeps ==
  ASSUME IInv, NEW p \in Callers, CopyOut(p)
  PROVE  IInv'
<1> USE BpamemAssumption, NoDevIsNone
    DEF IInv, CopyOut, At, Goto, table, owner, Work, Search, Places
<1>1. TypeOK'
  BY DEF TypeOK, OneSearch, Frame
<1>2. OneSearch'
  BY DEF TypeOK, OneSearch
<1>3. Frame'
  BY DEF TypeOK, OneSearch, Frame
<1>4. HavePages'
  BY DEF TypeOK, Frame, HavePages, OneOwner, Owns
<1>5. OneOwner'
  BY DEF TypeOK, Frame, HavePages, OneOwner, Owns
<1>6. PagesOwned'
  BY DEF TypeOK, Frame, HavePages, OneOwner, Owns, PagesOwned, Holds
<1>7. MappingsOwned'
  BY DEF TypeOK, Frame, HavePages, OneOwner, Owns, PagesOwned, Holds, MappingsOwned
<1>8. QED
  BY <1>1, <1>2, <1>3, <1>4, <1>5, <1>6, <1>7

\* The device passes from the caller to its call.
LEMMA FreeKeeps ==
  ASSUME IInv, NEW p \in Callers, Free(p)
  PROVE  IInv'
<1> USE BpamemAssumption, NoDevIsNone
    DEF IInv, Free, At, Goto, table, owner, Work, Search, Places
<1>1. TypeOK'
  BY DEF TypeOK, OneSearch, Frame
<1>2. OneSearch'
  BY DEF TypeOK, OneSearch
<1>3. Frame'
  BY DEF TypeOK, OneSearch, Frame
<1>4. HavePages'
  BY DEF TypeOK, Frame, HavePages, OneOwner, Owns
<1>5. OneOwner'
  BY DEF TypeOK, Frame, HavePages, OneOwner, Owns
<1>6. PagesOwned'
  BY DEF TypeOK, Frame, HavePages, OneOwner, Owns, PagesOwned, Holds
<1>7. MappingsOwned'
  BY DEF TypeOK, Frame, HavePages, OneOwner, Owns, PagesOwned, Holds, MappingsOwned
<1>8. QED
  BY <1>1, <1>2, <1>3, <1>4, <1>5, <1>6, <1>7

\* The pages of the device are taken, so they are freed once.
LEMMA FreePagesKeeps ==
  ASSUME IInv, NEW p \in Callers, FreePages(p)
  PROVE  IInv'
<1> USE BpamemAssumption, NoDevIsNone
    DEF IInv, FreePages, At, Goto, table, owner, Work, Search, Places
<1>1. TypeOK'
  BY DEF TypeOK, OneSearch, Frame
<1>2. OneSearch'
  BY DEF TypeOK, OneSearch
<1>3. Frame'
  BY DEF TypeOK, OneSearch, Frame
<1>4. HavePages'
  BY DEF TypeOK, Frame, HavePages, OneOwner, Owns
<1>5. OneOwner'
  BY DEF TypeOK, Frame, HavePages, OneOwner, Owns
<1>6. PagesOwned'
  <2>1. dev[p] \in Devs /\ phys_addr[dev[p]] # NoPage /\ Owns(p, dev[p])
    BY DEF Frame, HavePages, Owns
  <2>2. Holds(dev[p])
    BY <2>1 DEF OneOwner, Owns, Holds
  <2>3. taken' = taken \ {phys_addr[dev[p]]}
    BY <2>1, <2>2 DEF TypeOK, PagesOwned
  <2>4. ~Holds(dev[p])' /\ \A d \in Devs : d # dev[p] => (Holds(d)' <=> Holds(d))
    BY <2>1 DEF TypeOK, Holds
  <2>5. QED
    BY <2>1, <2>2, <2>3, <2>4 DEF TypeOK, PagesOwned
<1>7. MappingsOwned'
  <2>1. dev[p] \in Devs /\ Owns(p, dev[p]) /\ device_num[p] = NoDev
    BY DEF Frame, Owns
  <2>2. \A r \in Callers : device_num[r] # dev[p]
    BY <2>1 DEF OneOwner, Owns
  <2>3. Holds(dev[p])
    BY <2>1 DEF HavePages, OneOwner, Owns, Holds
  <2>4. taken \ {phys_addr[dev[p]]} \subseteq taken'
    OBVIOUS
  <2>5. \A r \in Callers : mapped[r] # NoPage => phys_addr[dev[p]] # mapped[r]
    BY <2>1, <2>2, <2>3, GivenDeviceHolds DEF PagesOwned, MappingsOwned
  <2>6. QED
    BY <2>4, <2>5 DEF MappingsOwned
<1>8. QED
  BY <1>1, <1>2, <1>3, <1>4, <1>5, <1>6, <1>7

\* Nobody else has seen the phys_addr that is cleared.
LEMMA ClearKeeps ==
  ASSUME IInv, NEW p \in Callers, Clear(p)
  PROVE  IInv'
<1> USE BpamemAssumption, NoDevIsNone
    DEF IInv, Clear, At, Goto, table, owner, Work, Search, Places
<1>1. TypeOK'
  BY DEF TypeOK, OneSearch, Frame
<1>2. OneSearch'
  BY DEF TypeOK, OneSearch
<1>3. Frame'
  BY DEF TypeOK, OneSearch, Frame
<1>4. HavePages'
  <2>1. dev[p] \in Devs /\ used[dev[p]] /\ device_num[p] = NoDev /\ Owns(p, dev[p])
    BY DEF Frame, OneOwner, Owns
  <2>2. \A r \in Callers : r # p => ~Owns(r, dev[p])
    BY <2>1 DEF OneOwner
  <2>3. dev[p] \notin lost
    BY <2>1 DEF OneOwner
  <2>4. /\ phys_addr'[dev[p]] = NoPage
        /\ \A d \in Devs : d # dev[p] => phys_addr'[d] = phys_addr[d]
    BY <2>1 DEF TypeOK
  <2>5. pc'[p] = "release" /\ \A r \in Callers : r # p => pc'[r] = pc[r]
    BY DEF TypeOK
  <2>6. QED
    BY <2>1, <2>2, <2>3, <2>4, <2>5 DEF TypeOK, Frame, HavePages, Owns
<1>5. OneOwner'
  BY DEF TypeOK, Frame, HavePages, OneOwner, Owns
<1>6. PagesOwned'
  BY DEF TypeOK, Frame, HavePages, OneOwner, Owns, PagesOwned, Holds
<1>7. MappingsOwned'
  <2>1. dev[p] \in Devs /\ Owns(p, dev[p]) /\ device_num[p] = NoDev
    BY DEF Frame, Owns
  <2>2. \A r \in Callers : device_num[r] # dev[p]
    BY <2>1 DEF OneOwner, Owns
  <2>3. QED
    BY <2>2 DEF TypeOK, MappingsOwned
<1>8. QED
  BY <1>1, <1>2, <1>3, <1>4, <1>5, <1>6, <1>7

\* The device has no pages any more when it is given back.
LEMMA ReleaseKeeps ==
  ASSUME IInv, NEW p \in Callers, Release(p)
  PROVE  IInv'
<1> USE BpamemAssumption, NoDevIsNone
    DEF IInv, Release, At, Goto, table, owner, Work, Search, Places
<1>1. TypeOK'
  BY DEF TypeOK, OneSearch, Frame
<1>2. OneSearch'
  BY DEF TypeOK, OneSearch
<1>3. Frame'
  BY DEF TypeOK, OneSearch, Frame
<1>4. HavePages'
  BY DEF TypeOK, Frame, HavePages, OneOwner, Owns
<1>5. OneOwner'
  BY DEF TypeOK, Frame, HavePages, OneOwner, Owns
<1>6. PagesOwned'
  BY DEF TypeOK, Frame, HavePages, OneOwner, Owns, PagesOwned, Holds
<1>7. MappingsOwned'
  BY DEF TypeOK, Frame, HavePages, OneOwner, Owns, PagesOwned, Holds, MappingsOwned
<1>8. QED
  BY <1>1, <1>2, <1>3, <1>4, <1>5, <1>6, <1>7

\* The caller maps the pages of the device it was given.
LEMMA RemapKeeps ==
  ASSUME IInv, NEW p \in Callers, Remap(p)
  PROVE  IInv'
<1> USE BpamemAssumption, NoDevIsNone
    DEF IInv, Remap, At, Goto, table, owner, Work, Search, Places
<1>1. TypeOK'
  BY DEF TypeOK, OneSearch, Frame
<1>2. OneSearch'
  BY DEF TypeOK, OneSearch
<1>3. Frame'
  BY DEF TypeOK, OneSearch, Frame
<1>4. HavePages'
  BY DEF TypeOK, Frame, HavePages, OneOwner, Owns
<1>5. OneOwner'
  BY DEF TypeOK, Frame, HavePages, OneOwner, Owns
<1>6. PagesOwned'
  BY DEF TypeOK, Frame, HavePages, OneOwner, Owns, PagesOwned, Holds
<1>7. MappingsOwned'
  BY GivenDeviceHolds DEF TypeOK, Frame, MappingsOwned
<1>8. QED
  BY <1>1, <1>2, <1>3, <1>4, <1>5, <1>6, <1>7

\* Unmapping leaves the table alone.
LEMMA MunmapKeeps ==
  ASSUME IInv, NEW p \in Callers, Munmap(p)
  PROVE  IInv'
<1> USE BpamemAssumption, NoDevIsNone
    DEF IInv, Munmap, At, Goto, table, owner, Work, Search, Places
<1>1. TypeOK'
  BY DEF TypeOK, OneSearch, Frame
<1>2. OneSearch'
  BY DEF TypeOK, OneSearch
<1>3. Frame'
  BY DEF TypeOK, OneSearch, Frame
<1>4. HavePages'
  BY DEF TypeOK, Frame, HavePages, OneOwner, Owns
<1>5. OneOwner'
  BY DEF TypeOK, Frame, HavePages, OneOwner, Owns
<1>6. PagesOwned'
  BY DEF TypeOK, Frame, HavePages, OneOwner, Owns, PagesOwned, Holds
<1>7. MappingsOwned'
  BY DEF TypeOK, Frame, HavePages, OneOwner, Owns, PagesOwned, Holds, MappingsOwned
<1>8. QED
  BY <1>1, <1>2, <1>3, <1>4, <1>5, <1>6, <1>7

\* The device of a caller that ends is lost and keeps its pages.
LEMMA DieKeeps ==
  ASSUME IInv, NEW p \in Callers, Die(p)
  PROVE  IInv'
<1> USE BpamemAssumption, NoDevIsNone
    DEF IInv, Die, At, Goto, table, owner, Work, Search, Places
<1>1. TypeOK'
  BY DEF TypeOK, OneSearch, Frame
<1>2. OneSearch'
  BY DEF TypeOK, OneSearch
<1>3. Frame'
  BY DEF TypeOK, OneSearch, Frame
<1>4. HavePages'
  BY DEF TypeOK, Frame, HavePages, OneOwner, Owns
<1>5. OneOwner'
  BY DEF TypeOK, Frame, HavePages, OneOwner, Owns
<1>6. PagesOwned'
  BY DEF TypeOK, Frame, HavePages, OneOwner, Owns, PagesOwned, Holds
<1>7. MappingsOwned'
  BY DEF TypeOK, Frame, HavePages, OneOwner, Owns, PagesOwned, Holds, MappingsOwned
<1>8. QED
  BY <1>1, <1>2, <1>3, <1>4, <1>5, <1>6, <1>7

\* When nobody is in a call, unloading frees the pages of every device.
LEMMA ExitFrees ==
  ASSUME IInv, Exit
  PROVE  taken' = {}
<1> USE BpamemAssumption DEF IInv, Exit, Unload, Unused, At
<1>1. \A g \in taken : \E d \in Devs : used[d] /\ g = phys_addr[d] /\ PartOf[g] = part[d]
  BY DEF TypeOK, PagesOwned
<1>2. QED
  BY <1>1 DEF TypeOK

\* Unloading leaves an empty table.
LEMMA ExitKeeps ==
  ASSUME IInv, Exit
  PROVE  IInv'
<1> USE BpamemAssumption, NoDevIsNone DEF Exit, Unload, Unused, At, Work, Search
<1>1. /\ pc' = pc /\ dev' = dev /\ device_num' = device_num /\ mapped' = mapped
      /\ part' = part /\ sem_find_dev' = sem_find_dev /\ lost' = {}
  OBVIOUS
<1>2. \A d \in Devs : used'[d] = FALSE /\ phys_addr'[d] = NoPage
  BY DEF IInv, TypeOK, HavePages
<1>3. \A p \in Callers : pc[p] = "idle" /\ device_num[p] = NoDev /\ mapped[p] = NoPage
  BY DEF IInv, TypeOK, MappingsOwned
<1>4. TypeOK'
  BY <1>1 DEF IInv, TypeOK
<1>5. OneSearch' /\ Frame' /\ HavePages' /\ MappingsOwned'
  BY <1>1, <1>2, <1>3 DEF OneSearch, Frame, HavePages, MappingsOwned
<1>6. OneOwner'
  BY <1>1, <1>2, <1>3 DEF OneOwner, Owns
<1>7. PagesOwned'
  BY <1>2, ExitFrees DEF PagesOwned, Holds
<1>8. QED
  BY <1>4, <1>5, <1>6, <1>7 DEF IInv

\* Nothing changes.
LEMMA StutterKeeps ==
  ASSUME IInv, UNCHANGED vars
  PROVE  IInv'
<1> USE DEF vars, table, owner
<1>1. (TypeOK /\ OneSearch /\ Frame)'
  BY DEF IInv, TypeOK, OneSearch, Frame
<1>2. (HavePages /\ MappingsOwned)'
  BY DEF IInv, HavePages, MappingsOwned
<1>3. OneOwner'
  BY DEF IInv, OneOwner, Owns
<1>4. PagesOwned'
  BY DEF IInv, PagesOwned, Holds
<1>5. QED
  BY <1>1, <1>2, <1>3, <1>4 DEF IInv

\* Every step keeps the invariant.
LEMMA StepKeeps == IInv /\ [Next]_vars => IInv'
<1> SUFFICES ASSUME IInv, [Next]_vars
             PROVE  IInv'
  OBVIOUS
<1>1. CASE UNCHANGED vars
  BY <1>1, StutterKeeps
<1>2. CASE Exit
  BY <1>2, ExitKeeps
<1>3. ASSUME NEW p \in Callers, Caller(p)
      PROVE  IInv'
  <2>1. CASE Alloc(p) \/ CopyIn(p) \/ Test(p) \/ Mmap(p) \/ MmapTest(p)
    BY <2>1, MovesKeeps
  <2>2. CASE Scan(p) \/ NothingLeft(p)
    BY <2>2, SearchesKeeps
  <2>3. CASE Down(p)
    BY <2>3, DownKeeps
  <2>4. CASE Reserve(p)
    BY <2>4, ReserveKeeps
  <2>5. CASE FindPart(p)
    BY <2>5, FindPartKeeps
  <2>6. CASE AllocPages(p)
    BY <2>6, AllocPagesKeeps
  <2>7. CASE CopyOut(p)
    BY <2>7, CopyOutKeeps
  <2>8. CASE Free(p)
    BY <2>8, FreeKeeps
  <2>9. CASE FreePages(p)
    BY <2>9, FreePagesKeeps
  <2>10. CASE Clear(p)
    BY <2>10, ClearKeeps
  <2>11. CASE Release(p)
    BY <2>11, ReleaseKeeps
  <2>12. CASE Remap(p)
    BY <2>12, RemapKeeps
  <2>13. CASE Munmap(p)
    BY <2>13, MunmapKeeps
  <2>14. CASE Die(p)
    BY <2>14, DieKeeps
  <2>15. QED
    BY <1>3, <2>1, <2>2, <2>3, <2>4, <2>5, <2>6, <2>7, <2>8, <2>9, <2>10, <2>11, <2>12, <2>13, <2>14 DEF Caller, Continue
<1>4. QED
  BY <1>1, <1>2, <1>3 DEF Next

\* The invariant holds in every state the driver can reach.
THEOREM Invariant == Spec => []IInv
BY InitIInv, StepKeeps, PTL DEF Spec

\* Page by page or as a set, the pages taken are those that devices hold.
LEMMA PagesOwnedAccounted == IInv => PagesAccounted
BY DEF IInv, TypeOK, PagesOwned, PagesAccounted, Holds

-----------------------------------------------------------------------------
\* The variables of the driver and of its callers keep their types.
THEOREM TypeCorrect == Spec => []TypeOK
<1>1. IInv => TypeOK
  BY DEF IInv
<1>2. QED
  BY <1>1, Invariant, PTL

\* find_next_device hands no device out twice, and bpamemio_allocmem gives it
\* back on every failure, for any number of callers and devices.
THEOREM OneOwnerAlways == Spec => []OneOwner
<1>1. IInv => OneOwner
  BY DEF IInv
<1>2. QED
  BY <1>1, Invariant, PTL

\* No page leaks, is freed twice, or goes back to another partition.
THEOREM PagesAccountedAlways == Spec => []PagesAccounted
BY Invariant, PagesOwnedAccounted, PTL

\* bpamem_mmap maps only memory its caller owns.
THEOREM MappingsOwnedAlways == Spec => []MappingsOwned
<1>1. IInv => MappingsOwned
  BY DEF IInv
<1>2. QED
  BY <1>1, Invariant, PTL

\* bpamem_exit gives all memory back, also that of callers that ended.
THEOREM ExitFreesAllAlways == Spec => ExitFreesAll
<1>1. IInv /\ [Next]_vars => [Exit => taken' = {}]_vars
  BY ExitFrees
<1>2. QED
  BY <1>1, Invariant, PTL DEF Spec, ExitFreesAll

-----------------------------------------------------------------------------
(* What a search waits for.                                                *)

\* sem_find_dev is down only while somebody searches.
Searched == sem_find_dev = 0 => \E p \in Callers : pc[p] \in Search

LEMMA SearchedNext ==
  ASSUME IInv, Searched, [Next]_vars
  PROVE  Searched'
<1> USE DEF IInv, TypeOK, Searched, Search, At, Goto
<1>1. CASE UNCHANGED vars
  BY <1>1 DEF vars
<1>2. CASE Exit
  BY <1>2 DEF Exit, Unload
<1>3. ASSUME NEW p \in Callers, NothingLeft(p) \/ Reserve(p)
      PROVE  Searched'
  BY <1>3 DEF NothingLeft, Reserve
<1>4. ASSUME NEW p \in Callers, Down(p) \/ Scan(p)
      PROVE  Searched'
  <2>1. pc'[p] \in Search
    BY <1>4 DEF Down, Scan
  <2> QED BY <2>1
<1>5. ASSUME NEW p \in Callers,
             \/ Alloc(p) \/ CopyIn(p) \/ FindPart(p) \/ AllocPages(p) \/ CopyOut(p)
             \/ Test(p) \/ FreePages(p) \/ Clear(p) \/ Release(p) \/ MmapTest(p)
             \/ Remap(p) \/ Free(p) \/ Mmap(p) \/ Munmap(p) \/ Die(p)
      PROVE  Searched'
  <2>1. pc[p] \notin Search /\ sem_find_dev' = sem_find_dev
    BY <1>5
       DEF Alloc, CopyIn, FindPart, AllocPages, CopyOut, Test, FreePages, Clear,
           Release, MmapTest, Remap, Free, Mmap, Munmap, Die
  <2>2. \A r \in Callers : r # p => pc'[r] = pc[r]
    BY <1>5
       DEF Alloc, CopyIn, FindPart, AllocPages, CopyOut, Test, FreePages, Clear,
           Release, MmapTest, Remap, Free, Mmap, Munmap, Die
  <2> QED BY <2>1, <2>2
<1> QED
  BY <1>1, <1>2, <1>3, <1>4, <1>5 DEF Next, Caller, Continue

\* Who finds sem_find_dev taken waits for a search that is going on: no way out
\* of an allocation keeps it.
THEOREM WaitsForASearch ==
  Spec => [](\A p \in Callers : pc[p] = "down" /\ sem_find_dev = 0
               => \E r \in Callers \ {p} : pc[r] \in Search)
<1>1. Init => Searched
  BY DEF Init, Searched
<1>2. IInv /\ Searched /\ [Next]_vars => Searched'
  BY SearchedNext
<1>3. Searched => \A p \in Callers : pc[p] = "down" /\ sem_find_dev = 0
                    => \E r \in Callers \ {p} : pc[r] \in Search
  BY DEF Searched, Search
<1> QED
  BY <1>1, <1>2, <1>3, Invariant, PTL DEF Spec

\* The search ends: what a searching caller does takes it to the next device,
\* never past the last, or out of the search, with the semaphore given back.
THEOREM SearchGoesOn ==
  Spec => [][\A p \in Callers :
               /\ pc[p] \in Search
               /\ <<pc'[p], dev'[p]>> # <<pc[p], dev[p]>>
               => \/ /\ pc[p] = "scan" /\ pc'[p] = "scan"
                     /\ dev'[p] = dev[p] + 1 /\ dev'[p] <= NoDev
                  \/ pc[p] = "scan" /\ pc'[p] = "reserve" /\ dev'[p] = dev[p]
                  \/ pc'[p] \notin Search /\ sem_find_dev' = 1]_vars
<1>1. ASSUME IInv, [Next]_vars, NEW p \in Callers, pc[p] \in Search,
             <<pc'[p], dev'[p]>> # <<pc[p], dev[p]>>
      PROVE  \/ /\ pc[p] = "scan" /\ pc'[p] = "scan"
                /\ dev'[p] = dev[p] + 1 /\ dev'[p] <= NoDev
             \/ pc[p] = "scan" /\ pc'[p] = "reserve" /\ dev'[p] = dev[p]
             \/ pc'[p] \notin Search /\ sem_find_dev' = 1
  <2> USE <1>1 DEF IInv, TypeOK, Search, At, Goto
  <2>1. ~(UNCHANGED vars) /\ ~Exit
    BY DEF vars, Exit, Unload
  <2>2. PICK r \in Callers : Caller(r)
    BY <2>1 DEF Next
  <2>3. r = p
    BY <2>2
       DEF Caller, Continue, Alloc, CopyIn, FindPart, AllocPages, CopyOut, Test,
           FreePages, Clear, Release, MmapTest, Remap, Free, Mmap, Munmap, Die,
           Down, Scan, NothingLeft, Reserve
  <2>4. Scan(p) \/ NothingLeft(p) \/ Reserve(p)
    BY <2>2, <2>3
       DEF Caller, Continue, Alloc, CopyIn, FindPart, AllocPages, CopyOut, Test,
           FreePages, Clear, Release, MmapTest, Remap, Free, Mmap, Munmap, Die, Down
  <2>5. sem_find_dev = 0
    BY DEF OneSearch
  <2>6. CASE Scan(p)
    <3>1. dev[p] \in Devs /\ dev[p] \in Nat /\ dev[p] + 1 <= NoDev
      BY <2>6, BpamemAssumption DEF Scan, Devs, NoDev
    <3> QED BY <2>6, <3>1 DEF Scan
  <2>7. CASE NothingLeft(p) \/ Reserve(p)
    BY <2>5, <2>7 DEF NothingLeft, Reserve
  <2> QED BY <2>4, <2>6, <2>7
<1>2. IInv /\ [Next]_vars =>
        \A p \in Callers :
          /\ pc[p] \in Search
          /\ <<pc'[p], dev'[p]>> # <<pc[p], dev[p]>>
          => \/ /\ pc[p] = "scan" /\ pc'[p] = "scan"
                /\ dev'[p] = dev[p] + 1 /\ dev'[p] <= NoDev
             \/ pc[p] = "scan" /\ pc'[p] = "reserve" /\ dev'[p] = dev[p]
             \/ pc'[p] \notin Search /\ sem_find_dev' = 1
  BY <1>1
<1> QED
  BY <1>2, Invariant, PTL DEF Spec
=============================================================================
