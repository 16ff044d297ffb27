------------------------------- MODULE Bpamem -------------------------------
(***************************************************************************)
(* The plane memory driver (tdt/cvs/driver/bpamem/bpamem.c): a table of    *)
(* MAX_BPA_ALLOCS devices, each of which may hold pages of a partition of  *)
(* the memory, and the system calls of the processes that use them.        *)
(*                                                                         *)
(* Only the search for a free device is under the semaphore sem_find_dev;  *)
(* everything else reads and writes the table without a lock.  The steps   *)
(* of the model are the single accesses to what is shared, so nothing      *)
(* depends on the kernel running one ioctl at a time.                      *)
(*                                                                         *)
(* The processes use a device as all callers in the repository do: the     *)
(* process that ALLOCMEM gave the device to maps it, unmaps it and frees   *)
(* it, once.  It may also end before it has freed it, which the driver is  *)
(* not told: release() does nothing.                                       *)
(*                                                                         *)
(* The pages of one allocation are one element of Pages, whatever its      *)
(* size.                                                                   *)
(***************************************************************************)
EXTENDS Naturals

CONSTANTS
  Callers,          \* processes
  MAX_BPA_ALLOCS,
  Pages, NoPage,    \* runs of pages; phys_addr == 0
  Parts, NoPart,    \* partitions by name; part == NULL
  PartOf            \* where pages lie

ASSUME BpamemAssumption ==
  /\ MAX_BPA_ALLOCS \in Nat
  /\ NoPage \notin Pages
  /\ NoPart \notin Parts
  /\ PartOf \in [Pages -> Parts]

VARIABLES
  used, part, phys_addr,  \* bpamem_dev
  sem_find_dev,
  taken,       \* pages bpa2 has given out
  pc, dev,     \* where a caller is in the driver; the local dev
  device_num,  \* the device a caller was given
  mapped,      \* what a caller has mapped
  lost         \* devices whose caller has ended

table == <<used, part, phys_addr>>
owner == <<device_num, mapped, lost>>
vars == <<table, sem_find_dev, taken, pc, dev, owner>>

Devs == 0 .. MAX_BPA_ALLOCS - 1
NoDev == MAX_BPA_ALLOCS

At(p, here) == pc[p] = here
Goto(p, there) == pc' = [pc EXCEPT ![p] = there]

-----------------------------------------------------------------------------
(* bpamemio_allocmem                                                       *)

Alloc(p) ==
  /\ At(p, "idle") /\ device_num[p] = NoDev
  /\ Goto(p, "down")
  /\ UNCHANGED <<table, sem_find_dev, taken, dev, owner>>

DownFree(p) ==  \* variant: the semaphore is not taken
  /\ At(p, "down")
  /\ dev' = [dev EXCEPT ![p] = 0]
  /\ Goto(p, "scan")
  /\ UNCHANGED <<table, sem_find_dev, taken, owner>>

\* find_next_device
Down(p) ==
  /\ At(p, "down") /\ sem_find_dev > 0
  /\ sem_find_dev' = sem_find_dev - 1
  /\ dev' = [dev EXCEPT ![p] = 0]
  /\ Goto(p, "scan")
  /\ UNCHANGED <<table, taken, owner>>

Scan(p) ==
  /\ At(p, "scan") /\ dev[p] \in Devs
  /\ \/ used[dev[p]] /\ dev' = [dev EXCEPT ![p] = @ + 1] /\ UNCHANGED pc
     \/ ~used[dev[p]] /\ Goto(p, "reserve") /\ UNCHANGED dev
  /\ UNCHANGED <<table, sem_find_dev, taken, owner>>

NothingLeftWaits(p) ==  \* variant: searches until a device is given back
  /\ At(p, "scan") /\ dev[p] = NoDev
  /\ dev' = [dev EXCEPT ![p] = 0]
  /\ UNCHANGED <<table, sem_find_dev, taken, pc, owner>>

NothingLeft(p) ==
  /\ At(p, "scan") /\ dev[p] = NoDev
  /\ sem_find_dev' = sem_find_dev + 1
  /\ Goto(p, "idle")
  /\ UNCHANGED <<table, taken, dev, owner>>

Reserve(p) ==
  /\ At(p, "reserve")
  /\ used' = [used EXCEPT ![dev[p]] = TRUE]
  /\ sem_find_dev' = sem_find_dev + 1
  /\ Goto(p, "copyIn")
  /\ UNCHANGED <<part, phys_addr, taken, dev, owner>>

CopyIn(p) ==
  /\ At(p, "copyIn")
  /\ Goto(p, "findPart") \/ Goto(p, "release")
  /\ UNCHANGED <<table, sem_find_dev, taken, dev, owner>>

FindPart(p) ==
  /\ At(p, "findPart")
  /\ \E q \in Parts \cup {NoPart} :
       /\ part' = [part EXCEPT ![dev[p]] = q]
       /\ Goto(p, IF q = NoPart THEN "release" ELSE "allocPages")
  /\ UNCHANGED <<used, phys_addr, sem_find_dev, taken, dev, owner>>

AllocPages(p) ==
  /\ At(p, "allocPages")
  /\ \/ \E g \in Pages \ taken :
          /\ PartOf[g] = part[dev[p]]
          /\ taken' = taken \cup {g}
          /\ phys_addr' = [phys_addr EXCEPT ![dev[p]] = g]
          /\ Goto(p, "copyOut")
     \/ /\ phys_addr' = [phys_addr EXCEPT ![dev[p]] = NoPage]
        /\ Goto(p, "release")
        /\ UNCHANGED taken
  /\ UNCHANGED <<used, part, sem_find_dev, dev, owner>>

CopyOutLeaks(p) ==  \* variant: only the device is given back
  /\ At(p, "copyOut")
  /\ \/ Goto(p, "idle") /\ device_num' = [device_num EXCEPT ![p] = dev[p]]
     \/ Goto(p, "clear") /\ UNCHANGED device_num
  /\ UNCHANGED <<table, sem_find_dev, taken, dev, mapped, lost>>

CopyOut(p) ==
  /\ At(p, "copyOut")
  /\ \/ Goto(p, "idle") /\ device_num' = [device_num EXCEPT ![p] = dev[p]]
     \/ Goto(p, "freePages") /\ UNCHANGED device_num
  /\ UNCHANGED <<table, sem_find_dev, taken, dev, mapped, lost>>

-----------------------------------------------------------------------------
(* bpamemio_deallocmem, and how a failed allocation undoes what it did.    *)

Free(p) ==
  /\ At(p, "idle") /\ device_num[p] # NoDev /\ mapped[p] = NoPage
  /\ dev' = [dev EXCEPT ![p] = device_num[p]]
  /\ device_num' = [device_num EXCEPT ![p] = NoDev]
  /\ Goto(p, "test")
  /\ UNCHANGED <<table, sem_find_dev, taken, mapped, lost>>

Test(p) ==
  /\ At(p, "test")
  /\ Goto(p, IF used[dev[p]] THEN "freePages" ELSE "idle")
  /\ UNCHANGED <<table, sem_find_dev, taken, dev, owner>>

\* bpa2_free_pages
FreePages(p) ==
  /\ At(p, "freePages")
  /\ taken' = taken \ {g \in Pages : /\ g = phys_addr[dev[p]]
                                     /\ PartOf[g] = part[dev[p]]}
  /\ Goto(p, "clear")
  /\ UNCHANGED <<table, sem_find_dev, dev, owner>>

Clear(p) ==
  /\ At(p, "clear")
  /\ phys_addr' = [phys_addr EXCEPT ![dev[p]] = NoPage]
  /\ Goto(p, "release")
  /\ UNCHANGED <<used, part, sem_find_dev, taken, dev, owner>>

ReleaseUps(p) ==  \* variant: gives back a semaphore it does not hold
  /\ At(p, "release")
  /\ used' = [used EXCEPT ![dev[p]] = FALSE]
  /\ sem_find_dev' = sem_find_dev + 1
  /\ Goto(p, "idle")
  /\ UNCHANGED <<part, phys_addr, taken, dev, owner>>

Release(p) ==
  /\ At(p, "release")
  /\ used' = [used EXCEPT ![dev[p]] = FALSE]
  /\ Goto(p, "idle")
  /\ UNCHANGED <<part, phys_addr, sem_find_dev, taken, dev, owner>>

-----------------------------------------------------------------------------
(* bpamem_mmap, the end of a process, and the end of the driver.           *)

Mmap(p) ==
  /\ At(p, "idle") /\ device_num[p] # NoDev /\ mapped[p] = NoPage
  /\ Goto(p, "mmap")
  /\ UNCHANGED <<table, sem_find_dev, taken, dev, owner>>

\* the test and the use of phys_addr are two accesses
MmapTest(p) ==
  /\ At(p, "mmap")
  /\ Goto(p, IF used[device_num[p]] /\ phys_addr[device_num[p]] = NoPage
             THEN "idle" ELSE "remap")
  /\ UNCHANGED <<table, sem_find_dev, taken, dev, owner>>

Remap(p) ==
  /\ At(p, "remap")
  /\ \/ mapped' = [mapped EXCEPT ![p] = phys_addr[device_num[p]]]
     \/ UNCHANGED mapped
  /\ Goto(p, "idle")
  /\ UNCHANGED <<table, sem_find_dev, taken, dev, device_num, lost>>

Munmap(p) ==
  /\ At(p, "idle") /\ mapped[p] # NoPage
  /\ mapped' = [mapped EXCEPT ![p] = NoPage]
  /\ UNCHANGED <<table, sem_find_dev, taken, pc, dev, device_num, lost>>

\* the process ends, and the kernel closes and unmaps: bpamem_release
Die(p) ==
  /\ At(p, "idle") /\ device_num[p] # NoDev
  /\ lost' = lost \cup {device_num[p]}
  /\ device_num' = [device_num EXCEPT ![p] = NoDev]
  /\ mapped' = [mapped EXCEPT ![p] = NoPage]
  /\ UNCHANGED <<table, sem_find_dev, taken, pc, dev>>

Unused == \A p \in Callers : At(p, "idle") /\ device_num[p] = NoDev

Unload(devs) ==
  /\ Unused
  /\ taken' = taken \ {g \in Pages : \E d \in devs :
                         used[d] /\ g = phys_addr[d] /\ PartOf[g] = part[d]}
  /\ phys_addr' = [d \in Devs |-> IF d \in devs /\ used[d] THEN NoPage
                                  ELSE phys_addr[d]]
  /\ used' = [d \in Devs |-> used[d] /\ d \notin devs]
  /\ lost' = {}
  /\ UNCHANGED <<part, sem_find_dev, pc, dev, device_num, mapped>>

\* variant: the last device is forgotten
ExitEarly == Unload({d \in Devs : d + 1 \in Devs})

\* rmmod, while no device is open; insmod finds the table as it was left
Exit == Unload(Devs)

-----------------------------------------------------------------------------
Init ==
  /\ used = [d \in Devs |-> FALSE]
  /\ part = [d \in Devs |-> NoPart]
  /\ phys_addr = [d \in Devs |-> NoPage]
  /\ sem_find_dev = 1
  /\ taken = {}
  /\ pc = [p \in Callers |-> "idle"]
  /\ dev = [p \in Callers |-> 0]
  /\ device_num = [p \in Callers |-> NoDev]
  /\ mapped = [p \in Callers |-> NoPage]
  /\ lost = {}

\* a system call goes on
Continue(p) ==
  \/ Down(p) \/ Scan(p) \/ NothingLeft(p) \/ Reserve(p) \/ CopyIn(p)
  \/ FindPart(p) \/ AllocPages(p) \/ CopyOut(p)
  \/ Test(p) \/ FreePages(p) \/ Clear(p) \/ Release(p)
  \/ MmapTest(p) \/ Remap(p)

Caller(p) ==
  Alloc(p) \/ Free(p) \/ Mmap(p) \/ Munmap(p) \/ Die(p) \/ Continue(p)

Next == (\E p \in Callers : Caller(p)) \/ Exit

Spec == Init /\ [][Next]_vars

\* Processes in the kernel are scheduled, and down() serves those that wait in
\* their order.
FairSpec ==
  /\ Spec
  /\ \A p \in Callers : WF_vars(Continue(p)) /\ SF_vars(Down(p))

-----------------------------------------------------------------------------
(* Properties.                                                             *)

Places == {"idle", "down", "scan", "reserve", "copyIn", "findPart", "allocPages",
           "copyOut", "test", "freePages", "clear", "release", "mmap", "remap"}

\* The types of the variables.
TypeOK ==
  /\ used \in [Devs -> BOOLEAN]
  /\ part \in [Devs -> Parts \cup {NoPart}]
  /\ phys_addr \in [Devs -> Pages \cup {NoPage}]
  /\ sem_find_dev \in {0, 1}
  /\ taken \subseteq Pages
  /\ pc \in [Callers -> Places]
  /\ dev \in [Callers -> Devs \cup {NoDev}]
  /\ device_num \in [Callers -> Devs \cup {NoDev}]
  /\ mapped \in [Callers -> Pages \cup {NoPage}]
  /\ lost \subseteq Devs

\* A caller works on device d, or was given it.
Owns(p, d) ==
  \/ device_num[p] = d
  \/ dev[p] = d /\ pc[p] \in {"copyIn", "findPart", "allocPages", "copyOut",
                              "test", "freePages", "clear", "release"}

\* A device is in use exactly while one caller owns it, or its caller has
\* ended: no search hands out a device twice, and no way out of a failed
\* allocation forgets to give it back.
OneOwner ==
  \A d \in Devs :
    /\ used[d] <=> d \in lost \/ \E p \in Callers : Owns(p, d)
    /\ \A p, r \in Callers : Owns(p, d) /\ Owns(r, d) => p = r
    /\ d \in lost => \A p \in Callers : ~Owns(p, d)

\* The pages a device holds: those of its phys_addr, until they are freed.
Holds(d) ==
  /\ phys_addr[d] # NoPage
  /\ \A p \in Callers : ~(pc[p] = "clear" /\ dev[p] = d)

\* Pages are taken exactly while one device holds them: a failed copy, an
\* unknown partition, exhausted memory or a dead caller neither leak pages nor
\* free them twice, and they go back to the partition they came from.
PagesAccounted ==
  /\ taken = {phys_addr[d] : d \in {c \in Devs : Holds(c)}}
  /\ \A d \in Devs :
       Holds(d) => /\ used[d]
                   /\ PartOf[phys_addr[d]] = part[d]
                   /\ \A c \in Devs : Holds(c) /\ phys_addr[c] = phys_addr[d] => c = d

\* What is mapped is memory the mapping process owns.
MappingsOwned ==
  \A p \in Callers :
    mapped[p] # NoPage => /\ device_num[p] \in Devs
                          /\ mapped[p] = phys_addr[device_num[p]]
                          /\ mapped[p] \in taken

\* When the driver is unloaded all memory is given back, also that of callers
\* that ended without freeing it.
ExitFreesAll == [][Exit => taken' = {}]_vars

\* Every system call returns: sem_find_dev is given back on every way out.
CallsReturn == \A p \in Callers : pc[p] # "idle" ~> pc[p] = "idle"
=============================================================================
