---------------------------- MODULE KernelRegion ----------------------------
(***************************************************************************)
(* get_kernel_region_tfp, of which code/iOS/misc/ptwalker.c,               *)
(* code/iOS/easy_dump/dumper.c and code/iOS/misc/doread.c each have a      *)
(* copy: asks for one region of the kernel's address space after another,  *)
(* takes the first that is larger than the memory of the device for the    *)
(* one the kernel's image is in, and keeps its address in a static.        *)
(*                                                                         *)
(* The kernel runs on and changes its map between two of the questions.    *)
(* The programs call the function by CallRegion and go on with             *)
(* kernel_region when rpc is "answered"; IosPtWalker and EasyDump extend   *)
(* this module.                                                            *)
(***************************************************************************)
EXTENDS Integers, FiniteSets

CONSTANTS
  AddrSpace,  (* 2^32: addresses are below it, and sums are modulo it       *)
  MemSize,    (* hw.memsize                                                 *)
  Maps        (* what the map of the kernel may be: sets of regions         *)

RegionType == [start : 0 .. AddrSpace - 1, size : 1 .. AddrSpace - 1]

Disjoint(r, s) == r.start + r.size <= s.start \/ s.start + s.size <= r.start

ASSUME RegionAssumption ==
  /\ AddrSpace \in Nat \ {0} /\ MemSize \in Nat
  /\ Maps \subseteq SUBSET RegionType /\ Maps # {}
  /\ \A map \in Maps :
       /\ \A r \in map : r.start + r.size <= AddrSpace
       /\ \A r, s \in map : r # s => Disjoint(r, s)

VARIABLES
  regions,        \* the kernel's map
  kernel_region,  \* the static of that name: 0, or the address kept
  addr,           \* the address asked for next
  rpc,            \* "idle", "looking" or "answered"
  steady,         \* history: the map has not changed since the search began
  large           \* history: starts of large regions there were meanwhile

regionVars == <<regions, kernel_region, addr, rpc, steady, large>>

-----------------------------------------------------------------------------
LargeIn(map) == {r.start : r \in {s \in map : s.size > MemSize}}

RegionInit ==
  /\ regions \in Maps
  /\ kernel_region = 0
  /\ addr = 0
  /\ rpc = "idle"
  /\ steady = TRUE
  /\ large = {}

(* A call: returns the static at once, unless it is still 0.               *)
CallRegion ==
  /\ rpc = "idle"
  /\ IF kernel_region # 0
       THEN rpc' = "answered" /\ UNCHANGED <<addr, steady, large>>
       ELSE /\ rpc' = "looking"
            /\ addr' = 0
            /\ steady' = TRUE
            /\ large' = LargeIn(regions)
  /\ UNCHANGED <<regions, kernel_region>>

(* vm_region_recurse_64: the region at the address, or else the next one.  *)
AtOrAfter == {r \in regions : r.start + r.size > addr}
Region    == CHOOSE r \in AtOrAfter : \A s \in AtOrAfter : r.start <= s.start

Looking == rpc = "looking"

GiveAnswer == rpc' = "answered" /\ UNCHANGED <<regions, addr, steady, large>>

NoRegion ==
  /\ Looking
  /\ AtOrAfter = {}
  /\ GiveAnswer
  /\ UNCHANGED kernel_region

(* Faulty variants, named after the definition they would replace, stand   *)
(* before it: each is a slip that one of the properties rejects.           *)
TakeLarge_EndAddress ==
  /\ Looking
  /\ AtOrAfter # {}
  /\ Region.size > MemSize
  /\ kernel_region' = Region.start + Region.size
  /\ GiveAnswer

TakeLarge ==
  /\ Looking
  /\ AtOrAfter # {}
  /\ Region.size > MemSize
  /\ kernel_region' = Region.start
  /\ GiveAnswer

RegionEnd == (Region.start + Region.size) % AddrSpace

LastRegion ==
  /\ Looking
  /\ AtOrAfter # {}
  /\ Region.size <= MemSize
  /\ RegionEnd <= Region.start
  /\ GiveAnswer
  /\ UNCHANGED kernel_region

NextRegion_Wraps ==
  /\ Looking
  /\ AtOrAfter # {}
  /\ Region.size <= MemSize
  /\ addr' = RegionEnd
  /\ UNCHANGED <<regions, kernel_region, rpc, steady, large>>

NextRegion ==
  /\ Looking
  /\ AtOrAfter # {}
  /\ Region.size <= MemSize
  /\ RegionEnd > Region.start
  /\ addr' = RegionEnd
  /\ UNCHANGED <<regions, kernel_region, rpc, steady, large>>

Search == NoRegion \/ TakeLarge \/ LastRegion \/ NextRegion

(* The kernel maps and unmaps regions; only a search sees it.              *)
MapChanges ==
  /\ Looking
  /\ regions' \in Maps \ {regions}
  /\ steady' = FALSE
  /\ large' = large \cup LargeIn(regions')
  /\ UNCHANGED <<kernel_region, addr, rpc>>

(* The caller has the answer.                                              *)
EndCall ==
  /\ rpc = "answered"
  /\ rpc' = "idle"
  /\ UNCHANGED <<regions, kernel_region, addr, steady, large>>

-----------------------------------------------------------------------------
(* Properties                                                              *)

RegionTypeOK ==
  /\ regions \in Maps
  /\ kernel_region \in 0 .. AddrSpace - 1
  /\ addr \in 0 .. AddrSpace - 1
  /\ rpc \in {"idle", "looking", "answered"}
  /\ steady \in BOOLEAN
  /\ large \subseteq 0 .. AddrSpace - 1

(* get_kernel_region_tfp, for every map, those with a region at address 0  *)
(* and with one that ends the address space included: an address it gives  *)
(* is the start of a large region that existed during the search that      *)
(* found it, however the map changed; and with a map that did not change   *)
(* it is the lowest one, and 0 only if there is none above address 0 or    *)
(* one lies at 0.                                                          *)
RegionIsFirstLarge ==
  rpc = "answered" =>
    /\ kernel_region \in large \cup {0}
    /\ steady =>
         IF large = {} THEN kernel_region = 0
         ELSE kernel_region \in large /\ \A a \in large : kernel_region <= a
=============================================================================
