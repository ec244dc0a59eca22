----------------------------- MODULE DevicesProofs -----------------------------
(***************************************************************************)
(* The six parts of Devices, each from an invariant of its own:            *)
(*   the registry, for every step of growth, any modules and failures;     *)
(*   the interrupt tables, for any number of other processors;             *)
(*   the drives, for any number of callers, sectors and calls;             *)
(*   the bus, for any tables of segments and any slots;                    *)
(*   the console, for any cores, texts and exceptions;                     *)
(*   the input line, for any keys, buffer and number of other cores.       *)
(***************************************************************************)
EXTENDS Devices, SequenceTheorems, WellFoundedInduction, TLAPS

-----------------------------------------------------------------------------
(* The registry: Modules *)

Cells == Mods \cup {"junk"}
Arrays == UNION {[0..(n - 1) -> Cells] : n \in Nat}

RegistryTypes ==
    /\ block \in Seq(Arrays) /\ freed \in SUBSET (1..Len(block))
    /\ registered_modules \in 0..Len(block) /\ nptr \in 0..Len(block)
    /\ registered_module_count \in Nat /\ registered_module_cap \in Nat
    /\ modules_pc \in {"idle", "alloc", "copy", "publish", "store"}
    /\ module \in Mods /\ registered \in SUBSET Mods /\ accepted \in Seq(Mods)

(* Block b is in use, has n places and holds the modules that were taken.  *)
Usable(b, n) == b \in 1..Len(block) /\ b \notin freed /\ DOMAIN block[b] = 0..(n - 1)
HoldsAll(b) == \A k \in 1..Len(accepted) : block[b][k - 1] = accepted[k]

(* What the array holds between two calls, and until Copy gives it back.   *)
ArrayInv ==
    modules_pc # "publish" =>
        IF registered_modules = 0 THEN registered_module_cap = 0
        ELSE Usable(registered_modules, registered_module_cap) /\ HoldsAll(registered_modules)

(* What is known at each place of module_register.                         *)
GrowthInv ==
    /\ registered_module_count = Len(accepted)
    /\ registered_module_count <= registered_module_cap
    /\ modules_pc \in {"alloc", "copy"} => registered_module_count = registered_module_cap
    /\ modules_pc = "copy" => /\ nptr # registered_modules
                              /\ Usable(nptr, registered_module_cap + Growth)
    /\ modules_pc = "publish" => Usable(nptr, registered_module_cap) /\ HoldsAll(nptr)
    /\ modules_pc \in {"publish", "store"} => registered_module_count < registered_module_cap
    /\ modules_pc = "store" => registered_modules # 0

(* The module of a call is not in the array yet, and none is there twice.  *)
TakenOnce ==
    /\ modules_pc # "idle" => \A k \in 1..Len(accepted) : accepted[k] # module
    /\ \A k \in 1..Len(accepted) :
          accepted[k] \in registered /\ \A j \in 1..(k - 1) : accepted[j] # accepted[k]

RegistryInv == RegistryTypes /\ ArrayInv /\ GrowthInv /\ TakenOnce

LEMMA RegistryStarts == Registry!Init => RegistryInv
<1>. SUFFICES ASSUME Registry!Init PROVE RegistryInv
  OBVIOUS
<1>1. Len(block) = 0 /\ Len(accepted) = 0 /\ block \in Seq(Arrays) /\ accepted \in Seq(Mods)
  BY DEF Registry!Init
<1>. QED
  BY <1>1 DEF Registry!Init, Registry!NULL, RegistryInv, RegistryTypes, ArrayInv, GrowthInv,
              TakenOnce

(* What RegistryInv says of the array, as RegistryIntact says it.          *)
LEMMA RegistryShows == ASSUME RegistryInv PROVE RegistryIntact
<1>1. ASSUME modules_pc # "publish" PROVE registered_modules \notin freed
  BY <1>1 DEF RegistryInv, RegistryTypes, ArrayInv, Usable
<1>2. ASSUME modules_pc # "publish", NEW k \in 1..Len(accepted)
      PROVE  k - 1 \in DOMAIN Registry!Array /\ Registry!Array[k - 1] = accepted[k]
  <2>1. Len(accepted) \in Nat /\ Len(accepted) <= registered_module_cap
    BY DEF RegistryInv, RegistryTypes, GrowthInv
  <2>2. registered_modules # 0
    BY <1>2, <2>1 DEF RegistryInv, RegistryTypes, ArrayInv
  <2>. QED
    BY <1>2, <2>1, <2>2 DEF RegistryInv, RegistryTypes, ArrayInv, Usable, HoldsAll, Registry!Array
<1>. QED
  BY <1>1, <1>2 DEF RegistryIntact, Registry!RegistryIntact, RegistryInv, GrowthInv, TakenOnce

LEMMA CallKeeps ==
    ASSUME RegistryInv, NEW m \in Mods, Registry!Call(m)
    PROVE  RegistryInv'
<1>1. /\ modules_pc = "idle" /\ modules_pc' \in {"alloc", "store"} /\ module' = m
      /\ modules_pc' = IF registered_modules = 0
                             \/ registered_module_count >= registered_module_cap
                       THEN "alloc" ELSE "store"
      /\ UNCHANGED <<block, freed, registered_modules, registered_module_count,
                     registered_module_cap, nptr, registered, accepted>>
  BY DEF Registry!Call, Registry!fields, Registry!NULL
<1>2. \A k \in 1..Len(accepted) : accepted[k] # m
  <2>. SUFFICES ASSUME NEW k \in 1..Len(accepted), accepted[k] = m PROVE FALSE
    OBVIOUS
  <2>1. k - 1 \in 0..(registered_module_count - 1) /\ Registry!Array[k - 1] = accepted[k]
    BY RegistryShows, <1>1 DEF RegistryIntact, Registry!RegistryIntact, RegistryInv, GrowthInv,
                               RegistryTypes
  <2>. QED
    BY <2>1 DEF Registry!Call, Registry!AlreadyInitialized
<1>. QED
  BY <1>1, <1>2 DEF RegistryInv, RegistryTypes, ArrayInv, GrowthInv, TakenOnce, Usable, HoldsAll

LEMMA AllocKeeps ==
    ASSUME DevicesAssumption, RegistryInv, Registry!Alloc \/ Registry!AllocFails
    PROVE  RegistryInv'
<1>1. CASE Registry!AllocFails
  BY <1>1 DEF Registry!AllocFails, Registry!fields, RegistryInv, RegistryTypes, ArrayInv,
              GrowthInv, TakenOnce, Usable, HoldsAll
<1>2. CASE Registry!Alloc
  <2>. DEFINE new == [k \in 0..(registered_module_cap + Growth - 1) |-> "junk"]
  <2>1. /\ modules_pc = "alloc" /\ modules_pc' = "copy"
        /\ block' = Append(block, new) /\ nptr' = Len(block) + 1
        /\ UNCHANGED <<freed, registered_modules, registered_module_count,
                       registered_module_cap, module, registered, accepted>>
    BY <1>2 DEF Registry!Alloc, Registry!fields
  <2>2. new \in Arrays /\ DOMAIN new = 0..(registered_module_cap + Growth - 1)
    <3>1. registered_module_cap \in Nat /\ Growth \in Nat
      BY DEF DevicesAssumption, RegistryInv, RegistryTypes
    <3>2. \A n \in Nat : [k \in 0..(n - 1) |-> "junk"] \in Arrays
      <4>. TAKE n \in Nat
      <4>1. [k \in 0..(n - 1) |-> "junk"] \in [0..(n - 1) -> Cells]
        BY DEF Cells
      <4>. QED
        BY <4>1 DEF Arrays
    <3>3. PICK n \in Nat : n = registered_module_cap + Growth
      BY <3>1
    <3>4. registered_module_cap + Growth - 1 = n - 1
      BY <3>1, <3>3
    <3>. QED
      BY <3>2, <3>4
  <2>. HIDE DEF new
  <2>3. /\ block' \in Seq(Arrays) /\ Len(block') = Len(block) + 1 /\ Len(block) \in Nat
        /\ \A b \in 1..Len(block) : block'[b] = block[b]
        /\ block'[Len(block) + 1] = new
    BY <2>1, <2>2, AppendProperties DEF RegistryInv, RegistryTypes
  <2>4. RegistryTypes'
    BY <2>1, <2>3 DEF RegistryInv, RegistryTypes
  <2>5. ArrayInv'
    BY <2>1, <2>3 DEF RegistryInv, RegistryTypes, ArrayInv, Usable, HoldsAll
  <2>6. GrowthInv'
    BY <2>1, <2>2, <2>3 DEF RegistryInv, RegistryTypes, GrowthInv, Usable
  <2>7. TakenOnce'
    BY <2>1 DEF RegistryInv, TakenOnce
  <2>. QED
    BY <2>4, <2>5, <2>6, <2>7 DEF RegistryInv
<1>. QED
  BY <1>1, <1>2

LEMMA CopyKeeps ==
    ASSUME DevicesAssumption, RegistryInv, Registry!Copy
    PROVE  RegistryInv'
<1>. DEFINE old == registered_modules
            new == [k \in DOMAIN block[nptr] |->
                       IF k < registered_module_count THEN Registry!Array[k] ELSE block[nptr][k]]
<1>1. /\ modules_pc = "copy" /\ modules_pc' = "publish"
      /\ registered_module_cap' = registered_module_cap + Growth
      /\ UNCHANGED <<registered_modules, registered_module_count, module, nptr,
                     registered, accepted>>
  BY DEF Registry!Copy
<1>2. /\ block \in Seq(Arrays) /\ Len(block) \in Nat /\ nptr \in 1..Len(block)
      /\ nptr \notin freed /\ nptr # old
      /\ DOMAIN block[nptr] = 0..(registered_module_cap + Growth - 1)
      /\ registered_module_count = registered_module_cap
      /\ registered_module_count = Len(accepted)
      /\ registered_module_cap \in Nat /\ Growth \in Nat \ {0}
  BY <1>1 DEF RegistryInv, RegistryTypes, GrowthInv, Usable, DevicesAssumption
<1>3. TakenOnce'
  BY <1>1 DEF RegistryInv, TakenOnce
<1>4. CASE old = 0
  <2>1. block' = block /\ freed' = freed
    BY <1>4 DEF Registry!Copy, Registry!NULL
  <2>2. registered_module_count = 0 /\ Len(accepted) = 0
    BY <1>1, <1>2, <1>4 DEF RegistryInv, ArrayInv
  <2>3. RegistryTypes'
    BY <1>1, <1>2, <2>1 DEF RegistryInv, RegistryTypes
  <2>4. GrowthInv' /\ ArrayInv'
    BY <1>1, <1>2, <2>1, <2>2 DEF GrowthInv, ArrayInv, Usable, HoldsAll
  <2>. QED
    BY <1>3, <2>3, <2>4 DEF RegistryInv
<1>5. CASE old # 0
  <2>1. block' = [block EXCEPT ![nptr] = new] /\ freed' = freed \cup {old}
    BY <1>5 DEF Registry!Copy, Registry!NULL
  <2>2. /\ old \in 1..Len(block) /\ DOMAIN block[old] = 0..(registered_module_cap - 1)
        /\ HoldsAll(old)
    BY <1>1, <1>5 DEF RegistryInv, ArrayInv, Usable
  <2>3. new \in Arrays
    <3>1. registered_module_cap + Growth \in Nat
      BY <1>2
    <3>. DEFINE size == registered_module_cap + Growth
    <3>2. ASSUME NEW b \in 1..Len(block), NEW k \in DOMAIN block[b] PROVE block[b][k] \in Cells
      <4>1. block[b] \in Arrays
        BY <1>2
      <4>. QED
        BY <4>1, <3>2 DEF Arrays
    <3>3. new \in [0..(size - 1) -> Cells]
      BY <1>2, <2>2, <3>2 DEF Registry!Array
    <3>. QED
      BY <3>1, <3>3 DEF Arrays
  <2>5. DOMAIN new = 0..(registered_module_cap + Growth - 1)
    BY <1>2
  <2>6. \A k \in 1..Len(accepted) : new[k - 1] = accepted[k]
    BY <1>2, <2>2 DEF HoldsAll, Registry!Array
  <2>. HIDE DEF new
  <2>4. /\ block' \in Seq(Arrays) /\ Len(block') = Len(block)
        /\ block'[nptr] = new
    BY <1>2, <2>1, <2>3, ExceptSeq
  <2>7. RegistryTypes'
    BY <1>1, <1>2, <2>1, <2>2, <2>4 DEF RegistryInv, RegistryTypes
  <2>8. GrowthInv' /\ ArrayInv'
    BY <1>1, <1>2, <2>1, <2>4, <2>5, <2>6 DEF GrowthInv, ArrayInv, Usable, HoldsAll
  <2>. QED
    BY <1>3, <2>7, <2>8 DEF RegistryInv
<1>. QED
  BY <1>4, <1>5

LEMMA PublishKeeps ==
    ASSUME RegistryInv, Registry!Publish
    PROVE  RegistryInv'
<1>1. nptr # 0
  BY DEF Registry!Publish, RegistryInv, RegistryTypes, GrowthInv, Usable
<1>. QED
  BY <1>1 DEF Registry!Publish, RegistryInv, RegistryTypes, ArrayInv, GrowthInv, TakenOnce,
              Usable, HoldsAll

LEMMA StoreKeeps ==
    ASSUME RegistryInv, Registry!Store
    PROVE  RegistryInv'
<1>. DEFINE b == registered_modules
            n == registered_module_count
            new == [block[b] EXCEPT ![n] = module]
<1>1. /\ modules_pc = "store" /\ modules_pc' = "idle"
      /\ block' = [block EXCEPT ![b] = new]
      /\ registered_module_count' = n + 1
      /\ registered' = registered \cup {module} /\ accepted' = Append(accepted, module)
      /\ UNCHANGED <<freed, registered_modules, registered_module_cap, module, nptr>>
  BY DEF Registry!Store
<1>2. /\ block \in Seq(Arrays) /\ Len(block) \in Nat /\ n \in Nat
      /\ b \in 1..Len(block) /\ b \notin freed /\ DOMAIN block[b] = 0..(registered_module_cap - 1)
      /\ HoldsAll(b)
      /\ registered_module_cap \in Nat /\ n < registered_module_cap /\ n = Len(accepted)
      /\ module \in Mods /\ accepted \in Seq(Mods) /\ registered \in SUBSET Mods
  BY <1>1 DEF RegistryInv, RegistryTypes, ArrayInv, GrowthInv, Usable
<1>3. /\ accepted' \in Seq(Mods) /\ Len(accepted') = n + 1 /\ accepted'[n + 1] = module
      /\ \A k \in 1..n : accepted'[k] = accepted[k]
  BY <1>1, <1>2, AppendProperties
<1>4. new \in Arrays
  <2>1. PICK size \in Nat : block[b] \in [0..(size - 1) -> Cells]
    BY <1>2 DEF Arrays
  <2>2. new \in [0..(size - 1) -> Cells]
    BY <1>2, <2>1 DEF Cells
  <2>. QED
    BY <2>2 DEF Arrays
<1>5. /\ DOMAIN new = 0..(registered_module_cap - 1) /\ new[n] = module
      /\ \A k \in 0..(n - 1) : new[k] = block[b][k]
  BY <1>2
<1>. HIDE DEF new
<1>6. block' \in Seq(Arrays) /\ Len(block') = Len(block) /\ block'[b] = new
  BY <1>1, <1>2, <1>4, ExceptSeq
<1>7. RegistryTypes'
  BY <1>1, <1>2, <1>3, <1>6 DEF RegistryInv, RegistryTypes
<1>8. ArrayInv'
  <2>1. Usable(b, registered_module_cap)'
    BY <1>1, <1>2, <1>5, <1>6 DEF Usable
  <2>2. HoldsAll(b)'
    <3>. SUFFICES ASSUME NEW k \in 1..(n + 1) PROVE new[k - 1] = accepted'[k]
      BY <1>1, <1>3, <1>6 DEF HoldsAll
    <3>1. CASE k = n + 1
      BY <1>2, <1>3, <1>5, <3>1
    <3>2. CASE k \in 1..n
      <4>1. k - 1 \in 0..(n - 1)
        BY <1>2, <3>2
      <4>. QED
        BY <1>2, <1>3, <1>5, <3>2, <4>1 DEF HoldsAll
    <3>. QED
      BY <1>2, <3>1, <3>2
  <2>. QED
    BY <1>1, <1>2, <2>1, <2>2 DEF ArrayInv
<1>9. GrowthInv'
  BY <1>1, <1>2, <1>3 DEF GrowthInv
<1>10. TakenOnce'
  BY <1>1, <1>2, <1>3 DEF RegistryInv, TakenOnce
<1>. QED
  BY <1>7, <1>8, <1>9, <1>10 DEF RegistryInv

LEMMA RegistryKeeps ==
    ASSUME DevicesAssumption, RegistryInv, Registry!Next \/ UNCHANGED modulesVars
    PROVE  RegistryInv'
<1>1. CASE UNCHANGED modulesVars
  BY <1>1 DEF modulesVars, RegistryInv, RegistryTypes, ArrayInv, GrowthInv, TakenOnce, Usable,
              HoldsAll
<1>2. CASE Registry!Next
  BY <1>2, CallKeeps, AllocKeeps, CopyKeeps, PublishKeeps, StoreKeeps DEF Registry!Next
<1>. QED
  BY <1>1, <1>2

(* RegistryIntact of Modules: the array that registered_modules points to  *)
(* is not freed memory and holds exactly the modules that were accepted,   *)
(* through every growth of module_register and every failure of one.       *)
THEOREM RegistryIntactHolds == DevicesSpec => []RegistryIntact
<1>1. DevicesInit => RegistryInv
  BY RegistryStarts DEF DevicesInit
<1>2. RegistryInv /\ [DevicesNext]_deviceVars => RegistryInv'
  <2>. SUFFICES ASSUME RegistryInv, [DevicesNext]_deviceVars PROVE RegistryInv'
    OBVIOUS
  <2>1. Registry!Next \/ UNCHANGED modulesVars
    BY DEF DevicesNext, deviceVars
  <2>. QED
    BY <2>1, RegistryKeeps, DevicesAssumption
<1>. QED
  BY <1>1, <1>2, RegistryShows, PTL DEF DevicesSpec
-----------------------------------------------------------------------------
(* The interrupt tables: Idt *)

Complete(t) == t \in {"local", "global"} /\ entries[t] = Interrupts!Vectors

InterruptTypes ==
    /\ idt \in {"null", "local", "global"} /\ idt_ptr \in {"null", "local", "global"}
    /\ base \in [{"local", "global"} -> {"null", "local", "global"}]
    /\ entries \in [{"local", "global"} -> SUBSET Interrupts!Vectors]
    /\ idtr \in [Interrupts!Cores -> {"none", "null", "local", "global"}]
    /\ iflag \in [Interrupts!Cores -> BOOLEAN]
    /\ idt_pc \in [Interrupts!Cores -> {"idt_init", "booted", "alloc_ptr", "base", "entries",
                                        "smp_init", "off", "entry", "loop"}]
    /\ taken \in [Interrupts!Cores -> {"none", "handled", "no table", "no entry"}]

(* The two passes of the bootstrap processor through idt_exinit.           *)
BuildInv ==
    CASE idt_pc[Bsp] = "idt_init" -> idtr[Bsp] = "none"
      [] idt_pc[Bsp] \in {"base", "entries"} ->
            /\ idt = idt_ptr /\ idt # "null"
            /\ idt_pc[Bsp] = "entries" => base[idt] = idt
            /\ idtr[Bsp] = IF idt = "local" THEN "none" ELSE "local"
      [] idt_pc[Bsp] = "booted" -> idtr[Bsp] = "local"
      [] idt_pc[Bsp] = "alloc_ptr" -> idt = "global" /\ idtr[Bsp] = "local"
      [] idt_pc[Bsp] = "smp_init" -> idtr[Bsp] # "none"
      [] OTHER -> FALSE

(* When the others start, the globals lead to a complete table or to none. *)
StartInv ==
    IF idt_pc[Bsp] = "smp_init"
    THEN idt = "null" \/ idt_ptr = "null" \/ Complete(base[idt_ptr])
    ELSE \A c \in APs : idt_pc[c] = "off"

(* A core that takes interrupts has a table, unless there is none.         *)
CoreInv ==
    \A c \in Interrupts!Cores :
        /\ idtr[c] # "none" => Complete(idtr[c])
        /\ c = Bsp /\ iflag[c] => idtr[c] # "none"
        /\ c # Bsp => idt_pc[c] \in {"off", "entry", "loop"}
        /\ c # Bsp /\ idt_pc[c] = "loop" /\ idtr[c] = "none" => idt = "null" \/ idt_ptr = "null"
        /\ taken[c] = "no table" => /\ idt_pc[Bsp] = "smp_init"
                                    /\ idt = "null" \/ idt_ptr = "null"

InterruptInv == InterruptTypes /\ BuildInv /\ StartInv /\ CoreInv

LEMMA InterruptsStart == ASSUME DevicesAssumption, Interrupts!Init PROVE InterruptInv
BY DEF DevicesAssumption, Interrupts!Init, Interrupts!Cores, Interrupts!Tables, InterruptInv,
       InterruptTypes, BuildInv, StartInv, CoreInv

LEMMA InterruptsShow == ASSUME InterruptInv PROVE LoadedIsComplete
BY DEF LoadedIsComplete, Interrupts!LoadedIsComplete, InterruptInv, CoreInv, Complete

(* The steps of idt_exinit but lidt: no core loads a table or starts.      *)
LEMMA BuildKeeps ==
    ASSUME DevicesAssumption, InterruptInv,
           \/ Interrupts!InitLocal \/ Interrupts!InitGlobal \/ Interrupts!NoIdt
           \/ Interrupts!AllocPtr \/ Interrupts!NoPtr \/ Interrupts!SetBase
    PROVE  InterruptInv'
<1>1. /\ Bsp \in Interrupts!Cores /\ idt_pc[Bsp] # "smp_init"
      /\ UNCHANGED <<entries, idtr, iflag, taken>>
      /\ \A c \in Interrupts!Cores : c # Bsp => idt_pc'[c] = idt_pc[c]
  BY DEF InterruptInv, InterruptTypes, Interrupts!Cores, Interrupts!Goto, Interrupts!InitLocal,
         Interrupts!InitGlobal, Interrupts!NoIdt, Interrupts!AllocPtr, Interrupts!NoPtr,
         Interrupts!SetBase
<1>2. InterruptTypes' /\ BuildInv'
  <2>1. CASE Interrupts!InitLocal
    BY <1>1, <2>1 DEF InterruptInv, InterruptTypes, BuildInv, Interrupts!InitLocal, Interrupts!Goto
  <2>2. CASE Interrupts!InitGlobal \/ Interrupts!NoIdt
    BY <1>1, <2>2 DEF InterruptInv, InterruptTypes, BuildInv, Interrupts!InitGlobal,
                      Interrupts!NoIdt, Interrupts!Goto
  <2>3. CASE Interrupts!AllocPtr \/ Interrupts!NoPtr
    BY <1>1, <2>3 DEF InterruptInv, InterruptTypes, BuildInv, Interrupts!AllocPtr,
                      Interrupts!NoPtr, Interrupts!Goto
  <2>4. CASE Interrupts!SetBase
    BY <1>1, <2>4 DEF InterruptInv, InterruptTypes, BuildInv, Interrupts!SetBase, Interrupts!Goto
  <2>. QED
    BY <2>1, <2>2, <2>3, <2>4
<1>3. StartInv'
  <2>1. \A c \in APs : c \in Interrupts!Cores /\ c # Bsp /\ idt_pc[c] = "off"
    BY <1>1 DEF DevicesAssumption, InterruptInv, StartInv, Interrupts!Cores
  <2>2. idt_pc'[Bsp] = "smp_init" => idt' = "null" \/ idt_ptr' = "null"
    BY <1>1 DEF InterruptInv, InterruptTypes, Interrupts!Goto, Interrupts!InitLocal,
         Interrupts!InitGlobal, Interrupts!NoIdt, Interrupts!AllocPtr, Interrupts!NoPtr,
         Interrupts!SetBase
  <2>. QED
    BY <1>1, <2>1, <2>2 DEF StartInv
<1>4. CoreInv'
  <2>. SUFFICES ASSUME NEW c \in Interrupts!Cores
                PROVE  /\ idtr[c] # "none" => Complete(idtr[c])'
                       /\ c = Bsp /\ iflag[c] => idtr[c] # "none"
                       /\ c # Bsp => idt_pc'[c] = "off"
                       /\ taken[c] # "no table"
    BY <1>1 DEF CoreInv
  <2>1. c # Bsp => c \in APs
    BY DEF Interrupts!Cores
  <2>2. c # Bsp => idt_pc'[c] = "off"
    BY <1>1, <2>1 DEF InterruptInv, StartInv
  <2>3. /\ idtr[c] # "none" => Complete(idtr[c])
        /\ c = Bsp /\ iflag[c] => idtr[c] # "none"
        /\ taken[c] # "no table"
    BY <1>1 DEF InterruptInv, CoreInv
  <2>. QED
    BY <1>1, <2>2, <2>3 DEF Complete
<1>. QED
  BY <1>2, <1>3, <1>4 DEF InterruptInv

LEMMA EntryKeeps ==
    ASSUME DevicesAssumption, InterruptInv, NEW v \in Interrupts!Vectors, Interrupts!set_idt_entry(v)
    PROVE  InterruptInv'
<1>1. /\ idt_pc[Bsp] = "entries" /\ idt \in {"local", "global"}
      /\ entries' = [entries EXCEPT ![idt] = @ \cup {v}]
      /\ UNCHANGED <<idt, idt_ptr, base, idtr, iflag, idt_pc, taken>>
  BY DEF InterruptInv, InterruptTypes, BuildInv, Interrupts!set_idt_entry
<1>2. /\ entries' \in [{"local", "global"} -> SUBSET Interrupts!Vectors]
      /\ \A t \in {"local", "global"} : entries[t] = Interrupts!Vectors => entries'[t] = entries[t]
  <2>1. /\ entries \in [{"local", "global"} -> SUBSET Interrupts!Vectors]
        /\ entries[idt] \subseteq Interrupts!Vectors /\ v \in Interrupts!Vectors
    BY <1>1 DEF InterruptInv, InterruptTypes
  <2>2. entries[idt] \cup {v} \subseteq Interrupts!Vectors
    BY <2>1
  <2>3. entries' \in [{"local", "global"} -> SUBSET Interrupts!Vectors]
    BY <1>1, <2>1, <2>2
  <2>4. ASSUME NEW t \in {"local", "global"}, entries[t] = Interrupts!Vectors
        PROVE  entries'[t] = entries[t]
    <3>1. CASE t = idt
      <4>1. entries'[t] = entries[t] \cup {v}
        BY <1>1, <2>1, <3>1
      <4>. QED
        BY <2>1, <2>4, <4>1
    <3>2. CASE t # idt
      BY <1>1, <2>1, <3>2
    <3>. QED
      BY <3>1, <3>2
  <2>. QED
    BY <2>3, <2>4
<1>3. InterruptTypes' /\ BuildInv'
  BY <1>1, <1>2 DEF InterruptInv, InterruptTypes, BuildInv
<1>4. StartInv'
  BY <1>1 DEF InterruptInv, StartInv
<1>5. CoreInv'
  <2>. SUFFICES ASSUME NEW c \in Interrupts!Cores, idtr[c] # "none" PROVE Complete(idtr[c])'
    BY <1>1 DEF InterruptInv, CoreInv
  <2>1. Complete(idtr[c])
    BY DEF InterruptInv, CoreInv
  <2>. QED
    BY <1>1, <1>2, <2>1 DEF Complete
<1>. QED
  BY <1>3, <1>4, <1>5 DEF InterruptInv

LEMMA LoadKeeps ==
    ASSUME DevicesAssumption, InterruptInv, Interrupts!Load
    PROVE  InterruptInv'
<1>1. /\ Bsp \in Interrupts!Cores /\ idt_pc[Bsp] = "entries" /\ Complete(idt)
      /\ idt_ptr = idt /\ base[idt] = idt
      /\ idt_pc' = [idt_pc EXCEPT ![Bsp] = IF idt = "local" THEN "booted" ELSE "smp_init"]
      /\ idtr' = [idtr EXCEPT ![Bsp] = idt] /\ iflag' = [iflag EXCEPT ![Bsp] = TRUE]
      /\ UNCHANGED <<idt, idt_ptr, base, entries, taken>>
  BY DEF InterruptInv, InterruptTypes, BuildInv, Interrupts!Load, Interrupts!Goto, Complete,
         Interrupts!Cores
<1>2. InterruptTypes'
  BY <1>1 DEF InterruptInv, InterruptTypes, Complete
<1>3. BuildInv' /\ StartInv'
  BY <1>1 DEF DevicesAssumption, InterruptInv, InterruptTypes, BuildInv, StartInv, Complete,
              Interrupts!Cores
<1>4. CoreInv'
  BY <1>1 DEF DevicesAssumption, InterruptInv, InterruptTypes, StartInv, CoreInv, Complete,
              Interrupts!Cores
<1>. QED
  BY <1>2, <1>3, <1>4 DEF InterruptInv

LEMMA ApKeeps ==
    ASSUME DevicesAssumption, InterruptInv, NEW c \in APs,
           Interrupts!StartAp(c) \/ Interrupts!idt_load_local(c) \/ Interrupts!Sti(c)
    PROVE  InterruptInv'
<1>1. /\ c \in Interrupts!Cores /\ c # Bsp /\ idt_pc[Bsp] = "smp_init"
      /\ Bsp \in Interrupts!Cores
  BY DEF DevicesAssumption, InterruptInv, StartInv, Interrupts!Cores, Interrupts!Goto,
         Interrupts!StartAp, Interrupts!idt_load_local, Interrupts!Sti
<1>2. CASE Interrupts!StartAp(c)
  BY <1>1, <1>2 DEF InterruptInv, InterruptTypes, BuildInv, StartInv, CoreInv, Complete,
                    Interrupts!StartAp, Interrupts!Goto
<1>3. CASE Interrupts!idt_load_local(c)
  <2>1. /\ idt_pc[c] = "entry" /\ idt_pc' = [idt_pc EXCEPT ![c] = "loop"]
        /\ idtr' = [idtr EXCEPT ![c] = IF idt = "null" \/ idt_ptr = "null" THEN idtr[c]
                                       ELSE base[idt_ptr]]
        /\ UNCHANGED <<idt, idt_ptr, base, entries, iflag, taken>>
    BY <1>3 DEF Interrupts!idt_load_local, Interrupts!Goto
  <2>2. idt # "null" /\ idt_ptr # "null" => Complete(base[idt_ptr])
    BY <1>1 DEF InterruptInv, StartInv
  <2>. QED
    BY <1>1, <2>1, <2>2 DEF InterruptInv, InterruptTypes, BuildInv, StartInv, CoreInv, Complete
<1>4. CASE Interrupts!Sti(c)
  BY <1>1, <1>4 DEF InterruptInv, InterruptTypes, BuildInv, StartInv, CoreInv, Complete,
                    Interrupts!Sti
<1>. QED
  BY <1>2, <1>3, <1>4

LEMMA InterruptKeeps ==
    ASSUME DevicesAssumption, InterruptInv, NEW c \in Interrupts!Cores,
           NEW v \in Interrupts!Vectors, Interrupts!Interrupt(c, v)
    PROVE  InterruptInv'
<1>1. PICK t \in {"handled", "no table", "no entry"} :
          (t = "no table" => idtr[c] = "none") /\ taken' = [taken EXCEPT ![c] = t]
  BY DEF Interrupts!Interrupt
<1>2. /\ iflag[c] /\ idt_pc[c] \in {"loop", "smp_init"}
      /\ taken' \in [Interrupts!Cores -> {"none", "handled", "no table", "no entry"}]
      /\ \A d \in Interrupts!Cores : taken'[d] = "no table" =>
            taken[d] = "no table" \/ t = "no table"
      /\ UNCHANGED <<idt, idt_ptr, base, entries, idtr, iflag, idt_pc>>
  BY <1>1 DEF InterruptInv, InterruptTypes, Interrupts!Interrupt
<1>3. idtr[c] = "none" => /\ idt_pc[Bsp] = "smp_init"
                          /\ idt = "null" \/ idt_ptr = "null"
  BY <1>2 DEF InterruptInv, CoreInv, StartInv, Interrupts!Cores
<1>. QED
  BY <1>1, <1>2, <1>3 DEF InterruptInv, InterruptTypes, BuildInv, StartInv, CoreInv, Complete

LEMMA InterruptsKeep ==
    ASSUME DevicesAssumption, InterruptInv, Interrupts!Next \/ UNCHANGED interruptsVars
    PROVE  InterruptInv'
<1>1. CASE UNCHANGED interruptsVars
  BY <1>1 DEF interruptsVars, InterruptInv, InterruptTypes, BuildInv, StartInv, CoreInv, Complete
<1>2. CASE Interrupts!Next
  BY <1>2, BuildKeeps, EntryKeeps, LoadKeeps, ApKeeps, InterruptKeeps DEF Interrupts!Next
<1>. QED
  BY <1>1, <1>2

(* LoadedIsComplete of Idt: no core loads a table of idt.c that is being   *)
(* built or was given up, and one takes an interrupt without a table only  *)
(* after an allocation of idt_exinit has failed.                           *)
THEOREM LoadedIsCompleteHolds == DevicesSpec => []LoadedIsComplete
<1>1. DevicesInit => InterruptInv
  BY InterruptsStart, DevicesAssumption DEF DevicesInit
<1>2. InterruptInv /\ [DevicesNext]_deviceVars => InterruptInv'
  <2>. SUFFICES ASSUME InterruptInv, [DevicesNext]_deviceVars PROVE InterruptInv'
    OBVIOUS
  <2>1. Interrupts!Next \/ UNCHANGED interruptsVars
    BY DEF DevicesNext, deviceVars
  <2>. QED
    BY <2>1, InterruptsKeep, DevicesAssumption
<1>. QED
  BY <1>1, <1>2, InterruptsShow, PTL DEF DevicesSpec
-----------------------------------------------------------------------------
(* The drives: Ata *)

Contents == Callers \cup {"old", "none"}
Commands == [op : {"none", "read", "write", "flush"}, lba : Nat, count : Nat, k : Nat]

DiskTypes ==
    /\ ata_lock \in BOOLEAN
    /\ disk_pc \in [Callers -> {"idle", "lock", "ready", "command", "each", "status", "drq",
                                "flush", "flushed", "ok"}]
    /\ DOMAIN req = Callers
    /\ \A c \in Callers : disk_pc[c] # "idle" => req[c] \in Disk!Requests /\ Disk!Fits(req[c])
    /\ i \in [Callers -> Nat]
    /\ buffer \in [Callers -> [0..(MaxCount - 1) -> Contents]]
    /\ selected \in {0, 1}
    /\ st \in [{0, 1} -> {"ready", "busy", "drq", "err", "fault"}]
    /\ cmd \in [{0, 1} -> Commands]
    /\ cache \in [{0, 1} -> [Sectors -> Contents]]

Inside(c) == disk_pc[c] \notin {"idle", "lock"}
Working(c) == disk_pc[c] \in {"each", "status", "drq"}
Served(c) == disk_pc[c] \in {"flush", "flushed", "ok"}

AloneInside ==
    \A c \in Callers : Inside(c) => ata_lock /\ \A e \in Callers : Inside(e) => e = c

(* Drive d asks for nothing and will not.                                  *)
Quiet(d) == st[d] # "drq" /\ (st[d] = "busy" => cmd[d].k >= cmd[d].count)

(* The command of c's drive is the one of c's call, as far as c is.        *)
Own(c) ==
    cmd[req[c].drive] = [op |-> req[c].op, lba |-> req[c].lba, count |-> req[c].count, k |-> i[c]]

(* A drive that may still ask for data asks the one that works with it.    *)
DrivesInv ==
    \A d \in {0, 1} : Quiet(d) \/ \E c \in Callers : Working(c) /\ Own(c) /\ req[c].drive = d

(* A command that was ignored leaves its caller with a drive that is Quiet:*)
(* it gets no data, right or wrong.                                        *)
CallerOk(c) ==
    /\ ~Working(c) /\ ~Served(c) => i[c] = 0
    /\ Working(c) \/ Served(c) => selected = req[c].drive
    /\ Working(c) => /\ i[c] < req[c].count
                     /\ Own(c) \/ (i[c] = 0 /\ Quiet(req[c].drive))
    /\ Served(c) => /\ i[c] = req[c].count
                    /\ Own(c) \/ (req[c].op = "write" /\ cmd[req[c].drive].op = "flush")
    /\ disk_pc[c] \in {"flush", "flushed"} => req[c].op = "write"

ReadOk(c) ==
    disk_pc[c] # "idle" /\ req[c].op = "read" =>
        \A k \in 0..(i[c] - 1) : buffer[c][k] = cache[req[c].drive][req[c].lba + k]

(* A drive loses the sector it has just taken, and then asks for no other. *)
WriteOk(c) ==
    disk_pc[c] # "idle" /\ req[c].op = "write" =>
        /\ \A k \in 0..(i[c] - 2) : cache[req[c].drive][req[c].lba + k] = c
        /\ Working(c) /\ st[req[c].drive] \notin {"err", "fault"} =>
              \A k \in 0..(i[c] - 1) : cache[req[c].drive][req[c].lba + k] = c

CallersInv == \A c \in Callers : CallerOk(c) /\ ReadOk(c) /\ WriteOk(c)

DiskInv == DiskTypes /\ AloneInside /\ DrivesInv /\ CallersInv

LEMMA DiskStarts == ASSUME DevicesAssumption, Disk!Init PROVE DiskInv
<1>1. Disk!Empty \in [0..(MaxCount - 1) -> Contents] /\ Disk!NoCmd \in Commands
  BY DEF Disk!Empty, Disk!NoCmd, Contents, Commands
<1>2. DiskTypes
  BY <1>1 DEF Disk!Init, Disk!Drives, DiskTypes, Contents
<1>3. \A d \in {0, 1} : Quiet(d)
  BY DEF Disk!Init, Disk!Drives, Quiet
<1>4. \A c \in Callers : disk_pc[c] = "idle" /\ i[c] = 0
  BY DEF Disk!Init
<1>. QED
  BY <1>2, <1>3, <1>4 DEF DiskInv, AloneInside, DrivesInv, CallersInv, CallerOk, ReadOk, WriteOk,
                          Inside, Working, Served

(* At ok every sector asked for is transferred.                            *)
LEMMA DiskShows == ASSUME DiskInv PROVE TransfersTrue
<1>. SUFFICES ASSUME NEW c \in Callers, disk_pc[c] = "ok"
              PROVE  /\ req[c].op = "read" => \A k \in Disk!Asked(c) :
                           buffer[c][k] = cache[req[c].drive][req[c].lba + k]
                     /\ req[c].op = "write" => \A k \in Disk!Asked(c) \ {req[c].count - 1} :
                           cache[req[c].drive][req[c].lba + k] = c
  BY DEF TransfersTrue, Disk!TransfersTrue
<1>1. i[c] = req[c].count /\ i[c] \in Nat /\ ReadOk(c) /\ WriteOk(c)
  BY DEF DiskInv, DiskTypes, CallersInv, CallerOk, Served
<1>. QED
  BY <1>1 DEF ReadOk, WriteOk, Disk!Asked

-----------------------------------------------------------------------------
(* While c is inside no other caller is, and none has begun.               *)
LEMMA OthersOutside ==
    ASSUME DiskInv, NEW c \in Callers, Inside(c)
    PROVE  /\ ata_lock /\ \A e \in Callers : e # c => ~Inside(e)
           /\ \A d \in {0, 1} : Quiet(d) \/ (Working(c) /\ Own(c) /\ req[c].drive = d)
           /\ disk_pc[c] # "idle" /\ req[c] \in Disk!Requests /\ Disk!Fits(req[c])
           /\ req[c].drive \in {0, 1} /\ req[c].count \in 1..MaxCount /\ req[c].lba \in Sectors
           /\ CallerOk(c) /\ ReadOk(c) /\ WriteOk(c)
<1>1. ata_lock /\ \A e \in Callers : e # c => ~Inside(e)
  BY DEF DiskInv, AloneInside
<1>2. \A d \in {0, 1} : Quiet(d) \/ (Working(c) /\ Own(c) /\ req[c].drive = d)
  BY <1>1 DEF DiskInv, DrivesInv, Working, Inside
<1>3. disk_pc[c] # "idle" /\ req[c] \in Disk!Requests /\ Disk!Fits(req[c])
  BY DEF DiskInv, DiskTypes, Inside
<1>. QED
  BY <1>1, <1>2, <1>3 DEF DiskInv, CallersInv, Disk!Requests, Disk!Drives

(* A step of c while no other is inside.                                   *)
LEMMA AloneKeeps ==
    ASSUME DiskInv, NEW c \in Callers,
           \A e \in Callers : e # c => ~Inside(e) /\ disk_pc'[e] = disk_pc[e] /\ i'[e] = i[e],
           DiskTypes', Inside(c)' => ata_lock', CallerOk(c)', ReadOk(c)', WriteOk(c)',
           \A d \in {0, 1} : Quiet(d)' \/ (Working(c)' /\ Own(c)' /\ req'[c].drive = d)
    PROVE  DiskInv'
<1>1. ASSUME NEW e \in Callers, e # c PROVE ~Inside(e)' /\ CallerOk(e)' /\ ReadOk(e)' /\ WriteOk(e)'
  <2>1. disk_pc'[e] \in {"idle", "lock"} /\ i'[e] = 0
    BY <1>1 DEF Inside, DiskInv, CallersInv, CallerOk, Working, Served
  <2>. QED
    BY <2>1 DEF Inside, CallerOk, ReadOk, WriteOk, Working, Served
<1>2. AloneInside'
  BY <1>1 DEF AloneInside
<1>3. CallersInv'
  BY <1>1 DEF CallersInv
<1>4. DrivesInv'
  BY DEF DrivesInv
<1>. QED
  BY <1>2, <1>3, <1>4 DEF DiskInv

-----------------------------------------------------------------------------
LEMMA DiskCallKeeps ==
    ASSUME DiskInv, NEW c \in Callers, Disk!Call(c)
    PROVE  DiskInv'
<1>1. PICK r \in Disk!Requests : Disk!Fits(r) /\ req' = [req EXCEPT ![c] = r]
  BY DEF Disk!Call
<1>2. /\ disk_pc[c] = "idle" /\ disk_pc' = [disk_pc EXCEPT ![c] = "lock"]
      /\ UNCHANGED <<ata_lock, i, buffer, late, selected, st, cmd, cache, disk>>
  BY DEF Disk!Call, Disk!Goto, Disk!drive
<1>3. DiskTypes'
  BY <1>1, <1>2 DEF DiskInv, DiskTypes
<1>4. i[c] = 0
  BY <1>2 DEF DiskInv, CallersInv, CallerOk, Working, Served
<1>5. \A e \in Callers : Inside(e)' = Inside(e) /\ Working(e)' = Working(e) /\ Served(e)' = Served(e)
  BY <1>2 DEF DiskInv, DiskTypes, Inside, Working, Served
<1>6. \A e \in Callers : e # c => req'[e] = req[e] /\ disk_pc'[e] = disk_pc[e]
  BY <1>1, <1>2 DEF DiskInv, DiskTypes
<1>7. disk_pc'[c] = "lock"
  BY <1>2 DEF DiskInv, DiskTypes
<1>8. AloneInside'
  BY <1>2, <1>5 DEF DiskInv, AloneInside
<1>9. \A d \in {0, 1} : Quiet(d)' = Quiet(d)
  BY <1>2 DEF Quiet
<1>10. DrivesInv'
  <2>. SUFFICES ASSUME NEW d \in {0, 1}, NEW e \in Callers,
                       Working(e), Own(e), req[e].drive = d
                PROVE  Working(e)' /\ Own(e)' /\ req'[e].drive = d
    BY <1>9 DEF DiskInv, DrivesInv
  <2>1. e # c
    BY <1>2 DEF Working
  <2>. QED
    BY <1>2, <1>5, <1>6, <2>1 DEF Own
<1>11. ASSUME NEW e \in Callers PROVE CallerOk(e)' /\ ReadOk(e)' /\ WriteOk(e)'
  <2>1. CASE e = c
    BY <1>2, <1>4, <1>7, <2>1 DEF CallerOk, ReadOk, WriteOk, Working, Served
  <2>2. CASE e # c
    BY <1>2, <1>6, <2>2
       DEF DiskInv, CallersInv, CallerOk, ReadOk, WriteOk, Working, Served, Own, Quiet
  <2>. QED
    BY <2>1, <2>2
<1>. QED
  BY <1>3, <1>8, <1>10, <1>11 DEF DiskInv, CallersInv

LEMMA LockKeeps ==
    ASSUME DiskInv, NEW c \in Callers, Disk!Lock(c)
    PROVE  DiskInv'
<1>1. /\ disk_pc[c] = "lock" /\ disk_pc' = [disk_pc EXCEPT ![c] = "ready"]
      /\ ~ata_lock /\ ata_lock' = TRUE
      /\ UNCHANGED <<req, i, buffer, calls, late, selected, st, cmd, cache, disk>>
  BY DEF Disk!Lock, Disk!Goto, Disk!local, Disk!drive
<1>2. \A e \in Callers : ~Inside(e)
  BY <1>1 DEF DiskInv, AloneInside
<1>3. DiskTypes' /\ disk_pc'[c] = "ready" /\ i[c] = 0
  BY <1>1 DEF DiskInv, DiskTypes, CallersInv, CallerOk, Working, Served
<1>4. \A e \in Callers : e # c => disk_pc'[e] = disk_pc[e]
  BY <1>1 DEF DiskInv, DiskTypes
<1>5. CallerOk(c)' /\ ReadOk(c)' /\ WriteOk(c)'
  BY <1>1, <1>3 DEF CallerOk, ReadOk, WriteOk, Working, Served
<1>6. \A d \in {0, 1} : Quiet(d)'
  BY <1>1, <1>2 DEF DiskInv, DrivesInv, Working, Inside, Quiet
<1>. QED
  BY <1>1, <1>2, <1>3, <1>4, <1>5, <1>6, AloneKeeps

(* Reads of the status register.                                           *)
LEMMA LookKeeps ==
    ASSUME DiskInv, NEW c \in Callers, Disk!Wait(c) \/ Disk!NoError(c)
    PROVE  DiskInv'
<1>1. /\ Inside(c)
      /\ \/ disk_pc[c] = "ready" /\ disk_pc' = [disk_pc EXCEPT ![c] = "command"]
         \/ disk_pc[c] = "each" /\ disk_pc' = [disk_pc EXCEPT ![c] = "status"]
         \/ disk_pc[c] = "flushed" /\ disk_pc' = [disk_pc EXCEPT ![c] = "ok"]
         \/ disk_pc[c] = "status" /\ disk_pc' = [disk_pc EXCEPT ![c] = "drq"]
      /\ UNCHANGED <<ata_lock, req, i, buffer, calls, selected, st, cmd, cache, disk>>
  BY DEF Disk!Wait, Disk!NoError, Disk!Goto, Disk!local, Disk!drive, Inside
<1>2. /\ ata_lock /\ \A e \in Callers : e # c => ~Inside(e)
      /\ \A d \in {0, 1} : Quiet(d) \/ (Working(c) /\ Own(c) /\ req[c].drive = d)
      /\ CallerOk(c) /\ ReadOk(c) /\ WriteOk(c) /\ disk_pc[c] # "idle"
  BY <1>1, OthersOutside
<1>3. DiskTypes'
  BY <1>1 DEF DiskInv, DiskTypes
<1>4. \A e \in Callers : e # c => disk_pc'[e] = disk_pc[e]
  BY <1>1 DEF DiskInv, DiskTypes
<1>5. /\ Working(c)' = Working(c) /\ Served(c)' = Served(c) /\ disk_pc'[c] # "idle"
      /\ disk_pc'[c] \notin {"flush", "flushed"}
  BY <1>1 DEF DiskInv, DiskTypes, Working, Served
<1>6. CallerOk(c)'
  BY <1>1, <1>2, <1>5 DEF CallerOk, Own, Quiet
<1>7. ReadOk(c)' /\ WriteOk(c)'
  BY <1>1, <1>2, <1>5 DEF ReadOk, WriteOk
<1>8. \A d \in {0, 1} : Quiet(d)' \/ (Working(c)' /\ Own(c)' /\ req'[c].drive = d)
  BY <1>1, <1>2, <1>5 DEF Quiet, Own
<1>. QED
  BY <1>1, <1>2, <1>3, <1>4, <1>6, <1>7, <1>8, AloneKeeps

(* The call returns: its drive is left Quiet.                              *)
LEMMA ReturnKeeps ==
    ASSUME DiskInv, NEW c \in Callers, Disk!Error(c) \/ Disk!Return(c)
    PROVE  DiskInv'
<1>1. /\ Inside(c) /\ disk_pc' = [disk_pc EXCEPT ![c] = "idle"]
      /\ disk_pc[c] = "ok" \/ (disk_pc[c] = "status" /\ st[selected] = "err")
      /\ ata_lock' = FALSE /\ req' = [req EXCEPT ![c] = Disk!NoRequest]
      /\ i' = [i EXCEPT ![c] = 0] /\ buffer' = [buffer EXCEPT ![c] = Disk!Empty]
      /\ UNCHANGED <<selected, st, cmd, cache, disk>>
  BY DEF Disk!Error, Disk!Return, Disk!Forget, Disk!Goto, Disk!drive, Inside
<1>2. /\ \A e \in Callers : e # c => ~Inside(e)
      /\ \A d \in {0, 1} : Quiet(d) \/ (Working(c) /\ Own(c) /\ req[c].drive = d)
      /\ CallerOk(c)
  BY <1>1, OthersOutside
<1>3. DiskTypes'
  <2>1. Disk!Empty \in [0..(MaxCount - 1) -> Contents]
    BY DEF Disk!Empty, Contents
  <2>. QED
    BY <1>1, <2>1 DEF DiskInv, DiskTypes
<1>4. \A e \in Callers : e # c => disk_pc'[e] = disk_pc[e] /\ i'[e] = i[e]
  BY <1>1 DEF DiskInv, DiskTypes
<1>5. disk_pc'[c] = "idle" /\ i'[c] = 0
  BY <1>1 DEF DiskInv, DiskTypes
<1>6. CallerOk(c)' /\ ReadOk(c)' /\ WriteOk(c)' /\ ~Inside(c)'
  BY <1>5 DEF CallerOk, ReadOk, WriteOk, Inside, Working, Served
<1>7. \A d \in {0, 1} : Quiet(d)'
  <2>1. \A d \in {0, 1} : Quiet(d)
    BY <1>1, <1>2 DEF Working, CallerOk, Quiet
  <2>. QED
    BY <1>1, <2>1 DEF Quiet
<1>. QED
  BY <1>2, <1>3, <1>4, <1>6, <1>7, AloneKeeps

(* A command reaches a drive that is not busy, and a busy one ignores it.  *)
LEMMA CommandGiven ==
    ASSUME NEW d \in {0, 1}, NEW op \in {"read", "write", "flush"}, NEW l \in Nat, NEW n \in Nat,
           DiskTypes, Disk!Command(d, op, l, n)
    PROVE  /\ st' \in [{0, 1} -> {"ready", "busy", "drq", "err", "fault"}]
           /\ cmd' \in [{0, 1} -> Commands]
           /\ \A e \in {0, 1} : e # d => st'[e] = st[e] /\ cmd'[e] = cmd[e]
           /\ st'[d] = "busy"
           /\ IF st[d] = "busy" THEN cmd'[d] = cmd[d]
              ELSE cmd'[d] = [op |-> op, lba |-> l, count |-> n, k |-> 0]
<1>1. CASE st[d] = "busy"
  BY <1>1 DEF Disk!Command, DiskTypes
<1>2. CASE st[d] # "busy"
  <2>1. [op |-> op, lba |-> l, count |-> n, k |-> 0] \in Commands
    BY DEF Commands
  <2>. QED
    BY <1>2, <2>1 DEF Disk!Command, Disk!Become, DiskTypes
<1>. QED
  BY <1>1, <1>2

LEMMA RequestIs ==
    ASSUME DevicesAssumption, NEW r \in Disk!Requests
    PROVE  /\ r.op \in {"read", "write"} /\ r.drive \in {0, 1} /\ r.lba \in Nat
           /\ r.count \in Nat \ {0} /\ r.count <= MaxCount
           /\ Disk!Fits(r) => \A k \in 0..(r.count - 1) : r.lba + k \in Sectors
<1>1. r.op \in {"read", "write"} /\ r.drive \in {0, 1} /\ r.lba \in Sectors /\ r.count \in 1..MaxCount
  BY DEF Disk!Requests, Disk!Drives
<1>2. r.lba \in Nat /\ MaxCount \in Nat
  BY <1>1 DEF DevicesAssumption
<1>. QED
  BY <1>1, <1>2 DEF Disk!Fits

LEMMA IssueKeeps ==
    ASSUME DevicesAssumption, DiskInv, NEW c \in Callers, Disk!Issue(c)
    PROVE  DiskInv'
<1>. DEFINE d == req[c].drive
<1>1. /\ Inside(c) /\ disk_pc[c] = "command" /\ disk_pc' = [disk_pc EXCEPT ![c] = "each"]
      /\ selected' = d /\ Disk!Command(d, req[c].op, req[c].lba, req[c].count)
      /\ UNCHANGED <<ata_lock, req, i, buffer, calls, late, cache, disk>>
  BY DEF Disk!Issue, Disk!Goto, Disk!local, Inside
<1>2. /\ ata_lock /\ \A e \in Callers : e # c => ~Inside(e)
      /\ \A e \in {0, 1} : Quiet(e)
      /\ disk_pc[c] # "idle" /\ req[c] \in Disk!Requests
      /\ d \in {0, 1} /\ req[c].count \in 1..MaxCount /\ req[c].lba \in Sectors
      /\ CallerOk(c)
  BY <1>1, OthersOutside DEF Working
<1>3. req[c].op \in {"read", "write"} /\ req[c].lba \in Nat /\ req[c].count \in Nat \ {0}
  BY <1>2, RequestIs
<1>4. /\ st' \in [{0, 1} -> {"ready", "busy", "drq", "err", "fault"}]
      /\ cmd' \in [{0, 1} -> Commands]
      /\ \A e \in {0, 1} : e # d => st'[e] = st[e] /\ cmd'[e] = cmd[e]
      /\ st'[d] = "busy"
      /\ IF st[d] = "busy" THEN cmd'[d] = cmd[d]
         ELSE cmd'[d] = [op |-> req[c].op, lba |-> req[c].lba, count |-> req[c].count, k |-> 0]
  BY <1>1, <1>2, <1>3, CommandGiven DEF DiskInv
<1>5. DiskTypes'
  BY <1>1, <1>2, <1>4 DEF DiskInv, DiskTypes
<1>6. /\ \A e \in Callers : e # c => disk_pc'[e] = disk_pc[e]
      /\ disk_pc'[c] = "each"
  BY <1>1 DEF DiskInv, DiskTypes
<1>7. i[c] = 0
  BY <1>1, <1>2 DEF CallerOk, Working, Served
<1>8. Own(c)' \/ Quiet(d)'
  <2>1. CASE st[d] = "busy"
    BY <1>1, <1>2, <1>4, <2>1 DEF Quiet
  <2>2. CASE st[d] # "busy"
    BY <1>1, <1>4, <1>7, <2>2 DEF Own
  <2>. QED
    BY <2>1, <2>2
<1>9. CallerOk(c)'
  BY <1>1, <1>3, <1>6, <1>7, <1>8 DEF CallerOk, Working, Served
<1>10. ReadOk(c)' /\ WriteOk(c)'
  BY <1>1, <1>7 DEF ReadOk, WriteOk
<1>11. \A e \in {0, 1} : Quiet(e)' \/ (Working(c)' /\ Own(c)' /\ req'[c].drive = e)
  BY <1>1, <1>2, <1>4, <1>6, <1>8 DEF Quiet, Working
<1>. QED
  BY <1>1, <1>2, <1>5, <1>6, <1>9, <1>10, <1>11, AloneKeeps

LEMMA FlushKeeps ==
    ASSUME DiskInv, NEW c \in Callers, Disk!Flush(c)
    PROVE  DiskInv'
<1>1. /\ Inside(c) /\ disk_pc[c] = "flush" /\ disk_pc' = [disk_pc EXCEPT ![c] = "flushed"]
      /\ Disk!Command(selected, "flush", 0, 0)
      /\ UNCHANGED <<ata_lock, req, i, buffer, calls, late, selected, cache, disk>>
  BY DEF Disk!Flush, Disk!Goto, Disk!local, Inside
<1>2. /\ ata_lock /\ \A e \in Callers : e # c => ~Inside(e)
      /\ \A e \in {0, 1} : Quiet(e)
      /\ disk_pc[c] # "idle" /\ req[c].drive \in {0, 1}
      /\ CallerOk(c) /\ ReadOk(c) /\ WriteOk(c)
  BY <1>1, OthersOutside DEF Working
<1>3. selected = req[c].drive /\ req[c].op = "write"
  BY <1>1, <1>2 DEF CallerOk, Served
<1>4. /\ st' \in [{0, 1} -> {"ready", "busy", "drq", "err", "fault"}]
      /\ cmd' \in [{0, 1} -> Commands]
      /\ \A e \in {0, 1} : e # selected => st'[e] = st[e] /\ cmd'[e] = cmd[e]
      /\ st'[selected] = "busy"
      /\ IF st[selected] = "busy" THEN cmd'[selected] = cmd[selected]
         ELSE cmd'[selected] = [op |-> "flush", lba |-> 0, count |-> 0, k |-> 0]
  BY <1>1, <1>2, <1>3, CommandGiven DEF DiskInv
<1>5. DiskTypes'
  BY <1>1, <1>4 DEF DiskInv, DiskTypes
<1>6. /\ \A e \in Callers : e # c => disk_pc'[e] = disk_pc[e]
      /\ disk_pc'[c] = "flushed"
  BY <1>1 DEF DiskInv, DiskTypes
<1>7. \A e \in {0, 1} : Quiet(e)'
  BY <1>2, <1>4 DEF Quiet
<1>8. Own(c)' \/ cmd'[req[c].drive].op = "flush"
  BY <1>1, <1>2, <1>3, <1>4 DEF CallerOk, Served, Own
<1>9. CallerOk(c)'
  BY <1>1, <1>2, <1>3, <1>6, <1>8 DEF CallerOk, Working, Served
<1>10. ReadOk(c)' /\ WriteOk(c)'
  BY <1>1, <1>2, <1>3, <1>6 DEF ReadOk, WriteOk, Working
<1>. QED
  BY <1>1, <1>2, <1>5, <1>6, <1>7, <1>9, <1>10, AloneKeeps

(* One sector between the drive that asks for it and the call that is its  *)
(* own.                                                                    *)
LEMMA TransferKeeps ==
    ASSUME DevicesAssumption, DiskInv, NEW c \in Callers, Disk!Transfer(c)
    PROVE  DiskInv'
<1>. DEFINE d == req[c].drive
            r == req[c]
            n == i[c]
<1>1. Inside(c) /\ disk_pc[c] = "drq" /\ st[selected] = "drq"
  BY DEF Disk!Transfer, Inside
<1>2. /\ ata_lock /\ \A e \in Callers : e # c => ~Inside(e)
      /\ \A e \in {0, 1} : Quiet(e) \/ (Working(c) /\ Own(c) /\ r.drive = e)
      /\ disk_pc[c] # "idle" /\ r \in Disk!Requests /\ Disk!Fits(r)
      /\ d \in {0, 1} /\ r.count \in 1..MaxCount /\ r.lba \in Sectors
      /\ CallerOk(c) /\ ReadOk(c) /\ WriteOk(c)
  BY <1>1, OthersOutside
<1>3. /\ selected = d /\ n < r.count /\ st[d] = "drq" /\ Own(c)
      /\ \A e \in {0, 1} : e # d => Quiet(e)
  BY <1>1, <1>2 DEF CallerOk, Working, Quiet
<1>4. /\ n \in Nat /\ r.count \in Nat /\ r.count <= MaxCount /\ r.op \in {"read", "write"}
      /\ r.lba \in Nat /\ \A k \in 0..(r.count - 1) : r.lba + k \in Sectors
      /\ MaxCount \in Nat
  BY <1>2, RequestIs DEF DiskInv, DiskTypes, DevicesAssumption
<1>5. cmd[d] = [op |-> r.op, lba |-> r.lba, count |-> r.count, k |-> n]
  BY <1>3 DEF Own
<1>6. /\ i' = [i EXCEPT ![c] = n + 1]
      /\ disk_pc' = [disk_pc EXCEPT ![c] = IF n + 1 < r.count THEN "each"
                                           ELSE IF r.op = "read" THEN "ok" ELSE "flush"]
      /\ IF r.op = "read"
         THEN /\ buffer' = [buffer EXCEPT ![c] = [buffer[c] EXCEPT ![n] = cache[d][r.lba + n]]]
              /\ cache' = cache
         ELSE /\ cache' = [cache EXCEPT ![d] = [cache[d] EXCEPT ![r.lba + n] = c]]
              /\ buffer' = buffer
      /\ cmd' = [cmd EXCEPT ![d] = [cmd[d] EXCEPT !.k = n + 1]]
      /\ st' = [st EXCEPT ![d] = "busy"]
      /\ UNCHANGED <<ata_lock, req, calls, late, selected, disk>>
  BY <1>3, <1>5 DEF Disk!Transfer, Disk!Become
<1>7. /\ r.lba + n \in Sectors /\ n \in 0..(MaxCount - 1)
      /\ buffer[c] \in [0..(MaxCount - 1) -> Contents] /\ cache[d] \in [Sectors -> Contents]
  BY <1>2, <1>3, <1>4 DEF DiskInv, DiskTypes
<1>8. [cmd[d] EXCEPT !.k = n + 1]
             = [op |-> r.op, lba |-> r.lba, count |-> r.count, k |-> n + 1]
  BY <1>5
<1>9. /\ i'[c] = n + 1
      /\ disk_pc'[c] = IF n + 1 < r.count THEN "each" ELSE IF r.op = "read" THEN "ok" ELSE "flush"
      /\ st'[d] = "busy" /\ cmd'[d] = [op |-> r.op, lba |-> r.lba, count |-> r.count, k |-> n + 1]
      /\ \A e \in Callers : e # c => disk_pc'[e] = disk_pc[e] /\ i'[e] = i[e]
      /\ \A e \in {0, 1} : e # d => st'[e] = st[e] /\ cmd'[e] = cmd[e]
  BY <1>2, <1>8, <1>6 DEF DiskInv, DiskTypes
<1>10. DiskTypes'
  <2>1. cmd' \in [{0, 1} -> Commands]
    <3>1. cmd'[d] \in Commands
      BY <1>4, <1>9 DEF Commands
    <3>. QED
      BY <1>6, <1>2, <1>9, <3>1 DEF DiskInv, DiskTypes
  <2>2. /\ disk_pc' \in [Callers -> {"idle", "lock", "ready", "command", "each", "status", "drq",
                                     "flush", "flushed", "ok"}]
        /\ i' \in [Callers -> Nat]
        /\ st' \in [{0, 1} -> {"ready", "busy", "drq", "err", "fault"}]
        /\ \A e \in Callers : disk_pc'[e] # "idle" => req[e] \in Disk!Requests /\ Disk!Fits(req[e])
    BY <1>2, <1>4, <1>6 DEF DiskInv, DiskTypes
  <2>3. buffer' \in [Callers -> [0..(MaxCount - 1) -> Contents]]
    <3>1. cache[d][r.lba + n] \in Contents
      BY <1>7
    <3>2. [buffer[c] EXCEPT ![n] = cache[d][r.lba + n]] \in [0..(MaxCount - 1) -> Contents]
      BY <1>7, <3>1
    <3>. QED
      BY <1>6, <3>2 DEF DiskInv, DiskTypes
  <2>4. cache' \in [{0, 1} -> [Sectors -> Contents]]
    <3>1. c \in Contents
      BY DEF Contents
    <3>2. [cache[d] EXCEPT ![r.lba + n] = c] \in [Sectors -> Contents]
      BY <1>7, <3>1
    <3>. QED
      BY <1>2, <1>6, <3>2 DEF DiskInv, DiskTypes
  <2>. QED
    BY <1>6, <2>1, <2>2, <2>3, <2>4 DEF DiskInv, DiskTypes
<1>11. Own(c)'
  BY <1>6, <1>9 DEF Own
<1>12. \A e \in {0, 1} : Quiet(e)' \/ (Working(c)' /\ Own(c)' /\ req'[c].drive = e)
  <2>1. CASE n + 1 < r.count
    BY <1>3, <1>6, <1>9, <1>11, <2>1 DEF Quiet, Working
  <2>2. CASE ~(n + 1 < r.count)
    <3>1. n + 1 >= r.count
      BY <1>4, <2>2
    <3>. QED
      BY <1>3, <1>9, <3>1 DEF Quiet
  <2>. QED
    BY <2>1, <2>2
<1>13. CallerOk(c)'
  <2>1. CASE n + 1 < r.count
    BY <1>3, <1>6, <1>9, <1>11, <2>1 DEF CallerOk, Working, Served
  <2>2. CASE ~(n + 1 < r.count)
    <3>1. n + 1 = r.count
      BY <1>3, <1>4, <2>2
    <3>. QED
      BY <1>3, <1>4, <1>6, <1>9, <1>11, <2>2, <3>1 DEF CallerOk, Working, Served
  <2>. QED
    BY <2>1, <2>2
<1>14. ReadOk(c)'
  <2>. SUFFICES ASSUME r.op = "read", NEW k \in 0..n
                PROVE  buffer'[c][k] = cache'[d][r.lba + k]
    BY <1>4, <1>6, <1>9 DEF ReadOk
  <2>1. buffer'[c] = [buffer[c] EXCEPT ![n] = cache[d][r.lba + n]] /\ cache' = cache
    BY <1>6 DEF DiskInv, DiskTypes
  <2>2. CASE k = n
    BY <1>7, <2>1, <2>2
  <2>3. CASE k # n
    <3>1. k \in 0..(n - 1) /\ buffer'[c][k] = buffer[c][k]
      BY <1>4, <1>7, <2>1, <2>3
    <3>. QED
      BY <1>2, <2>1, <3>1 DEF ReadOk
  <2>. QED
    BY <2>2, <2>3
<1>15. WriteOk(c)'
  <2>. SUFFICES ASSUME r.op = "write", NEW k \in 0..n
                PROVE  cache'[d][r.lba + k] = c
    BY <1>4, <1>6, <1>9 DEF WriteOk
  <2>1. cache'[d] = [cache[d] EXCEPT ![r.lba + n] = c]
    BY <1>2, <1>6 DEF DiskInv, DiskTypes
  <2>2. CASE k = n
    BY <1>7, <2>1, <2>2
  <2>3. CASE k # n
    <3>1. k \in 0..(n - 1) /\ r.lba + k # r.lba + n
      BY <1>4, <2>3
    <3>2. cache[d][r.lba + k] = c
      BY <1>1, <1>2, <1>3, <3>1 DEF WriteOk, Working
    <3>3. r.lba + k \in Sectors
      BY <1>3, <1>4, <3>1
    <3>. QED
      BY <1>7, <2>1, <3>1, <3>2, <3>3
  <2>. QED
    BY <2>2, <2>3
<1>. QED
  BY <1>2, <1>6, <1>9, <1>10, <1>12, <1>13, <1>14, <1>15, AloneKeeps

-----------------------------------------------------------------------------
(* The drives' own steps.                                                  *)

LEMMA ServeKeeps ==
    ASSUME DiskInv, NEW d \in {0, 1}, Disk!Serve(d)
    PROVE  DiskInv'
<1>1. PICK s \in {"drq", "ready"} :
         /\ st[d] = "busy" /\ st' = [st EXCEPT ![d] = s]
         /\ s = "drq" => cmd[d].k < cmd[d].count
         /\ UNCHANGED <<ata_lock, disk_pc, req, i, buffer, calls, late, selected, cmd, cache>>
  BY DEF Disk!Serve, Disk!Become, Disk!local
<1>2. DiskTypes' /\ st'[d] = s /\ \A e \in {0, 1} : e # d => st'[e] = st[e]
  BY <1>1 DEF DiskInv, DiskTypes
<1>3. \A e \in {0, 1} : Quiet(e) => Quiet(e)'
  <2>1. cmd[d].k \in Nat /\ cmd[d].count \in Nat
    BY DEF DiskInv, DiskTypes, Commands
  <2>. QED
    BY <1>1, <1>2, <2>1 DEF Quiet
<1>4. AloneInside'
  BY <1>1 DEF DiskInv, AloneInside, Inside
<1>5. DrivesInv'
  BY <1>1, <1>3 DEF DiskInv, DrivesInv, Working, Own
<1>6. ASSUME NEW c \in Callers PROVE CallerOk(c)' /\ ReadOk(c)' /\ WriteOk(c)'
  <2>1. CallerOk(c) /\ ReadOk(c) /\ WriteOk(c)
    BY DEF DiskInv, CallersInv
  <2>2. Working(c) => req[c].drive \in {0, 1}
    BY DEF DiskInv, DiskTypes, Working, Disk!Requests, Disk!Drives
  <2>3. CallerOk(c)'
    BY <1>1, <1>3, <2>1, <2>2 DEF CallerOk, Working, Served, Own
  <2>4. ReadOk(c)'
    BY <1>1, <2>1 DEF ReadOk
  <2>5. WriteOk(c)'
    BY <1>1, <1>2, <2>1, <2>2 DEF WriteOk, Working
  <2>. QED
    BY <2>3, <2>4, <2>5
<1>. QED
  BY <1>2, <1>4, <1>5, <1>6 DEF DiskInv, CallersInv

LEMMA FailKeeps ==
    ASSUME DevicesAssumption, DiskInv, NEW d \in {0, 1}, Disk!Fail(d)
    PROVE  DiskInv'
<1>. DEFINE lost == cmd[d].lba + cmd[d].k - 1
<1>1. PICK s \in {"err", "fault"} :
         /\ st[d] = "busy" /\ st' = [st EXCEPT ![d] = s]
         /\ cache' = IF cmd[d].op = "write" /\ cmd[d].k > 0
                     THEN [cache EXCEPT ![d][lost] = "old"] ELSE cache
         /\ UNCHANGED <<ata_lock, disk_pc, req, i, buffer, calls, late, selected, cmd>>
  BY DEF Disk!Fail, Disk!Become, Disk!local
<1>2. /\ st' \in [{0, 1} -> {"ready", "busy", "drq", "err", "fault"}]
      /\ st'[d] = s /\ \A e \in {0, 1} : e # d => st'[e] = st[e]
  BY <1>1 DEF DiskInv, DiskTypes
<1>3. /\ cache' \in [{0, 1} -> [Sectors -> Contents]]
      /\ \A e \in {0, 1} : e # d \/ cmd[d].op # "write" => cache'[e] = cache[e]
      /\ \A l \in Sectors : l # lost => cache'[d][l] = cache[d][l]
  <2>1. /\ cache \in [{0, 1} -> [Sectors -> Contents]] /\ "old" \in Contents
        /\ cache[d] \in [Sectors -> Contents]
    BY DEF DiskInv, DiskTypes, Contents
  <2>2. CASE cache' = cache
    BY <2>1, <2>2
  <2>3. CASE cmd[d].op = "write" /\ cache' = [cache EXCEPT ![d] = [cache[d] EXCEPT ![lost] = "old"]]
    <3>1. [cache[d] EXCEPT ![lost] = "old"] \in [Sectors -> Contents]
      BY <2>1
    <3>2. \A l \in Sectors : l # lost => [cache[d] EXCEPT ![lost] = "old"][l] = cache[d][l]
      BY <2>1
    <3>. QED
      BY <2>1, <2>3, <3>1, <3>2
  <2>. QED
    BY <1>1, <2>2, <2>3
<1>4. DiskTypes'
  BY <1>1, <1>2, <1>3 DEF DiskInv, DiskTypes
<1>5. \A e \in {0, 1} : Quiet(e) => Quiet(e)'
  BY <1>1, <1>2 DEF Quiet
<1>6. AloneInside'
  BY <1>1 DEF DiskInv, AloneInside, Inside
<1>7. DrivesInv'
  BY <1>1, <1>5 DEF DiskInv, DrivesInv, Working, Own
<1>8. ASSUME NEW c \in Callers PROVE CallerOk(c)' /\ ReadOk(c)' /\ WriteOk(c)'
  <2>1. CallerOk(c) /\ ReadOk(c) /\ WriteOk(c) /\ i[c] \in Nat
    BY DEF DiskInv, DiskTypes, CallersInv
  <2>2. ASSUME disk_pc[c] # "idle"
        PROVE  /\ req[c].drive \in {0, 1} /\ req[c].lba \in Nat /\ req[c].op \in {"read", "write"}
               /\ req[c].count \in Nat /\ \A k \in 0..(req[c].count - 1) : req[c].lba + k \in Sectors
    BY <2>2, RequestIs DEF DiskInv, DiskTypes
  <2>3. CallerOk(c)'
    BY <1>1, <1>5, <2>1, <2>2 DEF CallerOk, Working, Served, Own
  <2>4. ASSUME i[c] # 0
        PROVE  /\ disk_pc[c] # "idle" /\ i[c] <= req[c].count
               /\ Own(c) \/ (req[c].op = "write" /\ cmd[req[c].drive].op = "flush")
    BY <2>1, <2>2, <2>4 DEF CallerOk, Working, Served
  <2>5. ReadOk(c)'
    <3>. SUFFICES ASSUME disk_pc[c] # "idle", req[c].op = "read", NEW k \in 0..(i[c] - 1)
                  PROVE  buffer[c][k] = cache'[req[c].drive][req[c].lba + k]
      BY <1>1 DEF ReadOk
    <3>1. i[c] # 0
      BY <2>1
    <3>2. req[c].drive # d \/ cmd[d].op # "write"
      BY <2>4, <3>1 DEF Own
    <3>. QED
      BY <1>3, <2>1, <2>2, <3>2 DEF ReadOk
  <2>6. WriteOk(c)'
    <3>1. ASSUME disk_pc[c] # "idle", req[c].op = "write", NEW k \in 0..(i[c] - 1),
                 cache[req[c].drive][req[c].lba + k] = c,
                 req[c].drive # d \/ k # i[c] - 1
          PROVE  cache'[req[c].drive][req[c].lba + k] = c
      <4>1. /\ i[c] # 0 /\ k \in 0..(req[c].count - 1)
            /\ req[c].drive \in {0, 1} /\ req[c].lba \in Nat /\ req[c].lba + k \in Sectors
        <5>1. i[c] # 0
          BY <2>1
        <5>. QED
          BY <2>1, <2>2, <2>4, <3>1, <5>1
      <4>2. CASE req[c].drive # d \/ cmd[d].op # "write"
        BY <1>3, <3>1, <4>1, <4>2
      <4>3. CASE req[c].drive = d /\ cmd[d].op = "write"
        <5>1. lost = req[c].lba + i[c] - 1
          BY <2>4, <4>1, <4>3 DEF Own
        <5>2. req[c].lba + k # lost
          BY <2>1, <3>1, <4>1, <4>3, <5>1
        <5>. QED
          BY <1>3, <3>1, <4>1, <4>3, <5>2
      <4>. QED
        BY <4>2, <4>3
    <3>2. ASSUME disk_pc[c] # "idle", req[c].op = "write", NEW k \in 0..(i[c] - 2)
          PROVE  cache'[req[c].drive][req[c].lba + k] = c
      BY <2>1, <3>1, <3>2 DEF WriteOk
    <3>3. ASSUME disk_pc[c] # "idle", req[c].op = "write", Working(c),
                 st'[req[c].drive] \notin {"err", "fault"}, NEW k \in 0..(i[c] - 1)
          PROVE  cache'[req[c].drive][req[c].lba + k] = c
      <4>1. req[c].drive # d
        BY <1>2, <3>3
      <4>2. st[req[c].drive] = st'[req[c].drive]
        BY <1>2, <2>2, <3>3, <4>1
      <4>. QED
        BY <2>1, <3>1, <3>3, <4>1, <4>2 DEF WriteOk
    <3>. QED
      BY <1>1, <3>2, <3>3 DEF WriteOk, Working
  <2>. QED
    BY <2>3, <2>5, <2>6
<1>. QED
  BY <1>4, <1>6, <1>7, <1>8 DEF DiskInv, CallersInv

LEMMA DiskKeeps ==
    ASSUME DevicesAssumption, DiskInv, Disk!Next \/ UNCHANGED diskVars
    PROVE  DiskInv'
<1>1. CASE UNCHANGED diskVars
  <2>1. DiskTypes'
    BY <1>1 DEF diskVars, DiskInv, DiskTypes
  <2>2. AloneInside'
    BY <1>1 DEF diskVars, DiskInv, AloneInside, Inside
  <2>3. DrivesInv'
    BY <1>1 DEF diskVars, DiskInv, DrivesInv, Working, Quiet, Own
  <2>4. \A c \in Callers : CallerOk(c)' /\ ReadOk(c)' /\ WriteOk(c)'
    BY <1>1 DEF diskVars, DiskInv, CallersInv, CallerOk, ReadOk, WriteOk, Working, Served, Quiet, Own
  <2>. QED
    BY <2>1, <2>2, <2>3, <2>4 DEF DiskInv, CallersInv
<1>2. CASE Disk!Next
  BY <1>2, DiskCallKeeps, LockKeeps, LookKeeps, ReturnKeeps, IssueKeeps, FlushKeeps, TransferKeeps,
     ServeKeeps, FailKeeps DEF Disk!Next, Disk!Run, Disk!Drives
<1>. QED
  BY <1>1, <1>2

(* TransfersTrue of Ata: a read that is about to return 0 has filled its   *)
(* buffer with the sectors asked for, a write has lost none but the last,  *)
(* whatever the drives answer, whenever a wait gives up, and whoever else  *)
(* calls ata_read_sectors and ata_write_sectors.                           *)
THEOREM TransfersTrueHolds == DevicesSpec => []TransfersTrue
<1>1. DevicesInit => DiskInv
  BY DiskStarts, DevicesAssumption DEF DevicesInit
<1>2. DiskInv /\ [DevicesNext]_deviceVars => DiskInv'
  <2>. SUFFICES ASSUME DiskInv, [DevicesNext]_deviceVars PROVE DiskInv'
    OBVIOUS
  <2>1. Disk!Next \/ UNCHANGED diskVars
    BY DEF DevicesNext, deviceVars
  <2>. QED
    BY <2>1, DiskKeeps, DevicesAssumption
<1>. QED
  BY <1>1, <1>2, DiskShows, PTL DEF DevicesSpec

-----------------------------------------------------------------------------
(* Numbers                                                                 *)

LEMMA NatMin ==
    ASSUME NEW S \in SUBSET Nat, S # {}
    PROVE  \E m \in S : \A n \in S : m <= n
<1>1. IsWellFoundedOn(OpToRel(<, Nat), Nat)
  BY NatLessThanWellFounded
<1>2. PICK m \in S : \A n \in S : ~ (<<n, m>> \in OpToRel(<, Nat))
  BY <1>1, WFMin, Zenon
<1>3. ASSUME NEW n \in S PROVE m <= n
  <2>1. ~ (<<n, m>> \in OpToRel(<, Nat))
    BY <1>2
  <2>2. n < m => <<n, m>> \in OpToRel(<, Nat)
    BY DEF OpToRel
  <2>3. ~ (n < m)
    BY <2>1, <2>2, Zenon
  <2>. QED
    BY <2>3
<1>. QED
  BY <1>3

(* A number is its quotient and its remainder, in one way.                 *)
LEMMA Quotient ==
    ASSUME NEW a \in Nat, NEW n \in Nat \ {0}
    PROVE  a \div n \in Nat /\ a % n \in 0..(n - 1) /\ (a \div n) * n + (a % n) = a
<1>1. a \div n \in Nat /\ a % n \in 0..(n - 1)
  BY SMTT(30)
<1>2. (a \div n) * n + (a % n) = a
  BY SMTT(30)
<1>. QED
  BY <1>1, <1>2

LEMMA OneQuotient ==
    ASSUME NEW n \in Nat \ {0}, NEW q \in Nat, NEW r \in 0..(n - 1),
           NEW p \in Nat, NEW s \in 0..(n - 1), q * n + r = p * n + s
    PROVE  q = p /\ r = s
<1>1. ASSUME NEW lo \in Nat, NEW hi \in Nat, lo < hi PROVE lo * n + n <= hi * n
  <2>1. (lo + 1) * n = lo * n + n /\ (lo + 1) * n <= hi * n
    BY <1>1, SMTT(30)
  <2>. QED
    BY <2>1
<1>2. q * n \in Nat /\ p * n \in Nat
  OBVIOUS
<1>3. ~(q < p) /\ ~(p < q)
  BY <1>1, <1>2
<1>. QED
  BY <1>2, <1>3

-----------------------------------------------------------------------------
(* The segments of the PCIe bus: Pcie                                      *)

Device(n) == Bus!DeviceAt(Bus!Access(Bus!Bus(n)).at, Bus!Func(n))

(* Where a bus of the k-th segment is in the window.                       *)
Where(k, bus) == mcfg[k].segment * BusesPerSegment + (bus - mcfg[k].start)
Buses(k) == mcfg[k].start..mcfg[k].end

(* The segments whose buses are in the window: all that pcie_init counts,  *)
(* or those that its loop has passed.                                      *)
Done == IF bus_pc = "map" THEN 1..(next - 1) ELSE 1..num_segs

BusTypes ==
    /\ mcfg \in Mcfgs /\ space \in Spaces /\ found_mcfg \in BOOLEAN
    /\ bus_pc \in {"start", "map", "scan", "idle", "find", "found", "fault"}
    /\ next \in Nat /\ num_segs \in Int /\ num_segs <= Len(mcfg)
    /\ search.rex \in BOOLEAN /\ search.use_vendor \in BOOLEAN

LoopInv ==
    /\ bus_pc = "start" => num_segs = 0 /\ access.by = "none"
    /\ bus_pc = "map" => access.by = "none" /\ (next = 1 \/ next \in 1..(num_segs + 1))
    /\ bus_pc = "find" => next <= Bus!Places
    /\ bus_pc = "found" => result = <<>> \/ result[1] \in Nat

(* The bus b of the j-th segment is at a, and none of a later one is.      *)
LastAt(a, j, b) ==
    /\ a = Where(j, b) /\ window[a] = <<mcfg[j].segment, b>>
    /\ \A k \in Done : k > j => \A c \in Buses(k) : Where(k, c) # a

(* Every bus of these segments has its place in the window; what a place   *)
(* shows is the bus that the last of the segments has there.               *)
WindowInv ==
    /\ \A k \in Done : \A bus \in Buses(k) : Where(k, bus) \in DOMAIN window
    /\ \A a \in DOMAIN window : \E j \in Done : \E b \in Buses(j) : LastAt(a, j, b)

(* What the search in progress has passed is not wanted.                   *)
SearchInv ==
    /\ bus_pc = "find" => \A m \in 0..(next - 1) : ~Bus!Wanted(m)
    /\ bus_pc = "found" =>
          IF result = <<>> THEN \A m \in 0..(Bus!Places - 1) : ~Bus!Wanted(m)
          ELSE \E n \in 0..(Bus!Places - 1) :
                  /\ result = <<Bus!Bus(n), Bus!Func(n)>>
                  /\ Bus!Sought(n) /\ (~search.rex => Bus!Wanted(n))
                  /\ \A m \in 0..(n - 1) : ~Bus!Wanted(m)

BusInv == BusTypes /\ LoopInv /\ WindowInv /\ Bus!AccessRight /\ SearchInv

LEMMA BusStarts == ASSUME Bus!Init PROVE BusInv
<1>1. \A t \in Mcfgs : Len(t) \in Nat
  BY BusAssumption
<1>2. BusTypes /\ LoopInv
  BY <1>1 DEF Bus!Init, Bus!NoSearch, BusTypes, LoopInv
<1>3. WindowInv
  BY DEF Bus!Init, WindowInv, Done
<1>4. Bus!AccessRight
  BY DEF Bus!Init, Bus!AccessRight
<1>5. SearchInv
  BY DEF Bus!Init, SearchInv
<1>. QED
  BY <1>2, <1>3, <1>4, <1>5 DEF BusInv

(* What the table is known to be.                                          *)
LEMMA TableIs ==
    ASSUME BusTypes
    PROVE  /\ Len(mcfg) \in Nat /\ DOMAIN mcfg = 1..Len(mcfg)
           /\ \A k \in 1..Len(mcfg) :
                 /\ mcfg[k].segment \in Nat /\ mcfg[k].start \in Nat /\ mcfg[k].end \in Nat
                 /\ mcfg[k].start <= mcfg[k].end /\ mcfg[k].end < BusesPerSegment
<1>. DEFINE Entry == [segment : Nat, start : 0..(BusesPerSegment - 1), end : 0..(BusesPerSegment - 1)]
<1>1. mcfg \in Seq(Entry) /\ BusesPerSegment \in Nat
  BY BusAssumption DEF BusTypes
<1>2. Len(mcfg) \in Nat /\ DOMAIN mcfg = 1..Len(mcfg) /\ \A k \in 1..Len(mcfg) : mcfg[k] \in Entry
  <2>. HIDE DEF Entry
  <2>. QED
    BY <1>1, LenProperties
<1>3. \A k \in DOMAIN mcfg : mcfg[k].start <= mcfg[k].end
  BY BusAssumption DEF BusTypes
<1>4. ASSUME NEW e \in Entry
      PROVE  e.segment \in Nat /\ e.start \in Nat /\ e.end \in Nat /\ e.end < BusesPerSegment
  BY <1>1
<1>5. \A k \in 1..Len(mcfg) :
         mcfg[k].segment \in Nat /\ mcfg[k].start \in Nat /\ mcfg[k].end \in Nat
         /\ mcfg[k].end < BusesPerSegment
  <2>. HIDE DEF Entry
  <2>. QED
    BY <1>2, <1>4
<1>. QED
  BY <1>2, <1>3, <1>5

(* What is at one place has one segment and one distance from its start.   *)
LEMMA OnePlaceInWindow ==
    ASSUME BusTypes, NEW k \in 1..Len(mcfg), NEW j \in 1..Len(mcfg),
           NEW bus \in Buses(k), NEW other \in Buses(j), Where(k, bus) = Where(j, other)
    PROVE  /\ mcfg[k].segment = mcfg[j].segment
           /\ bus - mcfg[k].start = other - mcfg[j].start
<1>. DEFINE q == mcfg[k].segment  r == bus - mcfg[k].start
            p == mcfg[j].segment  s == other - mcfg[j].start
<1>1. /\ mcfg[k].segment \in Nat /\ mcfg[k].start \in Nat /\ mcfg[k].end \in Nat
      /\ mcfg[k].end < BusesPerSegment
  BY TableIs
<1>2. /\ mcfg[j].segment \in Nat /\ mcfg[j].start \in Nat /\ mcfg[j].end \in Nat
      /\ mcfg[j].end < BusesPerSegment
  BY TableIs
<1>3. BusesPerSegment \in Nat \ {0} /\ bus \in Nat /\ other \in Nat
  BY BusAssumption, <1>1, <1>2 DEF Buses
<1>4. r \in 0..(BusesPerSegment - 1) /\ s \in 0..(BusesPerSegment - 1)
  <2>1. mcfg[k].start <= bus /\ bus <= mcfg[k].end /\ mcfg[j].start <= other /\ other <= mcfg[j].end
    BY <1>1, <1>2 DEF Buses
  <2>2. r \in 0..(BusesPerSegment - 1)
    BY <1>1, <1>3, <2>1
  <2>3. s \in 0..(BusesPerSegment - 1)
    BY <1>2, <1>3, <2>1
  <2>. QED
    BY <2>2, <2>3
<1>5. q \in Nat /\ p \in Nat /\ q * BusesPerSegment + r = p * BusesPerSegment + s
  BY <1>1, <1>2 DEF Where
<1>6. q = p /\ r = s
  <2>. HIDE DEF q, r, p, s
  <2>. QED
    BY <1>3, <1>4, <1>5, OneQuotient
<1>. QED
  BY <1>6

(* get_segment: the first of the segments that have the bus.               *)
Having(bus) == {k \in 1..num_segs : Bus!Lists(mcfg[k], bus)}

LEMMA SegmentIs ==
    ASSUME BusTypes, num_segs >= 1, NEW bus \in Nat
    PROVE  IF Having(bus) = {} THEN Bus!Segment(bus) = 1
           ELSE Bus!Segment(bus) \in Having(bus) /\ \A j \in Having(bus) : Bus!Segment(bus) <= j
<1>. DEFINE I == {k \in 1..num_segs : mcfg[k].start <= bus /\ bus <= mcfg[k].end}
<1>1. I = Having(bus)
  BY DEF Having, Bus!Lists
<1>2. Bus!Segment(bus) = LET n == IF I # {} THEN Bus!Min(I) ELSE 0 IN IF n = 0 THEN 1 ELSE n
  BY DEF Bus!Segment, Bus!SelectInSubSeq
<1>3. ASSUME I # {} PROVE Bus!Min(I) \in I /\ \A j \in I : Bus!Min(I) <= j
  <2>1. I \in SUBSET Nat
    BY DEF BusTypes
  <2>2. PICK m \in I : \A j \in I : m <= j
    BY <1>3, <2>1, NatMin
  <2>3. \E n \in I : \A j \in I : n <= j
    BY <2>2
  <2>. QED
    BY <2>3 DEF Bus!Min
<1>4. \A n \in I : n # 0
  BY DEF BusTypes
<1>. HIDE DEF I
<1>. QED
  BY <1>1, <1>2, <1>3, <1>4

(* AccessRight of an access a.                                             *)
Right(a) ==
    /\ a.by = "mcfg" /\ Having(a.bus) # {} =>
          \E k \in Having(a.bus) :
              /\ \A j \in Having(a.bus) : k <= j
              /\ a.at = <<mcfg[k].segment, a.bus>> \/ Bus!Overlaid(k, a.bus)
    /\ a.by = "mcfg" => \E k \in Having(a.at[2]) : a.at[1] = mcfg[k].segment
    /\ a.by = "fault" => Having(a.bus) = {}

LEMMA AccessIs ==
    ASSUME BusTypes, WindowInv, Done = 1..num_segs, NEW bus \in Nat
    PROVE  Right(Bus!Access(bus)) /\ Bus!Access(bus).bus = bus
<1>1. CASE ~found_mcfg \/ num_segs < 1
  BY <1>1 DEF Bus!Access, Right
<1>2. CASE found_mcfg /\ num_segs >= 1
  <2>. DEFINE seg == Bus!Segment(bus)
              a == Where(seg, bus)
  <2>1. Bus!Address(bus) = a
    BY DEF Bus!Address, Where
  <2>2. /\ a \in DOMAIN window => Bus!Access(bus) = [bus |-> bus, by |-> "mcfg", at |-> window[a]]
        /\ a \notin DOMAIN window => Bus!Access(bus) = [bus |-> bus, by |-> "fault", at |-> <<0, 0>>]
    BY <1>2, <2>1 DEF BusTypes, Bus!Access
  <2>3. ASSUME Having(bus) # {}
        PROVE  /\ seg \in Having(bus) /\ \A j \in Having(bus) : seg <= j
               /\ a \in DOMAIN window
               /\ window[a] = <<mcfg[seg].segment, bus>> \/ Bus!Overlaid(seg, bus)
    <3>1. seg \in Having(bus) /\ \A j \in Having(bus) : seg <= j
      BY <1>2, <2>3, SegmentIs
    <3>2. seg \in Done /\ seg \in 1..Len(mcfg) /\ bus \in Buses(seg)
      <4>1. seg \in 1..num_segs /\ mcfg[seg].start <= bus /\ bus <= mcfg[seg].end
        BY <3>1 DEF Having, Bus!Lists
      <4>2. seg \in 1..Len(mcfg)
        BY <4>1, TableIs DEF BusTypes
      <4>3. mcfg[seg].start \in Nat /\ mcfg[seg].end \in Nat
        BY <4>2, TableIs
      <4>. HIDE DEF seg
      <4>. QED
        BY <4>1, <4>2, <4>3 DEF Buses
    <3>. HIDE DEF seg
    <3>3. a \in DOMAIN window
      BY <3>2 DEF WindowInv
    <3>4. PICK j \in Done : \E b \in Buses(j) : LastAt(a, j, b)
      BY <3>3 DEF WindowInv
    <3>5. PICK b \in Buses(j) : LastAt(a, j, b)
      BY <3>4
    <3>6. /\ a = Where(j, b) /\ window[a] = <<mcfg[j].segment, b>>
          /\ \A k \in Done : k > j => \A c \in Buses(k) : Where(k, c) # a
      BY <3>5 DEF LastAt
    <3>7. j \in 1..Len(mcfg) /\ j \in 1..num_segs /\ ~ (seg > j)
      BY <3>2, <3>6, TableIs DEF BusTypes
    <3>8. /\ mcfg[seg].segment = mcfg[j].segment
          /\ bus - mcfg[seg].start = b - mcfg[j].start
      <4>1. Where(seg, bus) = Where(j, b)
        BY <3>6
      <4>. QED
        BY <3>2, <3>7, <4>1, OnePlaceInWindow
    <3>9. /\ mcfg[seg].start \in Nat /\ mcfg[j].start \in Nat /\ mcfg[j].end \in Nat
          /\ b <= mcfg[j].end /\ b \in Nat
      <4>1. /\ mcfg[seg].start \in Nat /\ mcfg[j].start \in Nat /\ mcfg[j].end \in Nat
        BY <3>2, <3>7, TableIs
      <4>. QED
        BY <4>1 DEF Buses
    <3>10. CASE mcfg[j].start = mcfg[seg].start
      <4>1. b = bus
        BY <3>8, <3>9, <3>10
      <4>. QED
        BY <3>1, <3>3, <3>6, <3>8, <4>1
    <3>11. CASE mcfg[j].start # mcfg[seg].start
      <4>1. j \in (seg + 1)..num_segs
        BY <3>2, <3>7, <3>11 DEF BusTypes
      <4>2. bus - mcfg[seg].start <= mcfg[j].end - mcfg[j].start
        BY <3>8, <3>9
      <4>3. Bus!Overlaid(seg, bus)
        BY <3>8, <3>11, <4>1, <4>2 DEF Bus!Overlaid
      <4>. QED
        BY <3>1, <3>3, <4>3
    <3>. QED
      BY <3>10, <3>11
  <2>4. ASSUME a \in DOMAIN window
        PROVE  \E k \in Having(window[a][2]) : window[a][1] = mcfg[k].segment
    <3>. HIDE DEF a
    <3>1. PICK k \in Done : \E b \in Buses(k) : LastAt(a, k, b)
      BY <2>4 DEF WindowInv
    <3>2. PICK b \in Buses(k) : LastAt(a, k, b)
      BY <3>1
    <3>3. window[a] = <<mcfg[k].segment, b>>
      BY <3>2 DEF LastAt
    <3>4. k \in 1..Len(mcfg)
      BY TableIs DEF BusTypes
    <3>5. mcfg[k].start \in Nat /\ mcfg[k].end \in Nat
      BY <3>4, TableIs
    <3>6. k \in Having(b)
      BY <3>5 DEF Having, Bus!Lists, Buses
    <3>. QED
      BY <3>3, <3>6
  <2>. HIDE DEF seg, a
  <2>5. CASE a \in DOMAIN window
    BY <2>2, <2>3, <2>4, <2>5 DEF Right
  <2>6. CASE a \notin DOMAIN window
    BY <2>2, <2>3, <2>6 DEF Right
  <2>. QED
    BY <2>5, <2>6
<1>. QED
  BY <1>1, <1>2 DEF BusTypes

LEMMA RightIs == Bus!AccessRight <=> Right(access)
  BY DEF Bus!AccessRight, Right, Having

(* What matches is sought, and what is wanted matches: for pcie_find_ex    *)
(* these are one.                                                          *)
LEMMA MatchesAre ==
    ASSUME BusTypes, NEW n \in Nat
    PROVE  /\ Bus!Matches(Device(n)) => Bus!Sought(n) /\ (~search.rex => Bus!Wanted(n))
           /\ Bus!Wanted(n) => Bus!Matches(Device(n))
<1>. DEFINE d == Device(n)
<1>1. d # Bus!Absent <=> d.vendor # "ffff"
  <2>. DEFINE at1 == Bus!Access(Bus!Bus(n)).at
              a == <<at1[1], at1[2], Bus!Func(n)>>
  <2>1. a \in DOMAIN space => d = space[a] /\ space[a].vendor # "ffff"
    BY BusAssumption DEF BusTypes, Bus!DeviceAt, Device
  <2>2. a \notin DOMAIN space => d = Bus!Absent
    BY DEF Bus!DeviceAt, Device
  <2>3. Bus!Absent.vendor = "ffff"
    BY DEF Bus!Absent
  <2>. HIDE DEF a, d
  <2>. QED
    BY <2>1, <2>2, <2>3
<1>2. search.rex \in BOOLEAN /\ search.use_vendor \in BOOLEAN
  BY DEF BusTypes
<1>3. Bus!Sought(n) <=> /\ d # Bus!Absent /\ d.class = search.target.class
                        /\ search.rex => d.revision = search.target.revision
  BY DEF Bus!Sought, Device
<1>4. Bus!Wanted(n) <=> /\ Bus!Sought(n)
                        /\ search.rex \/ search.use_vendor => d.vendor = search.target.vendor
  BY DEF Bus!Wanted, Device
<1>5. Bus!Matches(d) <=> /\ d.vendor # "ffff"
                         /\ search.use_vendor # search.rex => d.vendor = search.target.vendor
                         /\ d.class = search.target.class
                         /\ search.rex => d.revision = search.target.revision
  BY DEF Bus!Matches
<1>. HIDE DEF d
<1>6. Bus!Matches(d) => Bus!Sought(n) /\ (~search.rex => Bus!Wanted(n))
  BY <1>1, <1>2, <1>3, <1>4, <1>5
<1>7. Bus!Wanted(n) => Bus!Matches(d)
  BY <1>1, <1>2, <1>3, <1>4, <1>5
<1>. QED
  BY <1>6, <1>7 DEF d

LEMMA SameWanted ==
    ASSUME UNCHANGED <<found_mcfg, mcfg, space, num_segs, window, search>>, NEW n
    PROVE  (Bus!Sought(n)' <=> Bus!Sought(n)) /\ (Bus!Wanted(n)' <=> Bus!Wanted(n))
<1>. DEFINE bus == Bus!Bus(n)
<1>1. Bus!Segment(bus)' = Bus!Segment(bus)
  BY DEF Bus!Segment, Bus!SelectInSubSeq, Bus!Min, Bus!Bus
<1>2. Bus!Address(bus)' = Bus!Address(bus)
  BY <1>1 DEF Bus!Address, Bus!Bus
<1>3. Bus!Access(bus)' = Bus!Access(bus)
  BY <1>2 DEF Bus!Access, Bus!Bus
<1>. DEFINE d == Bus!DeviceAt(Bus!Access(bus).at, Bus!Func(n))
<1>4. d' = d
  BY <1>3 DEF Bus!DeviceAt, Bus!Func, Bus!Absent
<1>5. Bus!Sought(n) <=> /\ d # Bus!Absent /\ d.class = search.target.class
                        /\ search.rex => d.revision = search.target.revision
  BY DEF Bus!Sought
<1>6. Bus!Sought(n)' <=> /\ d' # Bus!Absent /\ d'.class = search.target.class
                         /\ search.rex => d'.revision = search.target.revision
  BY DEF Bus!Sought, Bus!Absent
<1>7. Bus!Wanted(n) <=> /\ Bus!Sought(n)
                        /\ search.rex \/ search.use_vendor => d.vendor = search.target.vendor
  BY DEF Bus!Wanted
<1>8. Bus!Wanted(n)' <=> /\ Bus!Sought(n)'
                         /\ search.rex \/ search.use_vendor => d'.vendor = search.target.vendor
  BY DEF Bus!Wanted
<1>. HIDE DEF d
<1>9. Bus!Sought(n)' <=> Bus!Sought(n)
  BY <1>4, <1>5, <1>6
<1>. QED
  BY <1>4, <1>7, <1>8, <1>9

(* What every step keeps once the window is mapped.                        *)
LEMMA AfterMapping ==
    ASSUME BusInv, bus_pc \notin {"start", "map"},
           UNCHANGED <<found_mcfg, mcfg, space, num_segs, window>>,
           bus_pc' \in {"scan", "idle", "find", "found", "fault"},
           next' \in Nat, bus_pc' = "find" => next' <= Bus!Places,
           bus_pc' = "found" => result' = <<>> \/ result'[1] \in Nat,
           search'.rex \in BOOLEAN, search'.use_vendor \in BOOLEAN,
           access' = access \/ \E bus \in Nat : access' = Bus!Access(bus),
           SearchInv'
    PROVE  BusInv'
<1>1. BusTypes'
  BY DEF BusInv, BusTypes
<1>2. LoopInv'
  BY DEF LoopInv, Bus!Places
<1>3. WindowInv'
  <2>1. Done' = Done
    BY DEF Done
  <2>2. \A k, bus : Where(k, bus)' = Where(k, bus)
    BY DEF Where
  <2>3. \A k : Buses(k)' = Buses(k)
    BY DEF Buses
  <2>4. WindowInv
    BY DEF BusInv
  <2>. QED
    BY <2>1, <2>2, <2>3, <2>4 DEF WindowInv, LastAt
<1>4. Right(access')
  <2>1. CASE access' = access
    BY <2>1, RightIs DEF BusInv
  <2>2. CASE \E bus \in Nat : access' = Bus!Access(bus)
    BY <2>2, AccessIs DEF BusInv, Done
  <2>. QED
    BY <2>1, <2>2
<1>5. Bus!AccessRight'
  BY <1>4 DEF Bus!AccessRight, Right, Having, Bus!Lists, Bus!Overlaid
<1>. QED
  BY <1>1, <1>2, <1>3, <1>5 DEF BusInv

LEMMA StartKeeps == ASSUME BusInv, Bus!Start PROVE BusInv'
<1>1. Len(mcfg) \in Nat /\ mcfg \in Mcfgs
  BY TableIs DEF BusInv, BusTypes
<1>2. Bus!NumSegs \in Int /\ Bus!NumSegs <= Len(mcfg)
  <2>1. CASE mcfg = <<>>
    BY <1>1, <2>1 DEF Bus!NumSegs
  <2>2. CASE mcfg # <<>>
    <3>1. Bus!NumSegs = (Len(mcfg) * 16 - 8) \div 16
      BY <2>2 DEF Bus!NumSegs, Bus!EntrySize
    <3>. QED
      BY <1>1, <3>1, SMTT(30)
  <2>. QED
    BY <2>1, <2>2
<1>3. BusTypes'
  BY <1>2 DEF BusInv, BusTypes, Bus!Start, Bus!board
<1>4. LoopInv'
  BY DEF BusInv, LoopInv, Bus!Start, Bus!board
<1>5. WindowInv'
  <2>1. Done = {} /\ Done' = {}
    BY DEF Bus!Start, Bus!board, Done, BusInv, LoopInv
  <2>2. WindowInv /\ window' = window
    BY DEF BusInv, Bus!Start
  <2>. QED
    BY <2>1, <2>2 DEF WindowInv
<1>6. Bus!AccessRight' /\ SearchInv'
  BY DEF BusInv, LoopInv, Bus!Start, Bus!board, Bus!AccessRight, SearchInv
<1>. QED
  BY <1>3, <1>4, <1>5, <1>6 DEF BusInv

LEMMA MapSegmentKeeps == ASSUME BusInv, Bus!MapSegment PROVE BusInv'
<1>. DEFINE e == mcfg[next]
            first == e.segment * BusesPerSegment
            added == first..(first + (e.end - e.start))
<1>1. /\ bus_pc = "map" /\ next \in 1..num_segs /\ next' = next + 1
      /\ bus_pc' = bus_pc /\ num_segs' = num_segs /\ mcfg' = mcfg /\ space' = space
      /\ found_mcfg' = found_mcfg /\ search' = search /\ access' = access
  BY DEF BusInv, BusTypes, LoopInv, Bus!MapSegment, Bus!board
<1>2. window' = [a \in added \cup DOMAIN window |->
                   IF a \in added THEN <<e.segment, e.start + (a - first)>> ELSE window[a]]
  BY DEF Bus!MapSegment
<1>3. next \in 1..Len(mcfg)
  BY <1>1, TableIs DEF BusInv, BusTypes
<1>4. /\ e.segment \in Nat /\ e.start \in Nat /\ e.end \in Nat /\ first \in Nat
      /\ e.start <= e.end
  BY <1>3, TableIs, BusAssumption DEF BusInv
<1>5. BusTypes' /\ LoopInv'
  BY <1>1 DEF BusInv, BusTypes, LoopInv
<1>6. WindowInv'
  <2>. HIDE DEF e, first, added
  <2>1. Done = 1..(next - 1) /\ Done' = Done \cup {next}
    BY <1>1 DEF Done
  <2>2. \A k, bus : Where(k, bus)' = Where(k, bus)
    BY <1>1 DEF Where
  <2>3. \A k : Buses(k)' = Buses(k)
    BY <1>1 DEF Buses
  <2>4. ASSUME NEW bus \in Buses(next)
        PROVE  /\ Where(next, bus) \in added
               /\ e.start + (Where(next, bus) - first) = bus
    <3>1. Where(next, bus) = first + (bus - e.start)
      BY DEF Where, first, e
    <3>2. bus \in e.start..e.end
      BY DEF Buses, e
    <3>. QED
      BY <1>4, <3>1, <3>2 DEF added
  <2>5. ASSUME NEW a \in added
        PROVE  \E bus \in Buses(next) : a = Where(next, bus) /\ bus = e.start + (a - first)
    <3>. DEFINE bus == e.start + (a - first)
    <3>1. bus \in e.start..e.end /\ first + (bus - e.start) = a
      BY <1>4 DEF added
    <3>2. bus \in Buses(next)
      BY <3>1 DEF Buses, e
    <3>3. Where(next, bus) = first + (bus - e.start)
      BY DEF Where, first, e
    <3>. QED
      BY <3>1, <3>2, <3>3
  <2>6. ASSUME NEW k \in Done', NEW bus \in Buses(k) PROVE Where(k, bus) \in DOMAIN window'
    <3>1. CASE k = next
      BY <1>2, <2>4, <3>1
    <3>2. CASE k # next
      BY <1>2, <2>1, <3>2 DEF BusInv, WindowInv
    <3>. QED
      BY <3>1, <3>2
  <2>7. ASSUME NEW a \in DOMAIN window'
        PROVE  \E j \in Done' : \E b \in Buses(j) :
                  /\ a = Where(j, b) /\ window'[a] = <<mcfg[j].segment, b>>
                  /\ \A k \in Done' : k > j => \A c \in Buses(k) : Where(k, c) # a
    <3>1. CASE a \in added
      <4>1. PICK b \in Buses(next) : a = Where(next, b) /\ b = e.start + (a - first)
        BY <2>5, <3>1
      <4>2. window'[a] = <<mcfg[next].segment, b>>
        BY <1>2, <3>1, <4>1 DEF e
      <4>3. \A k \in Done' : ~ (k > next)
        BY <1>1, <2>1 DEF BusInv, BusTypes
      <4>. QED
        BY <2>1, <4>1, <4>2, <4>3
    <3>2. CASE a \notin added
      <4>1. a \in DOMAIN window /\ window'[a] = window[a]
        BY <1>2, <3>2
      <4>2. PICK j \in Done : \E b \in Buses(j) : LastAt(a, j, b)
        BY <4>1 DEF BusInv, WindowInv
      <4>3. PICK b \in Buses(j) : LastAt(a, j, b)
        BY <4>2
      <4>4. \A k \in Done' : k > j => \A c \in Buses(k) : Where(k, c) # a
        BY <2>1, <2>4, <3>2, <4>3 DEF LastAt
      <4>. QED
        BY <2>1, <4>1, <4>3, <4>4 DEF LastAt
    <3>. QED
      BY <3>1, <3>2
  <2>. QED
    BY <1>1, <2>2, <2>3, <2>6, <2>7 DEF WindowInv, LastAt
<1>7. Bus!AccessRight' /\ SearchInv'
  BY <1>1 DEF BusInv, LoopInv, Bus!AccessRight, Bus!Overlaid, SearchInv
<1>. QED
  BY <1>5, <1>6, <1>7 DEF BusInv

LEMMA MappedKeeps == ASSUME BusInv, Bus!Mapped PROVE BusInv'
<1>1. /\ bus_pc = "map" /\ bus_pc' = "scan" /\ next > num_segs /\ next' = 0
      /\ num_segs' = num_segs /\ mcfg' = mcfg /\ space' = space /\ window' = window
      /\ found_mcfg' = found_mcfg /\ search' = search /\ access' = access
  BY DEF Bus!Mapped, Bus!board
<1>2. BusTypes' /\ LoopInv'
  BY <1>1 DEF BusInv, BusTypes, LoopInv
<1>3. WindowInv'
  <2>1. Done' = Done
    <3>1. next = 1 \/ next \in 1..(num_segs + 1)
      BY <1>1 DEF BusInv, LoopInv
    <3>2. Done = 1..(next - 1) /\ Done' = 1..num_segs
      BY <1>1 DEF Done
    <3>. QED
      BY <1>1, <3>1, <3>2 DEF BusInv, BusTypes
  <2>2. \A k, bus : Where(k, bus)' = Where(k, bus)
    BY <1>1 DEF Where
  <2>3. \A k : Buses(k)' = Buses(k)
    BY <1>1 DEF Buses
  <2>4. WindowInv
    BY DEF BusInv
  <2>. QED
    BY <1>1, <2>1, <2>2, <2>3, <2>4 DEF WindowInv, LastAt
<1>4. Bus!AccessRight' /\ SearchInv'
  BY <1>1 DEF BusInv, LoopInv, Bus!AccessRight, Bus!Overlaid, SearchInv
<1>. QED
  BY <1>2, <1>3, <1>4 DEF BusInv

(* The bus and the function of a place of the search, and their types.     *)
LEMMA PlaceIs ==
    ASSUME NEW n \in Nat
    PROVE  /\ Bus!Bus(n) \in Nat /\ Bus!Func(n) \in Nat
           /\ Bus!Bus(n) * Funcs + Bus!Func(n) = n
  BY Quotient, BusAssumption DEF Bus!Bus, Bus!Func

LEMMA ScanKeeps == ASSUME BusInv, Bus!Scan PROVE BusInv'
<1>1. /\ bus_pc = "scan" /\ bus_pc' \in {"idle", "scan"} /\ next \in Nat /\ next' = next + 1
      /\ access' = Bus!Access(Bus!Bus(next))
      /\ UNCHANGED <<found_mcfg, mcfg, space, num_segs, window, search, result>>
  BY DEF Bus!Scan, Bus!Reads, Bus!board, BusInv, BusTypes
<1>2. SearchInv'
  BY <1>1 DEF SearchInv
<1>3. Bus!Bus(next) \in Nat /\ next' \in Nat
  BY <1>1, PlaceIs
<1>4. bus_pc' \in {"scan", "idle", "find", "found", "fault"} /\ bus_pc' \notin {"find", "found"}
  BY <1>1
<1>5. search'.rex \in BOOLEAN /\ search'.use_vendor \in BOOLEAN
  BY <1>1 DEF BusInv, BusTypes
<1>. QED
  BY <1>1, <1>2, <1>3, <1>4, <1>5, AfterMapping

LEMMA PageFaultKeeps == ASSUME BusInv, Bus!PageFault PROVE BusInv'
<1>1. /\ bus_pc \in {"scan", "find"} /\ bus_pc' = "fault" /\ next \in Nat /\ next' = next
      /\ access' = Bus!Access(Bus!Bus(next))
      /\ UNCHANGED <<found_mcfg, mcfg, space, num_segs, window, search, result>>
  BY DEF Bus!PageFault, Bus!board, BusInv, BusTypes
<1>2. SearchInv'
  BY <1>1 DEF SearchInv
<1>. QED
  BY <1>1, <1>2, PlaceIs, AfterMapping DEF BusInv, BusTypes

LEMMA FindKeeps == ASSUME BusInv, Bus!Find PROVE BusInv'
<1>1. /\ bus_pc = "idle" /\ bus_pc' = "find" /\ next' = 0 /\ access' = access
      /\ search'.rex \in BOOLEAN /\ search'.use_vendor \in BOOLEAN
      /\ UNCHANGED <<found_mcfg, mcfg, space, num_segs, window, result>>
  BY DEF Bus!Find, Bus!board
<1>2. SearchInv'
  BY <1>1 DEF SearchInv
<1>3. Bus!Places \in Nat
  BY BusAssumption DEF Bus!Places
<1>. QED
  BY <1>1, <1>2, <1>3, AfterMapping

LEMMA LookKeepsSearch == ASSUME BusInv, Bus!Look PROVE BusInv'
<1>1. /\ bus_pc = "find" /\ bus_pc' = "find" /\ next \in Nat /\ next' = next + 1
      /\ next < Bus!Places /\ access' = Bus!Access(Bus!Bus(next))
      /\ UNCHANGED <<found_mcfg, mcfg, space, num_segs, window, search, result>>
      /\ ~Bus!Matches(Bus!DeviceAt(access'.at, Bus!Func(next)))
  BY DEF Bus!Look, Bus!Reads, Bus!board, BusInv, BusTypes
<1>2. SearchInv'
  <2>1. SUFFICES \A m \in 0..next : ~Bus!Wanted(m)
    BY <1>1, SameWanted DEF SearchInv
  <2>2. ~Bus!Wanted(next)
    BY <1>1, MatchesAre DEF BusInv, Device
  <2>3. \A m \in 0..(next - 1) : ~Bus!Wanted(m)
    BY <1>1 DEF BusInv, SearchInv
  <2>. QED
    BY <1>1, <2>2, <2>3
<1>3. Bus!Places \in Nat
  BY BusAssumption DEF Bus!Places
<1>. QED
  BY <1>1, <1>2, <1>3, PlaceIs, AfterMapping DEF BusInv, BusTypes

LEMMA HitKeeps == ASSUME BusInv, Bus!Hit PROVE BusInv'
<1>1. /\ bus_pc = "find" /\ bus_pc' = "found" /\ next \in Nat /\ next' = next
      /\ next < Bus!Places /\ access' = Bus!Access(Bus!Bus(next))
      /\ result' = <<Bus!Bus(next), Bus!Func(next)>>
      /\ UNCHANGED <<found_mcfg, mcfg, space, num_segs, window, search>>
      /\ Bus!Matches(Bus!DeviceAt(access'.at, Bus!Func(next)))
  BY DEF Bus!Hit, Bus!Reads, Bus!board, BusInv, BusTypes
<1>2. Bus!Places \in Nat
  BY BusAssumption DEF Bus!Places
<1>3. SearchInv'
  <2>1. /\ Bus!Sought(next) /\ (~search.rex => Bus!Wanted(next))
        /\ \A m \in 0..(next - 1) : ~Bus!Wanted(m)
    BY <1>1, MatchesAre DEF BusInv, SearchInv, Device
  <2>2. Bus!Places' = Bus!Places /\ next \in 0..(Bus!Places - 1)
    BY <1>1, <1>2 DEF Bus!Places
  <2>3. \E n \in 0..(Bus!Places' - 1) :
           /\ result' = <<Bus!Bus(n), Bus!Func(n)>>
           /\ Bus!Sought(n)' /\ (~search'.rex => Bus!Wanted(n)')
           /\ \A m \in 0..(n - 1) : ~Bus!Wanted(m)'
    <3>1. \A m : (Bus!Sought(m)' <=> Bus!Sought(m)) /\ (Bus!Wanted(m)' <=> Bus!Wanted(m))
      BY <1>1, SameWanted
    <3>. QED
      BY <1>1, <2>1, <2>2, <3>1
  <2>. QED
    BY <1>1, <2>3 DEF SearchInv, Bus!Bus, Bus!Func
<1>4. Bus!Bus(next) \in Nat /\ result'[1] \in Nat
  BY <1>1, PlaceIs
<1>. QED
  BY <1>1, <1>3, <1>4, AfterMapping DEF BusInv, BusTypes

LEMMA MissKeeps == ASSUME BusInv, Bus!Miss PROVE BusInv'
<1>1. /\ bus_pc = "find" /\ bus_pc' = "found" /\ next \in Nat /\ next' = next
      /\ next = Bus!Places /\ access' = access /\ result' = <<>>
      /\ UNCHANGED <<found_mcfg, mcfg, space, num_segs, window, search>>
  BY DEF Bus!Miss, Bus!board, BusInv, BusTypes
<1>2. SearchInv'
  <2>1. \A m \in 0..(Bus!Places - 1) : ~Bus!Wanted(m)
    BY <1>1 DEF BusInv, SearchInv
  <2>2. \A m : Bus!Wanted(m)' <=> Bus!Wanted(m)
    BY <1>1, SameWanted
  <2>. QED
    BY <1>1, <2>1, <2>2 DEF SearchInv, Bus!Places
<1>. QED
  BY <1>1, <1>2, AfterMapping DEF BusInv, BusTypes

LEMMA EnableKeeps == ASSUME BusInv, Bus!Enable PROVE BusInv'
<1>1. /\ bus_pc = "found" /\ bus_pc' = "idle" /\ next' = 0
      /\ access' = (IF result = <<>> THEN access ELSE Bus!Access(result[1]))
      /\ search'.rex \in BOOLEAN /\ search'.use_vendor \in BOOLEAN
      /\ UNCHANGED <<found_mcfg, mcfg, space, num_segs, window>>
  BY DEF Bus!Enable, Bus!board, Bus!NoSearch
<1>2. result = <<>> \/ result[1] \in Nat
  BY <1>1 DEF BusInv, LoopInv
<1>3. SearchInv'
  BY <1>1 DEF SearchInv
<1>. QED
  BY <1>1, <1>2, <1>3, AfterMapping

LEMMA BusKeeps == ASSUME BusInv, Bus!Next \/ UNCHANGED busVars PROVE BusInv'
<1>1. CASE UNCHANGED busVars
  <2>1. UNCHANGED <<found_mcfg, mcfg, space, bus_pc, next, num_segs, window, search, result, access>>
    BY <1>1 DEF busVars
  <2>2. BusTypes' /\ LoopInv' /\ Bus!AccessRight'
    BY <2>1 DEF BusInv, BusTypes, LoopInv, Bus!Places, Bus!AccessRight, Bus!Lists,
       Bus!Overlaid
  <2>3. WindowInv'
    <3>1. Done' = Done
      BY <2>1 DEF Done
    <3>2. \A k, bus : Where(k, bus)' = Where(k, bus)
      BY <2>1 DEF Where
    <3>3. \A k : Buses(k)' = Buses(k)
      BY <2>1 DEF Buses
    <3>4. WindowInv
      BY DEF BusInv
    <3>. QED
      BY <2>1, <3>1, <3>2, <3>3, <3>4 DEF WindowInv, LastAt
  <2>4. SearchInv'
    <3>1. \A m : (Bus!Sought(m)' <=> Bus!Sought(m)) /\ (Bus!Wanted(m)' <=> Bus!Wanted(m))
      BY <2>1, SameWanted
    <3>. QED
      BY <2>1, <3>1 DEF BusInv, SearchInv, Bus!Places, Bus!Bus, Bus!Func
  <2>. QED
    BY <2>2, <2>3, <2>4 DEF BusInv
<1>. QED
  BY <1>1, StartKeeps, MapSegmentKeeps, MappedKeeps, ScanKeeps, PageFaultKeeps, FindKeeps,
     LookKeepsSearch, HitKeeps, MissKeeps, EnableKeeps DEF Bus!Next

LEMMA BusShows == ASSUME BusInv PROVE SearchRight
<1>1. Bus!AccessRight
  BY DEF BusInv
<1>2. CASE bus_pc = "found" /\ result = <<>>
  BY <1>1, <1>2 DEF BusInv, SearchInv, SearchRight, Bus!SearchRight
<1>3. CASE bus_pc = "found" /\ result # <<>>
  <2>1. PICK n \in 0..(Bus!Places - 1) :
           /\ result = <<Bus!Bus(n), Bus!Func(n)>>
           /\ Bus!Sought(n) /\ (~search.rex => Bus!Wanted(n))
           /\ \A m \in 0..(n - 1) : ~Bus!Wanted(m)
    BY <1>3 DEF BusInv, SearchInv
  <2>2. Bus!Places \in Nat /\ n \in Nat
    BY BusAssumption DEF Bus!Places
  <2>3. result[1] * Funcs + result[2] = n
    BY <2>1, <2>2, PlaceIs
  <2>. QED
    BY <1>1, <1>3, <2>1, <2>3 DEF SearchRight, Bus!SearchRight
<1>4. CASE bus_pc # "found"
  BY <1>1, <1>4 DEF SearchRight, Bus!SearchRight
<1>. QED
  BY <1>2, <1>3, <1>4

(* SearchRight of Pcie: an access of pcie_read or pcie_write to a bus that *)
(* a counted entry of the MCFG has reaches it, unless a later entry of the *)
(* segment was mapped over it, and none ever leaves what pcie_init has     *)
(* mapped; pcie_find_ex returns the first function that is wanted, and     *)
(* pcie_find_rex passes over none that is the very one, whatever the MCFG  *)
(* lists, segments with several entries included, and the slots hold.      *)
THEOREM SearchRightHolds == DevicesSpec => []SearchRight
<1>1. DevicesInit => BusInv
  BY BusStarts DEF DevicesInit
<1>2. BusInv /\ [DevicesNext]_deviceVars => BusInv'
  <2>. SUFFICES ASSUME BusInv, [DevicesNext]_deviceVars PROVE BusInv'
    OBVIOUS
  <2>1. Bus!Next \/ UNCHANGED busVars
    BY DEF DevicesNext, deviceVars
  <2>. QED
    BY <2>1, BusKeeps
<1>. QED
  BY <1>1, <1>2, BusShows, PTL DEF DevicesSpec

-----------------------------------------------------------------------------
(* Programs that are put together: Console                                 *)

(* f[k] is the first k of the sequences, one after another.                *)
Joins(f, seqs, n) ==
    f = [k \in 1..n |-> IF k = 1 THEN seqs[k] ELSE f[k - 1] \o seqs[k]]

LEMMA JoinsAre ==
    ASSUME NEW f, NEW seqs, NEW n, Joins(f, seqs, n), NEW k \in 1..n
    PROVE  f[k] = IF k = 1 THEN seqs[k] ELSE f[k - 1] \o seqs[k]
<1>1. PICK g : g = [j \in 1..n |-> IF j = 1 THEN seqs[j] ELSE f[j - 1] \o seqs[j]]
  OBVIOUS
<1>2. g[k] = IF k = 1 THEN seqs[k] ELSE f[k - 1] \o seqs[k]
  BY <1>1
<1>3. f = g
  BY <1>1 DEF Joins
<1>. QED
  BY <1>2, <1>3

LEMMA JoinsExist ==
    ASSUME NEW seqs, NEW n \in Nat
    PROVE  \E f : Joins(f, seqs, n)
<1>. DEFINE Bad == {m \in Nat : ~ \E f : Joins(f, seqs, m)}
<1>1. \E f : Joins(f, seqs, 0)
  <2>1. PICK f : f = [k \in 1..0 |-> seqs]
    OBVIOUS
  <2>2. f = [k \in 1..0 |-> IF k = 1 THEN seqs[k] ELSE f[k - 1] \o seqs[k]]
    BY <2>1
  <2>. QED
    BY <2>2 DEF Joins
<1>2. ASSUME NEW m \in Nat, NEW f, Joins(f, seqs, m)
      PROVE  \E g : Joins(g, seqs, m + 1)
  <2>. DEFINE g == [k \in 1..(m + 1) |->
                      IF k = 1 THEN seqs[k] ELSE f[k - 1] \o seqs[k]]
  <2>1. \A k \in 1..m : g[k] = f[k]
    BY <1>2, JoinsAre
  <2>2. g = [k \in 1..(m + 1) |-> IF k = 1 THEN seqs[k] ELSE g[k - 1] \o seqs[k]]
    <3>1. ASSUME NEW k \in 1..(m + 1), k # 1 PROVE f[k - 1] = g[k - 1]
      <4>1. k - 1 \in 1..m
        BY <3>1
      <4>. QED
        BY <2>1, <4>1
    <3>. QED
      BY <3>1
  <2>. HIDE DEF g
  <2>. QED
    BY <2>2 DEF Joins
<1>3. Bad = {}
  <2>. SUFFICES ASSUME Bad # {} PROVE FALSE
    OBVIOUS
  <2>1. PICK m \in Bad : \A k \in Bad : m <= k
    BY NatMin
  <2>2. m \in Nat /\ m # 0
    BY <1>1
  <2>3. PICK k \in Nat : m = k + 1
    BY <2>2
  <2>4. k \notin Bad
    <3>1. ~(m <= k)
      BY <2>3
    <3>. HIDE DEF Bad
    <3>. QED
      BY <2>1, <3>1
  <2>. QED
    BY <1>2, <2>1, <2>3, <2>4
<1>. QED
  BY <1>3

(* What holds of nothing, and is kept by each of the sequences that is put *)
(* behind the ones before it, holds of all of them together.               *)
LEMMA FlattenInduction ==
    ASSUME NEW X, NEW seqs \in Seq(Seq(X)), NEW T, <<>> \in T[0],
           \A n \in 1..Len(seqs) : \A p \in T[n - 1] : p \o seqs[n] \in T[n]
    PROVE  Console!FlattenSeq(seqs) \in T[Len(seqs)]
<1>. DEFINE N == Len(seqs)
<1>1. N \in Nat /\ \A k \in 1..N : seqs[k] \in Seq(X)
  BY LenProperties
<1>2. CASE N = 0
  <2>1. seqs = <<>>
    BY <1>2
  <2>. QED
    BY <1>2, <2>1 DEF Console!FlattenSeq
<1>3. CASE N # 0
  <2>. DEFINE f == CHOOSE g : Joins(g, seqs, N)
              Bad == {n \in 1..N : f[n] \notin T[n]}
  <2>1. Joins(f, seqs, N)
    BY <1>1, JoinsExist
  <2>2. Console!FlattenSeq(seqs) = f[N]
    BY <1>3 DEF Console!FlattenSeq, Joins
  <2>. HIDE DEF f
  <2>3. /\ 1 \in 1..N => f[1] = seqs[1]
        /\ \A n \in 2..N : f[n] = f[n - 1] \o seqs[n]
    <3>1. \A n \in 2..N : n \in 1..N /\ n # 1
      BY <1>1
    <3>2. \A k \in 1..N : f[k] = IF k = 1 THEN seqs[k] ELSE f[k - 1] \o seqs[k]
      BY <2>1, JoinsAre
    <3>. QED
      BY <3>1, <3>2
  <2>4. 1 \in 1..N => f[1] \in T[1]
    <3>1. SUFFICES ASSUME 1 \in 1..N PROVE f[1] \in T[1]
      OBVIOUS
    <3>2. <<>> \o seqs[1] = seqs[1]
      BY <1>1, <3>1
    <3>3. T[1 - 1] = T[0]
      OBVIOUS
    <3>4. <<>> \o seqs[1] \in T[1]
      BY <3>1, <3>3
    <3>. QED
      BY <2>3, <3>1, <3>2, <3>4
  <2>5. Bad = {}
    <3>. SUFFICES ASSUME Bad # {} PROVE FALSE
      OBVIOUS
    <3>1. PICK n \in Bad : \A k \in Bad : n <= k
      <4>1. Bad \in SUBSET Nat
        BY <1>1
      <4>. HIDE DEF Bad
      <4>. QED
        BY <4>1, NatMin
    <3>2. n \in 2..N /\ f[n] \notin T[n]
      BY <1>1, <2>4
    <3>3. n - 1 \notin Bad
      <4>1. ~(n <= n - 1)
        BY <3>2
      <4>. HIDE DEF Bad
      <4>. QED
        BY <3>1, <4>1
    <3>4. f[n - 1] \in T[n - 1]
      BY <1>1, <3>2, <3>3
    <3>5. n \in 1..N
      BY <1>1, <3>2
    <3>6. f[n - 1] \o seqs[n] \in T[n]
      BY <3>4, <3>5
    <3>7. f[n] = f[n - 1] \o seqs[n]
      BY <2>3, <3>2
    <3>. QED
      BY <3>2, <3>6, <3>7
  <2>. QED
    BY <1>1, <1>3, <2>2, <2>5
<1>. QED
  BY <1>2, <1>3

-----------------------------------------------------------------------------
(* The steps of a program, and what holds at the place k of a program p.   *)

Screens == {"cell", "newline", "read_x", "read_y", "cursor"}
Owing == {"cell", "newline", "read_x", "read_y"}    \* the cursor is still to be programmed
ProgramSteps ==
    {<<op, l>> : op \in {"lock", "unlock"}, l \in Console!Locks}
    \cup {<<"out", f, n>> : f \in BOOLEAN, n \in Nat}
    \cup {<<op>> : op \in Screens}
Programs == Seq(ProgramSteps)

(* Lock l was taken before k and is not yet given back.                    *)
Held(p, k, l) ==
    \E a \in 1..(k - 1) : p[a] = <<"lock", l>> /\ \A b \in a..(k - 1) : p[b] # <<"unlock", l>>

(* The last step on the screen before k is op.                             *)
Pending(p, k, op) ==
    \E a \in 1..(k - 1) : p[a][1] = op /\ \A b \in (a + 1)..(k - 1) : p[b][1] \notin Screens

Legal(p) ==
    /\ p \in Programs
    /\ \A k \in 1..Len(p) : \A l \in Console!Locks : p[k] = <<"unlock", l>> => Held(p, k, l)

(* Lock l is not given back, if somebody around p has it.                  *)
Keeps(p, l) == \A k \in 1..Len(p) : p[k] # <<"unlock", l>>

(* The formats and the strings of the characters are of these.             *)
Marks(p, F, S) ==
    \A k \in 1..Len(p) : p[k][1] = "out" => p[k][2] \in F /\ p[k][3] \in S

Blind(p) == \A k \in 1..Len(p) : p[k][1] \notin Screens

(* Characters that belong together: a lock is held from the first of them  *)
(* to the last.                                                            *)
FormatWhole(p) ==
    \A first, last \in 1..Len(p) : \A k \in first..last :
        /\ p[first][1] = "out" /\ p[first][2] = TRUE
        /\ p[last][1] = "out" /\ p[last][2] = TRUE
        => Held(p, k, "serialf")
StringsWhole(p) ==
    \A first, last \in 1..Len(p) : \A k \in first..last :
        /\ p[first][1] = "out" /\ p[last][1] = "out"
        /\ p[first][3] # 0 /\ p[last][3] = p[first][3]
        => Held(p, k, "serialp")

(* What a step on the screen goes by is the step before it, and nothing is *)
(* left to be programmed.                                                  *)
Follows(p, k) ==
    /\ p[k][1] = "read_y" => Pending(p, k, "cell")
    /\ p[k][1] = "read_x" => Pending(p, k, "newline")
    /\ p[k][1] = "cursor" => Pending(p, k, "read_x") \/ Pending(p, k, "read_y")
Paired(p) ==
    /\ \A k \in 1..Len(p) : Follows(p, k)
    /\ \A op \in Owing : ~Pending(p, Len(p) + 1, op)

(* Lock l is held from the first step on the screen to the last.           *)
ScreenWhole(p, l) ==
    \A k \in 1..Len(p) :
        p[k][1] \in Screens \/ (\E op \in Owing : Pending(p, k, op)) => Held(p, k, l)

(* What the functions of the console are.                                  *)
Sound(p) ==
    p # <<>> /\ Legal(p) /\ FormatWhole(p) /\ StringsWhole(p) /\ Paired(p)

LEMMA StepIs ==
    ASSUME NEW s \in ProgramSteps
    PROVE  /\ s[1] \in {"lock", "unlock", "out"} \cup Screens
           /\ s[1] \in {"lock", "unlock"} => s[2] \in Console!Locks /\ s = <<s[1], s[2]>>
           /\ s[1] = "out" => s[2] \in BOOLEAN /\ s[3] \in Nat
<1>1. CASE s \in {<<op, l>> : op \in {"lock", "unlock"}, l \in Console!Locks}
  BY <1>1 DEF Screens
<1>2. CASE s \in {<<"out", f, n>> : f \in BOOLEAN, n \in Nat}
  BY <1>2 DEF Screens
<1>3. CASE s \in {<<op>> : op \in Screens}
  BY <1>3 DEF Screens
<1>. QED
  BY <1>1, <1>2, <1>3 DEF ProgramSteps

LEMMA Joined ==
    ASSUME NEW p \in Programs, NEW q \in Programs
    PROVE  /\ p \o q \in Programs /\ Len(p) \in Nat /\ Len(q) \in Nat
           /\ Len(p \o q) = Len(p) + Len(q)
           /\ \A k \in 1..Len(p) : (p \o q)[k] = p[k]
           /\ \A k \in 1..Len(q) : (p \o q)[Len(p) + k] = q[k]
           /\ \A k \in 1..Len(p \o q) :
                 k \in 1..Len(p) \/ \E j \in 1..Len(q) : k = Len(p) + j
<1>1. /\ p \o q \in Programs /\ Len(p) \in Nat /\ Len(q) \in Nat
      /\ Len(p \o q) = Len(p) + Len(q)
  BY LenProperties, ConcatProperties DEF Programs
<1>2. \A k \in 1..(Len(p) + Len(q)) :
         (p \o q)[k] = IF k <= Len(p) THEN p[k] ELSE q[k - Len(p)]
  BY ConcatProperties DEF Programs
<1>3. \A k \in 1..Len(p) : (p \o q)[k] = p[k]
  BY <1>1, <1>2
<1>4. ASSUME NEW k \in 1..Len(q) PROVE (p \o q)[Len(p) + k] = q[k]
  <2>1. Len(p) + k \in 1..(Len(p) + Len(q)) /\ ~(Len(p) + k <= Len(p)) /\ (Len(p) + k) - Len(p) = k
    BY <1>1
  <2>. QED
    BY <1>2, <2>1
<1>5. ASSUME NEW k \in 1..Len(p \o q), k \notin 1..Len(p)
      PROVE  \E j \in 1..Len(q) : k = Len(p) + j
  <2>1. k - Len(p) \in 1..Len(q) /\ k = Len(p) + (k - Len(p))
    BY <1>1, <1>5
  <2>. QED
    BY <2>1
<1>. QED
  BY <1>1, <1>3, <1>4, <1>5

LEMMA HeldFirst ==
    ASSUME NEW p \in Programs, NEW q \in Programs, NEW l, NEW k \in 1..(Len(p) + 1), Held(p, k, l)
    PROVE  Held(p \o q, k, l)
<1>1. PICK a \in 1..(k - 1) : p[a] = <<"lock", l>> /\ \A b \in a..(k - 1) : p[b] # <<"unlock", l>>
  BY DEF Held
<1>. DEFINE r == p \o q
<1>2. Len(p) \in Nat /\ \A b \in 1..Len(p) : r[b] = p[b]
  BY Joined
<1>. HIDE DEF r
<1>3. \A b \in 1..(k - 1) : r[b] = p[b]
  BY <1>2
<1>4. \A b \in a..(k - 1) : b \in 1..(k - 1)
  BY <1>2
<1>5. Held(r, k, l)
  BY <1>1, <1>3, <1>4 DEF Held
<1>. QED
  BY <1>5 DEF r

LEMMA HeldSecond ==
    ASSUME NEW p \in Programs, NEW q \in Programs, NEW l, NEW k \in 1..(Len(q) + 1), Held(q, k, l)
    PROVE  Held(p \o q, Len(p) + k, l)
<1>1. PICK a \in 1..(k - 1) : q[a] = <<"lock", l>> /\ \A b \in a..(k - 1) : q[b] # <<"unlock", l>>
  BY DEF Held
<1>. DEFINE n == Len(p)  r == p \o q
<1>2. n \in Nat /\ \A b \in 1..(k - 1) : r[n + b] = q[b]
  <2>1. n \in Nat /\ Len(q) \in Nat /\ \A b \in 1..Len(q) : r[n + b] = q[b]
    BY Joined
  <2>. HIDE DEF n, r
  <2>. QED
    BY <2>1
<1>. HIDE DEF n, r
<1>3. ASSUME NEW b \in (n + a)..((n + k) - 1) PROVE r[b] # <<"unlock", l>>
  <2>1. b - n \in a..(k - 1) /\ b - n \in 1..(k - 1) /\ n + (b - n) = b
    BY <1>2
  <2>. QED
    BY <1>1, <1>2, <2>1
<1>4. n + a \in 1..((n + k) - 1)
  BY <1>2
<1>5. r[n + a] = <<"lock", l>>
  BY <1>1, <1>2
<1>6. Held(r, n + k, l)
  BY <1>3, <1>4, <1>5 DEF Held
<1>. QED
  BY <1>6 DEF n, r

LEMMA PendingFirst ==
    ASSUME NEW p \in Programs, NEW q \in Programs, NEW op, NEW k \in 1..(Len(p) + 1)
    PROVE  Pending(p \o q, k, op) <=> Pending(p, k, op)
<1>. DEFINE r == p \o q
<1>1. Len(p) \in Nat /\ \A b \in 1..Len(p) : r[b] = p[b]
  BY Joined
<1>. HIDE DEF r
<1>2. \A b \in 1..(k - 1) : r[b] = p[b]
  BY <1>1
<1>3. \A a \in 1..(k - 1) : \A b \in (a + 1)..(k - 1) : b \in 1..(k - 1)
  BY <1>1
<1>4. Pending(r, k, op) <=> Pending(p, k, op)
  BY <1>2, <1>3 DEF Pending
<1>. QED
  BY <1>4 DEF r

LEMMA PendingSecond ==
    ASSUME NEW p \in Programs, NEW q \in Programs, NEW op, NEW k \in 1..(Len(q) + 1)
    PROVE  /\ Pending(q, k, op) => Pending(p \o q, Len(p) + k, op)
           /\ Pending(p \o q, Len(p) + k, op) => Pending(q, k, op) \/ Pending(p, Len(p) + 1, op)
<1>. DEFINE n == Len(p)  r == p \o q
<1>1. /\ n \in Nat /\ \A b \in 1..(k - 1) : r[n + b] = q[b]
      /\ \A b \in 1..n : r[b] = p[b]
  <2>1. /\ n \in Nat /\ Len(q) \in Nat /\ \A b \in 1..Len(q) : r[n + b] = q[b]
        /\ \A b \in 1..n : r[b] = p[b]
    BY Joined
  <2>. HIDE DEF n, r
  <2>. QED
    BY <2>1
<1>. HIDE DEF n, r
<1>2. ASSUME Pending(q, k, op) PROVE Pending(r, n + k, op)
  <2>1. PICK a \in 1..(k - 1) : q[a][1] = op /\ \A b \in (a + 1)..(k - 1) : q[b][1] \notin Screens
    BY <1>2 DEF Pending
  <2>2. ASSUME NEW b \in (n + a + 1)..((n + k) - 1) PROVE r[b][1] \notin Screens
    <3>1. b - n \in (a + 1)..(k - 1) /\ b - n \in 1..(k - 1) /\ n + (b - n) = b
      BY <1>1
    <3>. QED
      BY <1>1, <2>1, <3>1
  <2>3. n + a \in 1..((n + k) - 1)
    BY <1>1
  <2>. QED
    BY <1>1, <2>1, <2>2, <2>3 DEF Pending
<1>3. ASSUME Pending(r, n + k, op) PROVE Pending(q, k, op) \/ Pending(p, n + 1, op)
  <2>1. PICK a \in 1..((n + k) - 1) :
           r[a][1] = op /\ \A b \in (a + 1)..((n + k) - 1) : r[b][1] \notin Screens
    BY <1>1, <1>3 DEF Pending
  <2>2. CASE a <= n
    <3>1. a \in 1..n /\ p[a][1] = op
      BY <1>1, <2>1, <2>2
    <3>2. \A b \in (a + 1)..n : b \in (a + 1)..((n + k) - 1) /\ b \in 1..n
      BY <1>1, <2>2
    <3>3. \A b \in (a + 1)..n : p[b][1] \notin Screens
      BY <1>1, <2>1, <3>2
    <3>4. (n + 1) - 1 = n
      BY <1>1
    <3>. QED
      BY <3>1, <3>3, <3>4 DEF Pending
  <2>3. CASE ~(a <= n)
    <3>1. a - n \in 1..(k - 1) /\ n + (a - n) = a
      BY <1>1, <2>3
    <3>2. q[a - n][1] = op
      BY <1>1, <2>1, <3>1
    <3>3. ASSUME NEW b \in ((a - n) + 1)..(k - 1) PROVE q[b][1] \notin Screens
      <4>1. b \in 1..(k - 1) /\ n + b \in (a + 1)..((n + k) - 1)
        BY <1>1, <2>3
      <4>. QED
        BY <1>1, <2>1, <4>1
    <3>. QED
      BY <3>1, <3>2, <3>3 DEF Pending
  <2>. QED
    BY <2>2, <2>3
<1>. QED
  BY <1>2, <1>3 DEF n, r

(* What is kept when two programs are put together.                        *)
LEMMA LegalJoined ==
    ASSUME NEW p, NEW q, Legal(p), Legal(q)
    PROVE  Legal(p \o q)
<1>. DEFINE r == p \o q  n == Len(p)
<1>1. p \in Programs /\ q \in Programs
  BY DEF Legal
<1>2. /\ n \in Nat /\ Len(q) \in Nat /\ r \in Programs /\ Len(r) = n + Len(q)
      /\ \A k \in 1..n : r[k] = p[k]
      /\ \A k \in 1..Len(q) : r[n + k] = q[k]
      /\ \A k \in 1..Len(r) : k \in 1..n \/ \E j \in 1..Len(q) : k = n + j
  BY <1>1, Joined
<1>3. ASSUME NEW k \in 1..Len(r), NEW l \in Console!Locks, r[k] = <<"unlock", l>>
      PROVE  Held(r, k, l)
  <2>1. CASE k \in 1..n
    <3>1. r[k] = p[k] /\ k \in 1..(n + 1)
      BY <1>2, <2>1
    <3>2. Held(p, k, l)
      BY <1>3, <2>1, <3>1 DEF Legal
    <3>. QED
      BY <1>1, <3>1, <3>2, HeldFirst
  <2>2. ASSUME NEW j \in 1..Len(q), k = n + j PROVE Held(r, k, l)
    <3>1. r[k] = q[j] /\ j \in 1..(Len(q) + 1)
      BY <1>2, <2>2
    <3>2. Held(q, j, l)
      BY <1>3, <2>2, <3>1 DEF Legal
    <3>. QED
      BY <1>1, <2>2, <3>1, <3>2, HeldSecond
  <2>. QED
    BY <1>2, <2>1, <2>2
<1>. HIDE DEF r, n
<1>4. Legal(r)
  BY <1>2, <1>3 DEF Legal
<1>. QED
  BY <1>4 DEF r

LEMMA KeptJoined ==
    ASSUME NEW p \in Programs, NEW q \in Programs
    PROVE  /\ \A l : Keeps(p, l) /\ Keeps(q, l) => Keeps(p \o q, l)
           /\ \A F, S : Marks(p, F, S) /\ Marks(q, F, S) => Marks(p \o q, F, S)
           /\ Blind(p) /\ Blind(q) => Blind(p \o q)
<1>. DEFINE r == p \o q  n == Len(p)
<1>1. /\ n \in Nat /\ Len(q) \in Nat /\ r \in Programs /\ Len(r) = n + Len(q)
      /\ \A k \in 1..n : r[k] = p[k]
      /\ \A k \in 1..Len(q) : r[n + k] = q[k]
      /\ \A k \in 1..Len(r) : k \in 1..n \/ \E j \in 1..Len(q) : k = n + j
  BY Joined
<1>. HIDE DEF r, n
<1>2. ASSUME NEW k \in 1..Len(r)
      PROVE  (\E j \in 1..Len(p) : r[k] = p[j]) \/ (\E j \in 1..Len(q) : r[k] = q[j])
  BY <1>1 DEF n
<1>3. \A l : Keeps(p, l) /\ Keeps(q, l) => Keeps(r, l)
  BY <1>2 DEF Keeps
<1>4. \A F, S : Marks(p, F, S) /\ Marks(q, F, S) => Marks(r, F, S)
  BY <1>2 DEF Marks
<1>5. Blind(p) /\ Blind(q) => Blind(r)
  BY <1>2 DEF Blind
<1>. QED
  BY <1>3, <1>4, <1>5 DEF r

(* Two programs that have no string in common.                             *)
LEMMA StringsJoined ==
    ASSUME NEW p \in Programs, NEW q \in Programs, StringsWhole(p), StringsWhole(q),
           NEW F, NEW S, NEW G, NEW U, Marks(p, F, S), Marks(q, G, U), S \cap U \subseteq {0}
    PROVE  StringsWhole(p \o q)
<1>. DEFINE r == p \o q
<1>1. SUFFICES ASSUME NEW first \in 1..Len(r), NEW last \in 1..Len(r), NEW k \in first..last,
                      r[first][1] = "out", r[last][1] = "out",
                      r[first][3] # 0, r[last][3] = r[first][3]
               PROVE  Held(r, k, "serialp")
  BY DEF StringsWhole
<1>2. Len(p) \in Nat /\ Len(q) \in Nat /\ Len(r) = Len(p) + Len(q)
  BY Joined
<1>3. CASE last \in 1..Len(p)
  <2>1. first \in 1..Len(p) /\ k \in 1..(Len(p) + 1)
    BY <1>2, <1>3
  <2>2. r[first] = p[first] /\ r[last] = p[last]
    BY <1>3, <2>1, Joined
  <2>3. Held(p, k, "serialp")
    BY <1>1, <1>3, <2>1, <2>2 DEF StringsWhole
  <2>. QED
    BY <2>1, <2>3, HeldFirst
<1>4. ASSUME NEW j \in 1..Len(q), last = Len(p) + j
      PROVE  Held(r, k, "serialp")
  <2>1. r[last] = q[j]
    BY <1>4, Joined
  <2>2. CASE first \in 1..Len(p)
    <3>1. r[first] = p[first]
      BY <2>2, Joined
    <3>2. p[first][3] \in S /\ q[j][3] \in U
      BY <1>1, <2>1, <2>2, <3>1 DEF Marks
    <3>. QED
      BY <1>1, <2>1, <3>1, <3>2
  <2>3. ASSUME NEW i1 \in 1..Len(q), first = Len(p) + i1
        PROVE  Held(r, k, "serialp")
    <3>1. r[first] = q[i1]
      BY <2>3, Joined
    <3>2. k - Len(p) \in i1..j /\ k - Len(p) \in 1..(Len(q) + 1) /\ Len(p) + (k - Len(p)) = k
      BY <1>2, <1>4, <2>3
    <3>3. Held(q, k - Len(p), "serialp")
      BY <1>1, <2>1, <3>1, <3>2 DEF StringsWhole
    <3>4. Held(r, Len(p) + (k - Len(p)), "serialp")
      BY <3>2, <3>3, HeldSecond
    <3>. QED
      BY <3>2, <3>4
  <2>. QED
    BY <2>2, <2>3, Joined
<1>. QED
  BY <1>3, <1>4, Joined

LEMMA PairedJoined ==
    ASSUME NEW p \in Programs, NEW q \in Programs, Paired(p), Paired(q)
    PROVE  Paired(p \o q)
<1>. DEFINE r == p \o q  n == Len(p)
<1>1. /\ n \in Nat /\ Len(q) \in Nat /\ Len(r) = n + Len(q)
      /\ \A k \in 1..n : r[k] = p[k]
      /\ \A k \in 1..Len(q) : r[n + k] = q[k]
  BY Joined
<1>2. ASSUME NEW k \in 1..n PROVE Follows(r, k)
  <2>1. r[k] = p[k] /\ k \in 1..(n + 1)
    BY <1>1
  <2>2. \A op : Pending(r, k, op) <=> Pending(p, k, op)
    BY <2>1, PendingFirst
  <2>3. Follows(p, k)
    BY DEF Paired
  <2>. HIDE DEF r, n
  <2>. QED
    BY <2>1, <2>2, <2>3 DEF Follows
<1>3. ASSUME NEW j \in 1..Len(q) PROVE Follows(r, n + j)
  <2>1. r[n + j] = q[j] /\ j \in 1..(Len(q) + 1)
    BY <1>1
  <2>2. \A op : Pending(q, j, op) => Pending(r, n + j, op)
    BY <2>1, PendingSecond
  <2>3. Follows(q, j)
    BY DEF Paired
  <2>. HIDE DEF r, n
  <2>. QED
    BY <2>1, <2>2, <2>3 DEF Follows
<1>4. ASSUME NEW op \in Owing PROVE ~Pending(r, Len(r) + 1, op)
  <2>1. ~Pending(p, n + 1, op) /\ ~Pending(q, Len(q) + 1, op)
    BY DEF Paired
  <2>2. Len(q) + 1 \in 1..(Len(q) + 1) /\ n + (Len(q) + 1) = Len(r) + 1
    BY <1>1
  <2>3. ~Pending(r, n + (Len(q) + 1), op)
    BY <2>1, <2>2, PendingSecond
  <2>. QED
    BY <2>2, <2>3
<1>5. \A k \in 1..Len(r) : k \in 1..n \/ \E j \in 1..Len(q) : k = n + j
  BY Joined
<1>. HIDE DEF r, n
<1>6. Paired(r)
  BY <1>2, <1>3, <1>4, <1>5 DEF Paired
<1>. QED
  BY <1>6 DEF r

(* A program inside a lock.                                                *)
LEMMA HoldingIs ==
    ASSUME NEW m \in Console!Locks, NEW body \in Programs
    PROVE  LET h == Console!Holding(m, body)
           IN  /\ h \in Programs /\ Len(body) \in Nat /\ Len(h) = Len(body) + 2
               /\ h[1] = <<"lock", m>> /\ h[Len(body) + 2] = <<"unlock", m>>
               /\ \A k \in 1..Len(body) : h[k + 1] = body[k]
               /\ \A k \in 1..Len(h) :
                     k = 1 \/ k = Len(body) + 2 \/ \E j \in 1..Len(body) : k = j + 1
               /\ \A l : \A k \in 1..(Len(body) + 1) : Held(body, k, l) => Held(h, k + 1, l)
<1>. DEFINE p == <<<<"lock", m>>>>  q == <<<<"unlock", m>>>>
            n == Len(body)  r == p \o body  h == Console!Holding(m, body)
<1>1. p \in Programs /\ Len(p) = 1 /\ p[1] = <<"lock", m>>
  <2>1. <<"lock", m>> \in ProgramSteps
    BY DEF ProgramSteps
  <2>. QED
    BY <2>1 DEF Programs
<1>2. q \in Programs /\ Len(q) = 1 /\ q[1] = <<"unlock", m>>
  <2>1. <<"unlock", m>> \in ProgramSteps
    BY DEF ProgramSteps
  <2>. QED
    BY <2>1 DEF Programs
<1>3. h = r \o q
  BY DEF Console!Holding
<1>. HIDE DEF p, q, h
<1>4. /\ n \in Nat /\ r \in Programs /\ Len(r) = n + 1 /\ r[1] = p[1]
      /\ \A k \in 1..n : r[1 + k] = body[k]
  <2>1. /\ n \in Nat /\ r \in Programs /\ Len(r) = Len(p) + n
        /\ \A k \in 1..Len(p) : r[k] = p[k]
        /\ \A k \in 1..n : r[Len(p) + k] = body[k]
    BY <1>1, Joined
  <2>. HIDE DEF n, r
  <2>. QED
    BY <1>1, <2>1
<1>5. \A l : \A k \in 1..(n + 1) : Held(body, k, l) => Held(r, 1 + k, l)
  BY <1>1, HeldSecond
<1>. HIDE DEF r
<1>6. /\ h \in Programs /\ Len(h) = (n + 1) + 1 /\ h[(n + 1) + 1] = q[1]
      /\ \A k \in 1..(n + 1) : h[k] = r[k]
  <2>1. /\ h \in Programs /\ Len(h) = Len(r) + Len(q)
        /\ \A k \in 1..Len(r) : h[k] = r[k]
        /\ \A k \in 1..Len(q) : h[Len(r) + k] = q[k]
    <3>1. r \in Programs /\ q \in Programs
      BY <1>2, <1>4
    <3>. HIDE DEF n
    <3>. QED
      BY <1>3, <3>1, Joined
  <2>. QED
    BY <1>2, <1>4, <2>1
<1>7. \A l : \A k \in 1..((n + 1) + 1) : Held(r, k, l) => Held(h, k, l)
  BY <1>2, <1>3, <1>4, HeldFirst
<1>. HIDE DEF n
<1>8. ASSUME NEW k \in 1..n PROVE h[k + 1] = body[k]
  <2>1. k + 1 \in 1..(n + 1) /\ k + 1 = 1 + k
    BY <1>4
  <2>. QED
    BY <1>4, <1>6, <2>1
<1>9. ASSUME NEW k \in 1..(n + 1), NEW l, Held(body, k, l) PROVE Held(h, k + 1, l)
  <2>1. k + 1 \in 1..((n + 1) + 1) /\ k + 1 = 1 + k
    BY <1>4
  <2>. QED
    BY <1>5, <1>7, <1>9, <2>1
<1>10. ASSUME NEW k \in 1..Len(h) PROVE k = 1 \/ k = n + 2 \/ \E j \in 1..n : k = j + 1
  <2>1. k = 1 \/ k = n + 2 \/ (k - 1 \in 1..n /\ k = (k - 1) + 1)
    BY <1>4, <1>6
  <2>. QED
    BY <2>1
<1>11. (n + 1) + 1 = n + 2 /\ 1 \in 1..(n + 1)
  BY <1>4
<1>. QED
  BY <1>1, <1>2, <1>4, <1>6, <1>8, <1>9, <1>10, <1>11 DEF n, h

LEMMA HoldingHolds ==
    ASSUME NEW m \in Console!Locks, NEW body \in Programs, Keeps(body, m)
    PROVE  \A k \in 2..(Len(body) + 2) : Held(Console!Holding(m, body), k, m)
<1>. DEFINE n == Len(body)  h == Console!Holding(m, body)
<1>1. /\ n \in Nat /\ h[1] = <<"lock", m>>
      /\ \A k \in 1..n : h[k + 1] = body[k]
  BY HoldingIs
<1>2. \A k \in 1..n : body[k] # <<"unlock", m>>
  BY DEF Keeps
<1>. HIDE DEF n, h
<1>3. ASSUME NEW b \in 1..(n + 1) PROVE h[b] # <<"unlock", m>>
  <2>1. b = 1 \/ (b - 1 \in 1..n /\ b = (b - 1) + 1)
    BY <1>1
  <2>. QED
    BY <1>1, <1>2, <2>1
<1>4. ASSUME NEW k \in 2..(n + 2) PROVE Held(h, k, m)
  <2>1. 1 \in 1..(k - 1) /\ \A b \in 1..(k - 1) : b \in 1..(n + 1)
    BY <1>1
  <2>. QED
    BY <1>1, <1>3, <2>1 DEF Held
<1>. QED
  BY <1>4 DEF n, h

LEMMA HoldingLegal ==
    ASSUME NEW m \in Console!Locks, NEW body, Legal(body), Keeps(body, m)
    PROVE  Legal(Console!Holding(m, body))
<1>. DEFINE n == Len(body)  h == Console!Holding(m, body)
<1>9. body \in Programs
  BY DEF Legal
<1>1. /\ h \in Programs /\ n \in Nat
      /\ h[1] = <<"lock", m>> /\ h[n + 2] = <<"unlock", m>>
      /\ \A k \in 1..n : h[k + 1] = body[k]
      /\ \A k \in 1..Len(h) : k = 1 \/ k = n + 2 \/ \E j \in 1..n : k = j + 1
      /\ \A l : \A k \in 1..(n + 1) : Held(body, k, l) => Held(h, k + 1, l)
  BY <1>9, HoldingIs
<1>2. n + 2 \in 2..(n + 2) /\ \A k \in 2..(n + 2) : Held(h, k, m)
  BY <1>9, <1>1, HoldingHolds
<1>3. \A k \in 1..n : \A l \in Console!Locks : body[k] = <<"unlock", l>> => Held(body, k, l)
  BY DEF Legal
<1>. HIDE DEF n, h
<1>4. ASSUME NEW k \in 1..Len(h), NEW l \in Console!Locks, h[k] = <<"unlock", l>>
      PROVE  Held(h, k, l)
  <2>1. CASE k = 1
    BY <1>1, <1>4, <2>1
  <2>2. CASE k = n + 2
    BY <1>1, <1>2, <1>4, <2>2
  <2>3. ASSUME NEW j \in 1..n, k = j + 1 PROVE Held(h, k, l)
    <3>1. j \in 1..(n + 1)
      BY <1>1
    <3>. QED
      BY <1>1, <1>3, <1>4, <2>3, <3>1
  <2>. QED
    BY <1>1, <2>1, <2>2, <2>3
<1>. QED
  BY <1>1, <1>4 DEF Legal, h

LEMMA HoldingKeeps ==
    ASSUME NEW m \in Console!Locks, NEW body \in Programs
    PROVE  LET h == Console!Holding(m, body)
           IN  /\ \A l : l # m /\ Keeps(body, l) => Keeps(h, l)
               /\ \A F, S : Marks(body, F, S) => Marks(h, F, S)
               /\ Blind(body) => Blind(h)
<1>. DEFINE n == Len(body)  h == Console!Holding(m, body)
<1>1. ASSUME NEW k \in 1..Len(h)
      PROVE  h[k] = <<"lock", m>> \/ h[k] = <<"unlock", m>> \/ \E j \in 1..n : h[k] = body[j]
  <2>1. /\ h[1] = <<"lock", m>> /\ h[n + 2] = <<"unlock", m>>
        /\ \A j \in 1..n : h[j + 1] = body[j]
        /\ k = 1 \/ k = n + 2 \/ \E j \in 1..n : k = j + 1
    BY HoldingIs
  <2>. HIDE DEF n, h
  <2>. QED
    BY <2>1
<1>. HIDE DEF h
<1>2. \A l : l # m /\ Keeps(body, l) => Keeps(h, l)
  BY <1>1 DEF Keeps
<1>3. \A F, S : Marks(body, F, S) => Marks(h, F, S)
  BY <1>1 DEF Marks
<1>4. Blind(body) => Blind(h)
  BY <1>1 DEF Blind, Screens
<1>. QED
  BY <1>2, <1>3, <1>4 DEF h

(* What holds of programs that have none of it.                            *)
LEMMA WithoutAny ==
    ASSUME NEW p \in Programs
    PROVE  /\ \A S : Marks(p, {FALSE}, S) => FormatWhole(p)
           /\ \A F : Marks(p, F, {0}) => StringsWhole(p)
           /\ Blind(p) => Paired(p)
<1>1. ASSUME NEW S, Marks(p, {FALSE}, S) PROVE FormatWhole(p)
  BY <1>1 DEF Marks, FormatWhole
<1>2. ASSUME NEW F, Marks(p, F, {0}) PROVE StringsWhole(p)
  BY <1>2 DEF Marks, StringsWhole
<1>3. ASSUME Blind(p) PROVE Paired(p)
  <2>1. Len(p) \in Nat
    BY LenProperties DEF Programs
  <2>2. ASSUME NEW op \in Owing, Pending(p, Len(p) + 1, op) PROVE FALSE
    <3>1. PICK a \in 1..((Len(p) + 1) - 1) : p[a][1] = op
      BY <2>2 DEF Pending
    <3>2. a \in 1..Len(p) /\ op \in Screens
      BY <2>1 DEF Owing, Screens
    <3>. QED
      BY <1>3, <3>1, <3>2 DEF Blind
  <2>3. {"read_x", "read_y", "cursor"} \subseteq Screens
    BY DEF Screens
  <2>. QED
    BY <1>3, <2>2, <2>3 DEF Paired, Follows, Blind
<1>. QED
  BY <1>1, <1>2, <1>3

LEMMA HoldingWhole ==
    ASSUME NEW m \in Console!Locks, NEW body \in Programs
    PROVE  LET h == Console!Holding(m, body)
           IN  /\ Paired(body) => Paired(h)
               /\ StringsWhole(body) => StringsWhole(h)
               /\ m = "serialp" /\ Keeps(body, m) => StringsWhole(h)
               /\ m = "serialf" /\ Keeps(body, m) => FormatWhole(h)
               /\ Keeps(body, m) => ScreenWhole(h, m)
               /\ h # <<>>
<1>. DEFINE n == Len(body)  h == Console!Holding(m, body)
<1>1. /\ h \in Programs /\ n \in Nat /\ Len(h) = n + 2
      /\ h[1] = <<"lock", m>> /\ h[n + 2] = <<"unlock", m>>
      /\ \A k \in 1..n : h[k + 1] = body[k]
      /\ \A l : \A k \in 1..(n + 1) : Held(body, k, l) => Held(h, k + 1, l)
  BY HoldingIs
<1>2. Keeps(body, m) => \A k \in 2..(n + 2) : Held(h, k, m)
  BY HoldingHolds
<1>10. h # <<>>
  <2>. HIDE DEF h, n
  <2>. QED
    BY <1>1
<1>3. Paired(body) => Paired(h)
  <2>. DEFINE p == <<<<"lock", m>>>>  q == <<<<"unlock", m>>>>
  <2>1. p \in Programs /\ Blind(p)
    <3>1. <<"lock", m>> \in ProgramSteps
      BY DEF ProgramSteps
    <3>. QED
      BY <3>1 DEF Programs, Blind, Screens
  <2>2. q \in Programs /\ Blind(q)
    <3>1. <<"unlock", m>> \in ProgramSteps
      BY DEF ProgramSteps
    <3>. QED
      BY <3>1 DEF Programs, Blind, Screens
  <2>3. h = (p \o body) \o q
    BY DEF Console!Holding
  <2>. HIDE DEF p, q, h
  <2>4. Paired(p) /\ Paired(q) /\ p \o body \in Programs
    BY <2>1, <2>2, WithoutAny, Joined
  <2>. QED
    BY <2>1, <2>2, <2>3, <2>4, PairedJoined
<1>. HIDE DEF n, h
<1>4. ASSUME NEW k \in 1..Len(h), h[k][1] \notin {"lock", "unlock"}
      PROVE  k - 1 \in 1..n /\ h[k] = body[k - 1] /\ k \in 2..(n + 1)
  <2>1. k # 1 /\ k # n + 2
    BY <1>1, <1>4
  <2>2. k - 1 \in 1..n /\ (k - 1) + 1 = k /\ k \in 2..(n + 1)
    BY <1>1, <2>1
  <2>3. h[(k - 1) + 1] = body[k - 1]
    BY <1>1, <2>2
  <2>. QED
    BY <2>2, <2>3
<1>5. ASSUME NEW first \in 1..Len(h), NEW last \in 1..Len(h), NEW k \in first..last,
             h[first][1] = "out", h[last][1] = "out"
      PROVE  /\ k - 1 \in (first - 1)..(last - 1) /\ k \in 2..(n + 2) /\ k - 1 \in 1..(n + 1)
             /\ first - 1 \in 1..n /\ last - 1 \in 1..n /\ (k - 1) + 1 = k
             /\ h[first] = body[first - 1] /\ h[last] = body[last - 1]
  <2>1. /\ first - 1 \in 1..n /\ h[first] = body[first - 1] /\ first \in 2..(n + 1)
        /\ last - 1 \in 1..n /\ h[last] = body[last - 1] /\ last \in 2..(n + 1)
    BY <1>4, <1>5
  <2>. QED
    BY <1>1, <2>1
<1>6. ASSUME StringsWhole(body) PROVE StringsWhole(h)
  <2>1. SUFFICES ASSUME NEW first \in 1..Len(h), NEW last \in 1..Len(h), NEW k \in first..last,
                        h[first][1] = "out", h[last][1] = "out",
                        h[first][3] # 0, h[last][3] = h[first][3]
                 PROVE  Held(h, k, "serialp")
    BY DEF StringsWhole
  <2>4. /\ first - 1 \in 1..Len(body) /\ last - 1 \in 1..Len(body)
        /\ k - 1 \in (first - 1)..(last - 1)
        /\ h[first] = body[first - 1] /\ h[last] = body[last - 1]
    BY <1>5, <2>1 DEF n
  <2>2. Held(body, k - 1, "serialp")
    BY <1>6, <2>1, <2>4 DEF StringsWhole
  <2>3. Held(h, (k - 1) + 1, "serialp")
    BY <1>1, <1>5, <2>1, <2>2
  <2>. QED
    BY <1>5, <2>1, <2>3
<1>7. ASSUME m = "serialp", Keeps(body, m) PROVE StringsWhole(h)
  BY <1>2, <1>5, <1>7 DEF StringsWhole
<1>8. ASSUME m = "serialf", Keeps(body, m) PROVE FormatWhole(h)
  BY <1>2, <1>5, <1>8 DEF FormatWhole
<1>9. ASSUME Keeps(body, m) PROVE ScreenWhole(h, m)
  <2>1. ASSUME NEW k \in 1..Len(h),
               h[k][1] \in Screens \/ \E op \in Owing : Pending(h, k, op)
        PROVE  k \in 2..(n + 2)
    <3>1. CASE h[k][1] \in Screens
      BY <1>1, <1>4, <3>1 DEF Screens
    <3>2. ASSUME NEW op, Pending(h, k, op) PROVE k \in 2..(n + 2)
      BY <1>1, <3>2 DEF Pending
    <3>. QED
      BY <2>1, <3>1, <3>2
  <2>. QED
    BY <1>2, <1>9, <2>1 DEF ScreenWhole
<1>. QED
  BY <1>3, <1>6, <1>7, <1>8, <1>9, <1>10 DEF h

-----------------------------------------------------------------------------
(* The functions of the console, from the inside out.                      *)

LEMMA Twice == ASSUME NEW p \in Programs PROVE Console!Times(2, p) = p \o p
<1>. DEFINE seqs == [k \in 1..2 |-> p]
            T == [n \in 0..2 |-> IF n = 0 THEN {<<>>} ELSE IF n = 1 THEN {p} ELSE {p \o p}]
<1>1. seqs \in Seq(Seq(ProgramSteps)) /\ Len(seqs) = 2 /\ \A n \in 1..2 : seqs[n] = p
  BY DEF Programs
<1>2. <<>> \o p = p
  BY DEF Programs
<1>3. <<>> \in T[0] /\ \A n \in 1..2 : \A q \in T[n - 1] : q \o p \in T[n]
  <2>1. T[0] = {<<>>} /\ T[1] = {p} /\ T[2] = {p \o p}
    OBVIOUS
  <2>. HIDE DEF T
  <2>2. \A n \in 1..2 : n = 1 \/ n = 2
    OBVIOUS
  <2>3. ASSUME NEW q \in T[1 - 1] PROVE q \o p \in T[1]
    <3>1. q = <<>>
      BY <2>1
    <3>. QED
      BY <1>2, <2>1, <3>1
  <2>4. \A q \in T[2 - 1] : q \o p \in T[2]
    BY <2>1
  <2>. QED
    BY <2>1, <2>2, <2>3, <2>4
<1>4. Console!FlattenSeq(seqs) \in T[Len(seqs)]
  <2>. HIDE DEF seqs, T
  <2>. QED
    BY <1>1, <1>3, FlattenInduction
<1>5. T[2] = {p \o p}
  OBVIOUS
<1>6. Console!Times(2, p) = Console!FlattenSeq(seqs)
  BY DEF Console!Times
<1>. QED
  BY <1>1, <1>4, <1>5, <1>6

(* One step that takes no lock and gives none back.                        *)
LEMMA OneStep ==
    ASSUME NEW s \in ProgramSteps, s[1] \notin {"lock", "unlock"}
    PROVE  /\ Legal(<<s>>) /\ \A l : Keeps(<<s>>, l)
           /\ s[1] = "out" => Marks(<<s>>, {s[2]}, {s[3]}) /\ Blind(<<s>>)
           /\ s[1] # "out" => \A F, S : Marks(<<s>>, F, S)
<1>1. <<s>> \in Programs /\ Len(<<s>>) = 1 /\ \A k \in 1..1 : <<s>>[k] = s
  BY DEF Programs
<1>2. \A l : s # <<"unlock", l>>
  OBVIOUS
<1>. QED
  BY <1>1, <1>2 DEF Legal, Keeps, Marks, Blind, Screens

LEMMA PrintcIs ==
    ASSUME NEW f \in BOOLEAN, NEW n \in Nat
    PROVE  LET p == Console!serial_printc(f, n)
           IN  /\ Legal(p) /\ \A l : l # "serialc" => Keeps(p, l)
               /\ Marks(p, {f}, {n}) /\ Blind(p)
<1>. DEFINE s == <<"out", f, n>>
<1>1. s \in ProgramSteps /\ s[1] = "out" /\ s[2] = f /\ s[3] = n
  BY DEF ProgramSteps
<1>2. /\ Legal(<<s>>) /\ \A l : Keeps(<<s>>, l)
      /\ Marks(<<s>>, {f}, {n}) /\ Blind(<<s>>)
  <2>. HIDE DEF s
  <2>. QED
    BY <1>1, OneStep
<1>3. "serialc" \in Console!Locks /\ Console!serial_printc(f, n) = Console!Holding("serialc", <<s>>)
  BY DEF Console!Locks, Console!serial_printc
<1>. HIDE DEF s
<1>4. <<s>> \in Programs
  BY <1>2 DEF Legal
<1>. QED
  BY <1>2, <1>3, <1>4, HoldingLegal, HoldingKeeps

LEMMA SerialPrintIs ==
    ASSUME NEW f \in BOOLEAN, NEW n \in Nat
    PROVE  LET p == Console!serial_print(f, n)
           IN  /\ Legal(p) /\ \A l : l \notin {"serialc", "serialp"} => Keeps(p, l)
               /\ Marks(p, {f}, {n}) /\ Blind(p) /\ StringsWhole(p) /\ p # <<>>
<1>. DEFINE c == Console!serial_printc(f, n)  p == Console!serial_print(f, n)
<1>1. /\ Legal(c) /\ \A l : l # "serialc" => Keeps(c, l)
      /\ Marks(c, {f}, {n}) /\ Blind(c)
  BY PrintcIs
<1>2. "serialp" \in Console!Locks /\ p = Console!Holding("serialp", Console!Times(2, c))
  BY DEF Console!Locks, Console!serial_print
<1>. HIDE DEF c, p
<1>3. c \in Programs
  BY <1>1 DEF Legal
<1>4. p = Console!Holding("serialp", c \o c)
  BY <1>2, <1>3, Twice
<1>5. /\ Legal(c \o c) /\ \A l : l # "serialc" => Keeps(c \o c, l)
      /\ Marks(c \o c, {f}, {n}) /\ Blind(c \o c)
  BY <1>1, <1>3, LegalJoined, KeptJoined
<1>6. c \o c \in Programs
  BY <1>5 DEF Legal
<1>7. Legal(p) /\ StringsWhole(p) /\ p # <<>>
  BY <1>2, <1>4, <1>5, <1>6, HoldingLegal, HoldingWhole
<1>8. /\ \A l : l \notin {"serialc", "serialp"} => Keeps(p, l)
      /\ Marks(p, {f}, {n}) /\ Blind(p)
  BY <1>2, <1>4, <1>5, <1>6, HoldingKeeps
<1>. QED
  BY <1>7, <1>8 DEF p

LEMMA MarksMore ==
    ASSUME NEW p, NEW F, NEW S, NEW G, NEW U, Marks(p, F, S), F \subseteq G, S \subseteq U
    PROVE  Marks(p, G, U)
  BY DEF Marks

LEMMA NothingIs ==
    /\ <<>> \in Programs /\ Legal(<<>>) /\ Blind(<<>>) /\ StringsWhole(<<>>)
    /\ \A l : Keeps(<<>>, l)
    /\ \A F, S : Marks(<<>>, F, S)
<1>1. <<>> \in Programs /\ \A k \in 1..Len(<<>>) : FALSE
  BY DEF Programs
<1>. QED
  BY <1>1 DEF Legal, Keeps, Blind, StringsWhole, Marks

Tokens == {"c", "nl", "s"}

(* The strings of the first n tokens.                                      *)
StringsOf(text, n) == {0} \cup {k \in 1..n : text[k] = "s"}

LEMMA SerialPrintfIs ==
    ASSUME NEW text \in Seq(Tokens)
    PROVE  LET p == Console!serial_printf(text)
           IN  /\ Legal(p) /\ FormatWhole(p) /\ StringsWhole(p) /\ Blind(p) /\ p # <<>>
               /\ Marks(p, {TRUE}, StringsOf(text, Len(text)))
<1>. DEFINE Token(k) ==
              IF text[k] = "s" THEN Console!serial_print(TRUE, k)
                               ELSE Console!serial_printc(TRUE, 0)
            N == Len(text)
            Body(n) == {p \in Programs : /\ Legal(p) /\ Keeps(p, "serialf") /\ Blind(p)
                                         /\ StringsWhole(p)
                                         /\ Marks(p, {TRUE}, StringsOf(text, n))}
            T == [n \in 0..N |-> Body(n)]
            seqs == [k \in 1..N |-> Token(k)]
<1>1. N \in Nat /\ DOMAIN text = 1..N
  BY LenProperties
<1>2. ASSUME NEW k \in 1..N
      PROVE  /\ Legal(Token(k)) /\ Keeps(Token(k), "serialf") /\ Blind(Token(k))
             /\ StringsWhole(Token(k))
             /\ Marks(Token(k), {TRUE}, IF text[k] = "s" THEN {k} ELSE {0})
  <2>. DEFINE c == Console!serial_printc(TRUE, 0)
  <2>1. CASE text[k] = "s"
    <3>1. Token(k) = Console!serial_print(TRUE, k) /\ k \in Nat /\ TRUE \in BOOLEAN
      BY <1>1, <2>1
    <3>. DEFINE p == Console!serial_print(TRUE, k)
    <3>2. /\ Legal(p) /\ \A l : l \notin {"serialc", "serialp"} => Keeps(p, l)
          /\ Marks(p, {TRUE}, {k}) /\ Blind(p) /\ StringsWhole(p)
      BY <3>1, SerialPrintIs
    <3>. HIDE DEF Token, p
    <3>3. Keeps(p, "serialf")
      BY <3>2
    <3>4. Token(k) = p
      BY <3>1 DEF p
    <3>. QED
      BY <2>1, <3>2, <3>3, <3>4
  <2>2. /\ Legal(c) /\ Keeps(c, "serialf") /\ Marks(c, {TRUE}, {0}) /\ Blind(c)
    <3>1. TRUE \in BOOLEAN /\ 0 \in Nat
      OBVIOUS
    <3>2. /\ Legal(c) /\ \A l : l # "serialc" => Keeps(c, l)
          /\ Marks(c, {TRUE}, {0}) /\ Blind(c)
      BY <3>1, PrintcIs
    <3>. HIDE DEF c
    <3>. QED
      BY <3>2
  <2>3. c \in Programs
    BY <2>2 DEF Legal
  <2>6. CASE text[k] # "s"
    <3>1. Token(k) = c
      BY <2>6
    <3>. HIDE DEF Token, c
    <3>2. StringsWhole(c)
      BY <2>2, <2>3, WithoutAny
    <3>. QED
      BY <2>2, <2>6, <3>1, <3>2
  <2>. HIDE DEF Token, c
  <2>. QED
    BY <2>1, <2>6
<1>3. Console!serial_printf(text) = Console!Holding("serialf", Console!FlattenSeq(seqs))
  BY <1>1 DEF Console!serial_printf, Console!ForEach
<1>. HIDE DEF Token
<1>4. ASSUME NEW k \in 1..N PROVE Token(k) \in Programs
  BY <1>2 DEF Legal
<1>5. seqs \in Seq(Seq(ProgramSteps)) /\ Len(seqs) = N /\ \A k \in 1..N : seqs[k] = Token(k)
  BY <1>1, <1>4 DEF Programs
<1>6. <<>> \in Body(0)
  BY NothingIs
<1>7. ASSUME NEW n \in 1..N, NEW p \in Body(n - 1) PROVE p \o Token(n) \in Body(n)
  <2>1. p \in Programs /\ Token(n) \in Programs /\ p \o Token(n) \in Programs
    BY <1>4, Joined
  <2>2. Legal(p \o Token(n)) /\ Keeps(p \o Token(n), "serialf") /\ Blind(p \o Token(n))
    BY <1>2, <2>1, LegalJoined, KeptJoined
  <2>. DEFINE S == StringsOf(text, n - 1)
              U == IF text[n] = "s" THEN {n} ELSE {0}
              W == StringsOf(text, n)
  <2>3. S \cap U \subseteq {0} /\ S \subseteq W /\ U \subseteq W
    BY <1>1 DEF StringsOf
  <2>4. Marks(p, {TRUE}, S) /\ Marks(Token(n), {TRUE}, U) /\ StringsWhole(p) /\ StringsWhole(Token(n))
    BY <1>2
  <2>. HIDE DEF S, U, W
  <2>5. StringsWhole(p \o Token(n))
    BY <2>1, <2>3, <2>4, StringsJoined
  <2>6. Marks(p, {TRUE}, W) /\ Marks(Token(n), {TRUE}, W)
    BY <2>3, <2>4, MarksMore
  <2>7. Marks(p \o Token(n), {TRUE}, W)
    BY <2>1, <2>6, KeptJoined
  <2>. QED
    BY <2>1, <2>2, <2>5, <2>7 DEF W
<1>. HIDE DEF Body
<1>8. <<>> \in T[0] /\ \A n \in 1..N : \A p \in T[n - 1] : p \o seqs[n] \in T[n]
  <2>1. \A n \in 0..N : T[n] = Body(n)
    OBVIOUS
  <2>2. 0 \in 0..N /\ \A n \in 1..N : n \in 0..N /\ n - 1 \in 0..N
    BY <1>1
  <2>. HIDE DEF T, seqs
  <2>. QED
    BY <1>5, <1>6, <1>7, <2>1, <2>2
<1>9. Console!FlattenSeq(seqs) \in T[Len(seqs)]
  <2>. HIDE DEF T, seqs, N
  <2>. QED
    BY <1>5, <1>8, FlattenInduction
<1>10. T[Len(seqs)] = Body(N)
  BY <1>1, <1>5
<1>. DEFINE body == Console!FlattenSeq(seqs)
<1>11. /\ Legal(body) /\ Keeps(body, "serialf") /\ Blind(body) /\ StringsWhole(body)
       /\ Marks(body, {TRUE}, StringsOf(text, N)) /\ body \in Programs
  BY <1>9, <1>10 DEF Body
<1>12. "serialf" \in Console!Locks
  BY DEF Console!Locks
<1>. HIDE DEF body, N
<1>. QED
  BY <1>3, <1>11, <1>12, HoldingLegal, HoldingKeeps, HoldingWhole DEF body, N

LEMMA ExceptionIs ==
    Console!aos_system_exception # <<>>
    /\ Legal(Console!aos_system_exception) /\ FormatWhole(Console!aos_system_exception)
    /\ StringsWhole(Console!aos_system_exception) /\ Blind(Console!aos_system_exception)
<1>. DEFINE p == Console!serial_print(FALSE, 1)
            text == <<"c", "s">>
            q == Console!serial_printf(text)
            S == StringsOf(text, Len(text))
<1>1. /\ Legal(p) /\ \A l : l \notin {"serialc", "serialp"} => Keeps(p, l)
      /\ Marks(p, {FALSE}, {1}) /\ Blind(p) /\ StringsWhole(p) /\ p # <<>>
  <2>1. FALSE \in BOOLEAN /\ 1 \in Nat
    OBVIOUS
  <2>. QED
    BY <2>1, SerialPrintIs
<1>2. /\ Legal(q) /\ FormatWhole(q) /\ StringsWhole(q) /\ Blind(q) /\ Marks(q, {TRUE}, S)
  <2>1. text \in Seq(Tokens)
    BY DEF Tokens
  <2>. HIDE DEF text
  <2>. QED
    BY <2>1, SerialPrintfIs
<1>3. {1} \cap S \subseteq {0}
  BY DEF StringsOf
<1>4. Console!aos_system_exception = p \o q
  BY DEF Console!aos_system_exception
<1>. HIDE DEF p, q, S
<1>5. p \in Programs /\ q \in Programs
  BY <1>1, <1>2 DEF Legal
<1>6. Legal(p \o q) /\ Blind(p \o q) /\ p \o q # <<>>
  <2>1. Legal(p \o q) /\ Blind(p \o q)
    BY <1>1, <1>2, <1>5, LegalJoined, KeptJoined
  <2>2. Len(p) \in Nat /\ Len(p) # 0 /\ Len(q) \in Nat /\ Len(p \o q) = Len(p) + Len(q)
    BY <1>1, <1>5, Joined DEF Programs
  <2>. QED
    BY <2>1, <2>2
<1>7. StringsWhole(p \o q)
  BY <1>1, <1>2, <1>3, <1>5, StringsJoined
<1>8. FormatWhole(p \o q)
  <2>. DEFINE r == p \o q  n == Len(p)
  <2>1. /\ n \in Nat /\ Len(q) \in Nat /\ Len(r) = n + Len(q)
        /\ \A k \in 1..n : r[k] = p[k]
        /\ \A k \in 1..Len(q) : r[n + k] = q[k]
        /\ \A k \in 1..Len(r) : k \in 1..n \/ \E j \in 1..Len(q) : k = n + j
    BY <1>5, Joined
  <2>2. \A k \in 1..n : ~(p[k][1] = "out" /\ p[k][2] = TRUE)
    BY <1>1 DEF Marks
  <2>3. \A k \in 1..(Len(q) + 1) : Held(q, k, "serialf") => Held(r, n + k, "serialf")
    BY <1>5, HeldSecond
  <2>. HIDE DEF r, n
  <2>4. SUFFICES ASSUME NEW first \in 1..Len(r), NEW last \in 1..Len(r), NEW k \in first..last,
                        r[first][1] = "out", r[first][2] = TRUE,
                        r[last][1] = "out", r[last][2] = TRUE
                 PROVE  Held(r, k, "serialf")
    BY DEF FormatWhole, r
  <2>. DEFINE InFormat(s) == s[1] = "out" /\ s[2] = TRUE
  <2>9. ASSUME NEW k0 \in 1..Len(r), InFormat(r[k0])
        PROVE  \E j \in 1..Len(q) : k0 = n + j /\ r[k0] = q[j]
    <3>1. k0 \notin 1..n
      BY <2>1, <2>2, <2>9
    <3>2. PICK j \in 1..Len(q) : k0 = n + j
      BY <2>1, <3>1
    <3>. QED
      BY <2>1, <3>2
  <2>5. PICK a \in 1..Len(q) : first = n + a /\ r[first] = q[a]
    BY <2>4, <2>9
  <2>6. PICK b \in 1..Len(q) : last = n + b /\ r[last] = q[b]
    BY <2>4, <2>9
  <2>7. k - n \in a..b /\ k - n \in 1..(Len(q) + 1) /\ n + (k - n) = k
    BY <2>1, <2>5, <2>6
  <2>8. Held(q, k - n, "serialf")
    BY <1>2, <2>4, <2>5, <2>6, <2>7 DEF FormatWhole
  <2>. QED
    BY <2>3, <2>7, <2>8
<1>. QED
  BY <1>4, <1>6, <1>7, <1>8

(* A cell or a new row, the other coordinate, the cursor.                  *)
LEMMA VmemPrintcIs ==
    ASSUME NEW newline \in BOOLEAN
    PROVE  LET p == Console!vmem_printc(newline)
           IN  /\ Legal(p) /\ \A l : l \notin {"vmemc", "vmem_cur", "serialc"} => Keeps(p, l)
               /\ Marks(p, {FALSE}, {0}) /\ Paired(p) /\ p # <<>>
<1>. DEFINE s == <<IF newline THEN "newline" ELSE "cell">>
            q == <<IF newline THEN "read_x" ELSE "read_y">>
            t == <<"cursor">>
            u == Console!Holding("vmemc", <<s>>)
            v == Console!Holding("vmem_cur", <<t>>)
            w == Console!serial_printc(FALSE, 0)
            p == Console!vmem_printc(newline)
<1>1. /\ s \in ProgramSteps /\ s[1] \notin {"lock", "unlock", "out"}
      /\ q \in ProgramSteps /\ q[1] \notin {"lock", "unlock", "out"}
      /\ t \in ProgramSteps /\ t[1] \notin {"lock", "unlock", "out"}
  BY DEF ProgramSteps, Screens
<1>2. p = ((u \o <<q>>) \o v) \o w
  BY DEF Console!vmem_printc
<1>3. {"vmemc", "vmem_cur"} \subseteq Console!Locks
  BY DEF Console!Locks
<1>4. /\ Legal(w) /\ \A l : l # "serialc" => Keeps(w, l)
      /\ Marks(w, {FALSE}, {0}) /\ Blind(w)
  <2>1. FALSE \in BOOLEAN /\ 0 \in Nat
    OBVIOUS
  <2>. QED
    BY <2>1, PrintcIs
<1>5. /\ Legal(<<s>>) /\ \A l : Keeps(<<s>>, l)
      /\ Marks(<<s>>, {FALSE}, {0})
      /\ Legal(<<q>>) /\ \A l : Keeps(<<q>>, l)
      /\ Marks(<<q>>, {FALSE}, {0})
      /\ Legal(<<t>>) /\ \A l : Keeps(<<t>>, l)
      /\ Marks(<<t>>, {FALSE}, {0})
  <2>. HIDE DEF s, q, t
  <2>. QED
    BY <1>1, OneStep
<1>. HIDE DEF w, p
<1>6. <<s>> \in Programs /\ <<q>> \in Programs /\ <<t>> \in Programs /\ w \in Programs
  BY <1>4, <1>5 DEF Legal
<1>7. /\ Legal(u) /\ \A l : l # "vmemc" => Keeps(u, l)
      /\ Marks(u, {FALSE}, {0})
  <2>. HIDE DEF s
  <2>. QED
    BY <1>3, <1>5, <1>6, HoldingLegal, HoldingKeeps
<1>8. /\ Legal(v) /\ \A l : l # "vmem_cur" => Keeps(v, l)
      /\ Marks(v, {FALSE}, {0})
  <2>. HIDE DEF t
  <2>. QED
    BY <1>3, <1>5, <1>6, HoldingLegal, HoldingKeeps
<1>9. /\ u \in Programs /\ Len(u) = 3 /\ u[2] = s
      /\ u[1] = <<"lock", "vmemc">> /\ u[3] = <<"unlock", "vmemc">>
  <2>1. Len(<<s>>) = 1 /\ <<s>>[1] = s
    OBVIOUS
  <2>2. /\ u \in Programs /\ Len(u) = Len(<<s>>) + 2
        /\ u[1] = <<"lock", "vmemc">> /\ u[Len(<<s>>) + 2] = <<"unlock", "vmemc">>
        /\ \A k \in 1..Len(<<s>>) : u[k + 1] = <<s>>[k]
    BY <1>3, <1>6, HoldingIs
  <2>. HIDE DEF s, u
  <2>. QED
    BY <2>1, <2>2
<1>10. /\ v \in Programs /\ Len(v) = 3 /\ v[2] = t
       /\ v[1] = <<"lock", "vmem_cur">> /\ v[3] = <<"unlock", "vmem_cur">>
  <2>1. Len(<<t>>) = 1 /\ <<t>>[1] = t
    OBVIOUS
  <2>2. /\ v \in Programs /\ Len(v) = Len(<<t>>) + 2
        /\ v[1] = <<"lock", "vmem_cur">> /\ v[Len(<<t>>) + 2] = <<"unlock", "vmem_cur">>
        /\ \A k \in 1..Len(<<t>>) : v[k + 1] = <<t>>[k]
    BY <1>3, <1>6, HoldingIs
  <2>. HIDE DEF t, v
  <2>. QED
    BY <2>1, <2>2
<1>. DEFINE uq == u \o <<q>>  r == uq \o v
<1>11. /\ uq \in Programs /\ Len(uq) = 4 /\ uq[1] = u[1] /\ uq[2] = s /\ uq[3] = u[3] /\ uq[4] = q
  <2>1. Len(<<q>>) = 1 /\ <<q>>[1] = q
    OBVIOUS
  <2>. HIDE DEF s, q, u
  <2>2. /\ uq \in Programs /\ Len(uq) = Len(u) + Len(<<q>>)
        /\ \A k \in 1..Len(u) : uq[k] = u[k]
        /\ \A k \in 1..Len(<<q>>) : uq[Len(u) + k] = <<q>>[k]
    BY <1>6, <1>9, Joined
  <2>. HIDE DEF uq
  <2>. QED
    BY <1>9, <2>1, <2>2
<1>12. /\ r \in Programs /\ Len(r) = 7
       /\ r[1] = <<"lock", "vmemc">> /\ r[2] = s /\ r[3] = <<"unlock", "vmemc">> /\ r[4] = q
       /\ r[5] = <<"lock", "vmem_cur">> /\ r[6] = t /\ r[7] = <<"unlock", "vmem_cur">>
  <2>. HIDE DEF s, q, t, u, v, uq
  <2>1. /\ r \in Programs /\ Len(r) = Len(uq) + Len(v)
        /\ \A k \in 1..Len(uq) : r[k] = uq[k]
        /\ \A k \in 1..Len(v) : r[Len(uq) + k] = v[k]
    BY <1>10, <1>11, Joined
  <2>. HIDE DEF r
  <2>2. /\ Len(r) = 7 /\ (\A k \in 1..4 : r[k] = uq[k]) /\ (\A k \in 1..3 : r[4 + k] = v[k])
    BY <1>10, <1>11, <2>1
  <2>3. r[4 + 1] = v[1] /\ r[4 + 2] = v[2] /\ r[4 + 3] = v[3]
    BY <2>2
  <2>. QED
    BY <1>9, <1>10, <1>11, <2>1, <2>2, <2>3
<1>13. Paired(r)
  <2>. HIDE DEF r
  <2>1. /\ s[1] = (IF newline THEN "newline" ELSE "cell")
        /\ q[1] = (IF newline THEN "read_x" ELSE "read_y")
        /\ t[1] = "cursor"
    OBVIOUS
  <2>. HIDE DEF s, q, t
  <2>2. /\ r[2][1] = (IF newline THEN "newline" ELSE "cell")
        /\ r[4][1] = (IF newline THEN "read_x" ELSE "read_y")
        /\ r[6][1] = "cursor"
        /\ \A k \in {1, 3, 5, 7} : r[k][1] \notin Screens
    BY <1>12, <2>1 DEF Screens
  <2>3. \A op : r[2][1] = op => Pending(r, 4, op)
    BY <2>2 DEF Pending
  <2>4. \A op : r[4][1] = op => Pending(r, 6, op)
    BY <2>2 DEF Pending
  <2>5. ASSUME NEW op \in Owing, Pending(r, 8, op) PROVE FALSE
    <3>1. PICK a \in 1..7 : r[a][1] = op /\ \A b \in (a + 1)..7 : r[b][1] \notin Screens
      BY <2>5 DEF Pending
    <3>2. r[6][1] \in Screens /\ op # "cursor"
      BY <2>2 DEF Screens, Owing
    <3>3. ~(6 \in (a + 1)..7) /\ a # 6 /\ a # 7
      BY <2>2, <3>1, <3>2 DEF Owing, Screens
    <3>. QED
      BY <3>1, <3>3
  <2>6. ASSUME NEW k \in 1..7 PROVE Follows(r, k)
    <3>1. CASE k \in {1, 3, 5, 7}
      BY <2>2, <3>1 DEF Follows, Screens
    <3>2. CASE k \in {2, 4, 6}
      BY <2>2, <2>3, <2>4, <3>2 DEF Follows
    <3>. QED
      BY <3>1, <3>2
  <2>. QED
    BY <1>12, <2>5, <2>6 DEF Paired
<1>. HIDE DEF u, v, q
<1>14. /\ Legal(uq) /\ \A l : l # "vmemc" => Keeps(uq, l)
       /\ Marks(uq, {FALSE}, {0})
  BY <1>5, <1>6, <1>7, <1>9, LegalJoined, KeptJoined
<1>. HIDE DEF uq
<1>15. /\ Legal(r) /\ \A l : l \notin {"vmemc", "vmem_cur"} => Keeps(r, l)
       /\ Marks(r, {FALSE}, {0})
  BY <1>8, <1>10, <1>11, <1>14, LegalJoined, KeptJoined
<1>16. p = r \o w /\ Paired(w)
  BY <1>2, <1>4, <1>6, WithoutAny DEF uq
<1>. HIDE DEF r
<1>17. /\ Legal(p) /\ \A l : l \notin {"vmemc", "vmem_cur", "serialc"} => Keeps(p, l)
       /\ Marks(p, {FALSE}, {0})
  BY <1>4, <1>6, <1>12, <1>15, <1>16, LegalJoined, KeptJoined
<1>0. Paired(p)
  BY <1>6, <1>12, <1>13, <1>16, PairedJoined
<1>19. p # <<>>
  <2>1. Len(w) \in Nat /\ Len(p) = Len(r) + Len(w)
    BY <1>6, <1>12, <1>16, Joined
  <2>. QED
    BY <1>12, <2>1
<1>. QED
  BY <1>17, <1>0, <1>19 DEF p

(* What is printed on the screen.                                          *)
OnScreen(p) ==
    Legal(p) /\ Keeps(p, "vmemf") /\ Marks(p, {FALSE}, {0}) /\ Paired(p)

LEMMA OnScreenJoined ==
    ASSUME NEW p, NEW q, OnScreen(p), OnScreen(q)
    PROVE  OnScreen(p \o q)
<1>1. p \in Programs /\ q \in Programs
  BY DEF OnScreen, Legal
<1>. QED
  BY <1>1, LegalJoined, KeptJoined, PairedJoined DEF OnScreen

LEMMA VmemTokensAre ==
    /\ \A newline \in BOOLEAN :
          OnScreen(Console!vmem_printc(newline)) /\ Console!vmem_printc(newline) # <<>>
    /\ OnScreen(Console!vmem_print) /\ Console!vmem_print # <<>>
    /\ ScreenWhole(Console!vmem_print, "vmem")
<1>1. ASSUME NEW newline \in BOOLEAN
      PROVE  OnScreen(Console!vmem_printc(newline)) /\ Console!vmem_printc(newline) # <<>>
  <2>. DEFINE p == Console!vmem_printc(newline)
  <2>1. /\ Legal(p) /\ \A l : l \notin {"vmemc", "vmem_cur", "serialc"} => Keeps(p, l)
        /\ Marks(p, {FALSE}, {0}) /\ Paired(p) /\ p # <<>>
    BY VmemPrintcIs
  <2>. HIDE DEF p
  <2>2. OnScreen(p) /\ p # <<>>
    BY <2>1 DEF OnScreen
  <2>. QED
    BY <2>2 DEF p
<1>. DEFINE c == Console!vmem_printc(FALSE)  t == Console!Times(2, c)
<1>2. OnScreen(c)
  BY <1>1
<1>3. Keeps(c, "vmem")
  <2>1. FALSE \in BOOLEAN
    OBVIOUS
  <2>2. \A l : l \notin {"vmemc", "vmem_cur", "serialc"} => Keeps(c, l)
    BY <2>1, VmemPrintcIs
  <2>. HIDE DEF c
  <2>. QED
    BY <2>2
<1>. HIDE DEF c
<1>4. c \in Programs
  BY <1>2 DEF OnScreen, Legal
<1>5. t = c \o c
  BY <1>4, Twice
<1>6. OnScreen(c \o c) /\ c \o c \in Programs /\ Keeps(c \o c, "vmem")
  BY <1>2, <1>3, <1>4, OnScreenJoined, KeptJoined, Joined
<1>7. Console!vmem_print = Console!Holding("vmem", t)
  BY DEF Console!vmem_print, c
<1>8. "vmem" \in Console!Locks
  BY DEF Console!Locks
<1>. HIDE DEF t
<1>. DEFINE h == Console!Holding("vmem", t)
<1>9. Legal(h) /\ Paired(h) /\ ScreenWhole(h, "vmem") /\ h # <<>>
  BY <1>5, <1>6, <1>8, HoldingLegal, HoldingWhole DEF OnScreen
<1>10. Keeps(h, "vmemf") /\ Marks(h, {FALSE}, {0})
  BY <1>5, <1>6, <1>8, HoldingKeeps DEF OnScreen
<1>11. OnScreen(h)
  BY <1>9, <1>10 DEF OnScreen
<1>. QED
  BY <1>1, <1>7, <1>9, <1>11

LEMMA OnScreenSound == ASSUME NEW p, OnScreen(p), p # <<>> PROVE Sound(p)
  BY WithoutAny DEF OnScreen, Sound, Legal

LEMMA VmemPrintfIs ==
    ASSUME NEW text \in Seq(Tokens)
    PROVE  Sound(Console!vmem_printf(text)) /\ ScreenWhole(Console!vmem_printf(text), "vmemf")
<1>. DEFINE Token(k) ==
              IF text[k] = "s" THEN Console!vmem_print ELSE Console!vmem_printc(text[k] = "nl")
            N == Len(text)
            T == [n \in 0..N |-> {p \in Programs : OnScreen(p)}]
            seqs == [k \in 1..N |-> Token(k)]
            body == Console!FlattenSeq(seqs)
            h == Console!Holding("vmemf", body)
<1>1. N \in Nat /\ DOMAIN text = 1..N
  BY LenProperties
<1>2. ASSUME NEW k \in 1..N PROVE OnScreen(Token(k))
  <2>1. (text[k] = "nl") \in BOOLEAN
    OBVIOUS
  <2>2. OnScreen(Console!vmem_printc(text[k] = "nl"))
    BY <2>1, VmemTokensAre
  <2>. QED
    BY <2>2, VmemTokensAre
<1>3. Console!vmem_printf(text) = h
  BY <1>1 DEF Console!vmem_printf, Console!vmem_tokens, Console!ForEach
<1>. HIDE DEF Token
<1>4. \A k \in 1..N : Token(k) \in Programs
  BY <1>2 DEF OnScreen, Legal
<1>5. seqs \in Seq(Seq(ProgramSteps)) /\ Len(seqs) = N /\ \A k \in 1..N : seqs[k] = Token(k)
  BY <1>1, <1>4 DEF Programs
<1>6. OnScreen(<<>>) /\ <<>> \in Programs
  BY NothingIs, WithoutAny DEF OnScreen
<1>7. <<>> \in T[0] /\ \A n \in 1..N : \A p \in T[n - 1] : p \o seqs[n] \in T[n]
  <2>1. \A n \in 0..N : T[n] = {p \in Programs : OnScreen(p)}
    OBVIOUS
  <2>2. 0 \in 0..N /\ \A n \in 1..N : n \in 0..N /\ n - 1 \in 0..N
    BY <1>1
  <2>3. ASSUME NEW n \in 1..N, NEW p \in Programs, OnScreen(p)
        PROVE  p \o Token(n) \in Programs /\ OnScreen(p \o Token(n))
    BY <1>2, <1>4, <2>3, OnScreenJoined, Joined
  <2>. HIDE DEF T, seqs
  <2>. QED
    BY <1>5, <1>6, <2>1, <2>2, <2>3
<1>8. body \in T[Len(seqs)]
  <2>. HIDE DEF T, seqs, N
  <2>. QED
    BY <1>5, <1>7, FlattenInduction
<1>9. T[Len(seqs)] = {p \in Programs : OnScreen(p)}
  BY <1>1, <1>5
<1>10. OnScreen(body) /\ body \in Programs
  BY <1>8, <1>9
<1>11. "vmemf" \in Console!Locks
  BY DEF Console!Locks
<1>. HIDE DEF body
<1>12. Legal(h) /\ Paired(h) /\ ScreenWhole(h, "vmemf") /\ h # <<>>
  BY <1>10, <1>11, HoldingLegal, HoldingWhole DEF OnScreen
<1>13. Marks(h, {FALSE}, {0})
  BY <1>10, <1>11, HoldingKeeps DEF OnScreen
<1>. HIDE DEF h
<1>14. FormatWhole(h) /\ StringsWhole(h)
  BY <1>12, <1>13, WithoutAny DEF Legal
<1>. QED
  BY <1>3, <1>12, <1>14 DEF Sound

(* Every call, and the exception handler.                                  *)
LEMMA CallsAreSound ==
    /\ \A call \in Texts :
          /\ Sound(Console!Steps(call))
          /\ call.fn = "vmem_printf" => ScreenWhole(Console!Steps(call), "vmemf")
          /\ call.fn = "vmem_print" => ScreenWhole(Console!Steps(call), "vmem")
    /\ Sound(Console!aos_system_exception)
<1>1. ASSUME NEW p, p # <<>>, Legal(p), FormatWhole(p), StringsWhole(p), Blind(p) PROVE Sound(p)
  BY <1>1, WithoutAny DEF Sound, Legal
<1>2. ASSUME NEW call \in Texts
      PROVE  /\ Sound(Console!Steps(call))
             /\ call.fn = "vmem_printf" => ScreenWhole(Console!Steps(call), "vmemf")
             /\ call.fn = "vmem_print" => ScreenWhole(Console!Steps(call), "vmem")
  <2>1. /\ call.fn \in {"serial_print", "serial_printf", "vmem_printf", "vmem_print", "vmem_printc"}
        /\ call.text \in Seq(Tokens)
    BY TextAssumption DEF Tokens
  <2>2. CASE call.fn = "serial_print"
    <3>. DEFINE p == Console!serial_print(FALSE, 1)
    <3>1. FALSE \in BOOLEAN /\ 1 \in Nat
      OBVIOUS
    <3>2. Legal(p) /\ Marks(p, {FALSE}, {1}) /\ Blind(p) /\ StringsWhole(p) /\ p # <<>>
      BY <3>1, SerialPrintIs
    <3>3. Console!Steps(call) = p
      BY <2>2 DEF Console!Steps
    <3>. HIDE DEF p
    <3>4. FormatWhole(p)
      BY <3>2, WithoutAny DEF Legal
    <3>. QED
      BY <1>1, <2>2, <3>2, <3>3, <3>4
  <2>3. CASE call.fn = "serial_printf"
    <3>1. Console!Steps(call) = Console!serial_printf(call.text)
      BY <2>3 DEF Console!Steps
    <3>. QED
      BY <1>1, <2>1, <2>3, <3>1, SerialPrintfIs
  <2>4. CASE call.fn = "vmem_printf"
    <3>1. Console!Steps(call) = Console!vmem_printf(call.text)
      BY <2>4 DEF Console!Steps
    <3>. QED
      BY <2>1, <2>4, <3>1, VmemPrintfIs
  <2>5. CASE call.fn = "vmem_print"
    <3>1. Console!Steps(call) = Console!vmem_print
      BY <2>5 DEF Console!Steps
    <3>. QED
      BY <2>5, <3>1, VmemTokensAre, OnScreenSound
  <2>6. CASE call.fn = "vmem_printc"
    <3>1. Console!Steps(call) = Console!vmem_printc(call.text = <<"nl">>)
      BY <2>6 DEF Console!Steps
    <3>2. (call.text = <<"nl">>) \in BOOLEAN
      OBVIOUS
    <3>. QED
      BY <2>6, <3>1, <3>2, VmemTokensAre, OnScreenSound
  <2>. QED
    BY <2>1, <2>2, <2>3, <2>4, <2>5, <2>6
<1>. QED
  BY <1>1, <1>2, ExceptionIs

-----------------------------------------------------------------------------
(* The console                                                             *)

ConsoleTypes ==
    /\ DOMAIN owner = Console!Locks
    /\ DOMAIN code = Printers /\ DOMAIN console_pc = Printers /\ DOMAIN at = Printers
    /\ \A c \in Printers :
          /\ console_pc[c] \in Nat
          /\ console_pc[c] # 0 => Sound(code[c]) /\ console_pc[c] \in 1..Len(code[c])

(* A core owns the locks that are held where it is in its program.         *)
LocksInv ==
    \A c \in Printers : console_pc[c] # 0 =>
        \A l \in Console!Locks : Held(code[c], console_pc[c], l) => owner[l] = c

Due(c, op) == console_pc[c] # 0 /\ Pending(code[c], console_pc[c], op)

(* Unless two cores met at the cursor, at most one has still to program it *)
(* and knows what it has set; if none has, the cursor is right.            *)
CursorInv ==
    faulted = {} /\ ~crowded =>
        /\ \A c \in Printers :
              /\ at[c] # <<>> => \E op \in Owing : Due(c, op)
              /\ Due(c, "cell") => at[c] = <<console_x, 0>>
              /\ Due(c, "newline") => at[c] = <<0, y>> /\ console_x = 0
              /\ Due(c, "read_x") \/ Due(c, "read_y") => at[c] = <<console_x, y>>
        /\ \A c, d \in Printers : at[c] # <<>> /\ at[d] # <<>> => c = d
        /\ (\A c \in Printers : at[c] = <<>>) => cursor = <<console_x, y>>

ConsoleInv == ConsoleTypes /\ LocksInv /\ CursorInv

LEMMA ConsoleStarts == ASSUME Console!Init PROVE ConsoleInv
<1>1. ConsoleTypes /\ LocksInv
  BY DEF Console!Init, ConsoleTypes, LocksInv
<1>2. CursorInv
  BY DEF Console!Init, CursorInv, Due
<1>. QED
  BY <1>1, <1>2 DEF ConsoleInv

LEMMA ConsoleShows == ASSUME ConsoleInv PROVE Console!CursorAtRest
  BY DEF ConsoleInv, CursorInv, Due, Console!CursorAtRest

(* One step further in a program.                                          *)
LEMMA HeldNext ==
    ASSUME NEW p \in Programs, NEW k \in 1..Len(p), NEW l, Held(p, k + 1, l)
    PROVE  p[k] = <<"lock", l>> \/ (Held(p, k, l) /\ p[k] # <<"unlock", l>>)
<1>1. Len(p) \in Nat
  BY LenProperties DEF Programs
<1>2. PICK a \in 1..k : p[a] = <<"lock", l>> /\ \A b \in a..k : p[b] # <<"unlock", l>>
  <2>1. PICK a \in 1..((k + 1) - 1) :
           p[a] = <<"lock", l>> /\ \A b \in a..((k + 1) - 1) : p[b] # <<"unlock", l>>
    BY DEF Held
  <2>2. (k + 1) - 1 = k
    BY <1>1
  <2>. QED
    BY <2>1, <2>2
<1>3. CASE a = k
  BY <1>2, <1>3
<1>4. CASE a # k
  <2>1. a \in 1..(k - 1) /\ k \in a..k /\ \A b \in a..(k - 1) : b \in a..k
    BY <1>1, <1>4
  <2>. QED
    BY <1>2, <2>1 DEF Held
<1>. QED
  BY <1>3, <1>4

LEMMA PendingNext ==
    ASSUME NEW p \in Programs, NEW k \in 1..Len(p), NEW op \in Screens
    PROVE  Pending(p, k + 1, op) <=>
              p[k][1] = op \/ (p[k][1] \notin Screens /\ Pending(p, k, op))
<1>1. Len(p) \in Nat
  BY LenProperties DEF Programs
<1>2. ASSUME Pending(p, k + 1, op), p[k][1] # op
      PROVE  p[k][1] \notin Screens /\ Pending(p, k, op)
  <2>1. PICK a \in 1..k : p[a][1] = op /\ \A b \in (a + 1)..k : p[b][1] \notin Screens
    BY <1>1, <1>2 DEF Pending
  <2>2. a \in 1..(k - 1) /\ k \in (a + 1)..k /\ \A b \in (a + 1)..(k - 1) : b \in (a + 1)..k
    BY <1>1, <1>2, <2>1
  <2>. QED
    BY <2>1, <2>2 DEF Pending
<1>3. ASSUME p[k][1] = op PROVE Pending(p, k + 1, op)
  <2>1. k \in 1..((k + 1) - 1) /\ \A b \in (k + 1)..((k + 1) - 1) : FALSE
    BY <1>1
  <2>. QED
    BY <1>3, <2>1 DEF Pending
<1>4. ASSUME p[k][1] \notin Screens, Pending(p, k, op) PROVE Pending(p, k + 1, op)
  <2>1. PICK a \in 1..(k - 1) : p[a][1] = op /\ \A b \in (a + 1)..(k - 1) : p[b][1] \notin Screens
    BY <1>4 DEF Pending
  <2>2. a \in 1..((k + 1) - 1) /\ \A b \in (a + 1)..((k + 1) - 1) : b = k \/ b \in (a + 1)..(k - 1)
    BY <1>1
  <2>. QED
    BY <1>4, <2>1, <2>2 DEF Pending
<1>. QED
  BY <1>2, <1>3, <1>4

(* Where a core is, and where its step takes it.                           *)
LEMMA StandsAt ==
    ASSUME ConsoleInv, NEW c \in Printers, console_pc[c] # 0
    PROVE  LET p == code[c]  k == console_pc[c]
           IN  /\ Sound(p) /\ p \in Programs /\ Len(p) \in Nat /\ k \in 1..Len(p)
               /\ p[k] \in ProgramSteps /\ Console!Step(c) = p[k]
<1>. DEFINE p == code[c]  k == console_pc[c]
<1>1. Sound(p) /\ k \in 1..Len(p) /\ Console!Step(c) = p[k]
  BY DEF ConsoleInv, ConsoleTypes, Console!Step
<1>. HIDE DEF p, k
<1>2. p \in Programs
  BY <1>1 DEF Sound, Legal
<1>3. Len(p) \in Nat /\ \A j \in 1..Len(p) : p[j] \in ProgramSteps
  BY <1>2, LenProperties DEF Programs
<1>. QED
  BY <1>1, <1>2, <1>3 DEF p, k

LEMMA AdvanceIs ==
    ASSUME ConsoleInv, NEW c \in Printers, console_pc[c] # 0, Console!Advance(c)
    PROVE  /\ DOMAIN console_pc' = Printers /\ console_pc'[c] \in Nat
           /\ console_pc'[c] # 0 => /\ console_pc'[c] = console_pc[c] + 1
                                    /\ console_pc'[c] \in 1..Len(code[c])
           /\ console_pc'[c] = 0 => console_pc[c] = Len(code[c])
           /\ \A d \in Printers : d # c => console_pc'[d] = console_pc[d]
<1>1. DOMAIN console_pc = Printers
  BY DEF ConsoleInv, ConsoleTypes
<1>2. Len(code[c]) \in Nat /\ console_pc[c] \in 1..Len(code[c])
  BY StandsAt
<1>. QED
  BY <1>1, <1>2 DEF Console!Advance

(* A core that runs goes one step further; what it does to the locks.      *)
LEMMA RunLocks ==
    ASSUME ConsoleInv, NEW c \in Printers, console_pc[c] # 0, Console!Advance(c), code' = code,
           DOMAIN at' = Printers,
           \/ /\ Console!At(c, "lock") /\ owner[Console!Step(c)[2]] = "none"
              /\ owner' = [owner EXCEPT ![Console!Step(c)[2]] = c]
           \/ /\ Console!At(c, "unlock")
              /\ owner' = [owner EXCEPT ![Console!Step(c)[2]] = "none"]
           \/ /\ Console!Step(c)[1] \notin {"lock", "unlock"} /\ owner' = owner
    PROVE  ConsoleTypes' /\ LocksInv'
<1>. DEFINE p == code[c]  k == console_pc[c]  s == p[k]
<1>1. /\ Sound(p) /\ p \in Programs /\ Len(p) \in Nat /\ k \in 1..Len(p)
      /\ s \in ProgramSteps /\ Console!Step(c) = s
  BY StandsAt
<1>2. /\ DOMAIN console_pc' = Printers /\ console_pc'[c] \in Nat
      /\ console_pc'[c] # 0 => console_pc'[c] = k + 1 /\ console_pc'[c] \in 1..Len(p)
      /\ \A d \in Printers : d # c => console_pc'[d] = console_pc[d]
  BY AdvanceIs
<1>3. ConsoleTypes'
  <2>1. DOMAIN owner' = Console!Locks
    BY DEF ConsoleInv, ConsoleTypes
  <2>2. ASSUME NEW d \in Printers
        PROVE  /\ console_pc'[d] \in Nat
               /\ console_pc'[d] # 0 => Sound(code[d]) /\ console_pc'[d] \in 1..Len(code[d])
    BY <1>1, <1>2 DEF ConsoleInv, ConsoleTypes
  <2>3. DOMAIN code = Printers
    BY DEF ConsoleInv, ConsoleTypes
  <2>. QED
    BY <1>2, <2>1, <2>2, <2>3 DEF ConsoleTypes
<1>4. \A d \in Printers : console_pc[d] # 0 =>
         \A l \in Console!Locks : Held(code[d], console_pc[d], l) => owner[l] = d
  BY DEF ConsoleInv, LocksInv
<1>5. \A l \in Console!Locks : s = <<"unlock", l>> => owner[l] = c
  <2>1. \A l \in Console!Locks : s = <<"unlock", l>> => Held(p, k, l)
    BY <1>1 DEF Sound, Legal
  <2>. QED
    BY <1>4, <2>1
<1>6. DOMAIN owner = Console!Locks
  BY DEF ConsoleInv, ConsoleTypes
<1>7. ASSUME NEW d \in Printers, console_pc'[d] # 0, NEW l \in Console!Locks,
             Held(code[d], console_pc'[d], l)
      PROVE  owner'[l] = d
  <2>1. \/ \E m \in Console!Locks : s = <<"lock", m>> /\ owner[m] = "none"
                                  /\ owner' = [owner EXCEPT ![m] = c]
        \/ \E m \in Console!Locks : s = <<"unlock", m>> /\ owner' = [owner EXCEPT ![m] = "none"]
        \/ s[1] \notin {"lock", "unlock"} /\ owner' = owner
    <3>. HIDE DEF s
    <3>1. s[1] \in {"lock", "unlock"} => s[2] \in Console!Locks /\ s = <<s[1], s[2]>>
      BY <1>1, StepIs
    <3>. QED
      BY <1>1, <3>1 DEF Console!At
  <2>2. CASE d # c
    <3>1. owner[l] = d
      BY <1>2, <1>4, <1>7, <2>2
    <3>2. d # "none"
      BY TextAssumption
    <3>. HIDE DEF s
    <3>. QED
      BY <1>5, <1>6, <2>1, <2>2, <3>1, <3>2
  <2>3. CASE d = c
    <3>1. Held(p, k + 1, l)
      BY <1>2, <1>7, <2>3
    <3>2. s = <<"lock", l>> \/ (Held(p, k, l) /\ s # <<"unlock", l>>)
      BY <1>1, <3>1, HeldNext
    <3>3. s = <<"lock", l>> \/ (owner[l] = c /\ s # <<"unlock", l>>)
      BY <1>4, <3>2
    <3>4. \A m : s = <<"lock", m>> => s[1] = "lock" /\ s[2] = m /\ s # <<"unlock", l>>
      OBVIOUS
    <3>. HIDE DEF s
    <3>. QED
      BY <1>6, <2>1, <2>3, <3>3, <3>4
  <2>. QED
    BY <2>2, <2>3
<1>8. LocksInv'
  BY <1>7 DEF LocksInv
<1>. QED
  BY <1>3, <1>8

(* Whom the locks keep apart are not at the cursor together.               *)
LEMMA OneAtScreen ==
    ASSUME ConsoleInv, NEW c \in Printers, console_pc[c] # 0, Console!Step(c)[1] \in Screens,
           NEW d \in Printers, d # c, Console!KeptApart(c, d), NEW op \in Owing, Due(d, op)
    PROVE  FALSE
<1>1. PICK fn \in {"vmem_printf", "vmem_print"} : \A e \in {c, d} :
         \E call \in Texts : call.fn = fn /\ code[e] = Console!Steps(call)
  BY DEF Console!KeptApart
<1>. DEFINE l == IF fn = "vmem_printf" THEN "vmemf" ELSE "vmem"
<1>2. l \in Console!Locks
  BY DEF Console!Locks
<1>3. ASSUME NEW e \in {c, d} PROVE ScreenWhole(code[e], l)
  <2>1. PICK call \in Texts : call.fn = fn /\ code[e] = Console!Steps(call)
    BY <1>1
  <2>2. CASE fn = "vmem_printf"
    BY <2>1, <2>2, CallsAreSound
  <2>3. CASE fn = "vmem_print"
    BY <2>1, <2>3, CallsAreSound
  <2>. QED
    BY <2>2, <2>3
<1>. HIDE DEF l
<1>4. console_pc[c] \in 1..Len(code[c]) /\ Console!Step(c) = code[c][console_pc[c]]
  BY StandsAt
<1>5. console_pc[d] # 0 /\ console_pc[d] \in 1..Len(code[d]) /\ Pending(code[d], console_pc[d], op)
  BY StandsAt DEF Due
<1>6. Held(code[c], console_pc[c], l)
  BY <1>3, <1>4 DEF ScreenWhole
<1>7. Held(code[d], console_pc[d], l)
  BY <1>3, <1>5 DEF ScreenWhole
<1>. QED
  BY <1>2, <1>5, <1>6, <1>7 DEF ConsoleInv, LocksInv

(* What is due after a step of c.                                          *)
LEMMA DueNext ==
    ASSUME ConsoleInv, NEW c \in Printers, console_pc[c] # 0, Console!Advance(c), code' = code,
           NEW op \in Owing
    PROVE  /\ Due(c, op)' <=> \/ Console!Step(c)[1] = op
                              \/ Console!Step(c)[1] \notin Screens /\ Due(c, op)
           /\ \A d \in Printers : d # c => (Due(d, op)' <=> Due(d, op))
<1>. DEFINE p == code[c]  k == console_pc[c]
<1>1. /\ Sound(p) /\ p \in Programs /\ Len(p) \in Nat /\ k \in 1..Len(p) /\ Console!Step(c) = p[k]
  BY StandsAt
<1>2. /\ console_pc'[c] # 0 => console_pc'[c] = k + 1
      /\ console_pc'[c] = 0 => k = Len(p)
      /\ \A d \in Printers : d # c => console_pc'[d] = console_pc[d]
  BY AdvanceIs
<1>3. op \in Screens
  BY DEF Screens, Owing
<1>4. Pending(p, k + 1, op) <=> p[k][1] = op \/ (p[k][1] \notin Screens /\ Pending(p, k, op))
  BY <1>1, <1>3, PendingNext
<1>5. ~Pending(p, Len(p) + 1, op)
  BY <1>1 DEF Sound, Paired
<1>6. Due(c, op)' <=> Pending(p, k + 1, op)
  BY <1>1, <1>2, <1>5 DEF Due
<1>7. Due(c, op) <=> Pending(p, k, op)
  BY DEF Due
<1>8. \A d \in Printers : d # c => (Due(d, op)' <=> Due(d, op))
  BY <1>2 DEF Due
<1>. QED
  BY <1>1, <1>4, <1>6, <1>7, <1>8

(* Nothing happens at the cursor.                                          *)
LEMMA CursorSame ==
    ASSUME CursorInv, UNCHANGED <<faulted, console_x, y, at, cursor, crowded>>,
           \A d \in Printers : \A op \in Owing : Due(d, op)' <=> Due(d, op)
    PROVE  CursorInv'
<1>1. Owing = {"cell", "newline", "read_x", "read_y"}
  BY DEF Owing
<1>2. \A d \in Printers : /\ Due(d, "cell")' <=> Due(d, "cell")
                          /\ Due(d, "newline")' <=> Due(d, "newline")
                          /\ Due(d, "read_x")' <=> Due(d, "read_x")
                          /\ Due(d, "read_y")' <=> Due(d, "read_y")
  BY <1>1
<1>3. \A d \in Printers : (\E op \in Owing : Due(d, op)) => \E op \in Owing : Due(d, op)'
  OBVIOUS
<1>. QED
  BY <1>2, <1>3 DEF CursorInv

LEMMA LocksRun ==
    ASSUME ConsoleInv, NEW c \in Printers,
           Console!Lock(c) \/ Console!Unlock(c) \/ Console!Out(c)
    PROVE  ConsoleInv'
<1>1. /\ console_pc[c] # 0 /\ Console!Advance(c) /\ code' = code
      /\ UNCHANGED <<faulted, console_x, y, at, cursor, crowded>>
  BY DEF Console!Lock, Console!Unlock, Console!Out, Console!At
<1>2. DOMAIN at' = Printers
  BY <1>1 DEF ConsoleInv, ConsoleTypes
<1>3. Console!Step(c)[1] \notin Screens
  BY DEF Console!Lock, Console!Unlock, Console!Out, Console!At, Screens
<1>4. ConsoleTypes' /\ LocksInv'
  BY <1>1, <1>2, RunLocks DEF Console!Lock, Console!Unlock, Console!Out, Console!At
<1>5. ASSUME NEW d \in Printers, NEW op \in Owing PROVE Due(d, op)' <=> Due(d, op)
  <2>1. Console!Step(c)[1] # op
    BY <1>3 DEF Screens, Owing
  <2>2. /\ Due(c, op)' <=> Due(c, op)
        /\ d # c => (Due(d, op)' <=> Due(d, op))
    BY <1>1, <1>3, <2>1, DueNext
  <2>. QED
    BY <2>2
<1>6. CursorInv'
  BY <1>1, <1>5, CursorSame DEF ConsoleInv
<1>. QED
  BY <1>4, <1>6 DEF ConsoleInv

LEMMA ScreenRuns ==
    ASSUME ConsoleInv, NEW c \in Printers,
           Console!Cell(c) \/ Console!Newline(c) \/ Console!Arguments(c) \/ Console!SetCursor(c)
    PROVE  ConsoleInv'
<1>. DEFINE s == Console!Step(c)
<1>1. /\ console_pc[c] # 0 /\ Console!Advance(c) /\ code' = code
      /\ UNCHANGED <<owner, faulted>> /\ s[1] \in Screens
  BY DEF Console!Cell, Console!Newline, Console!Arguments, Console!SetCursor, Console!At, Screens
<1>0. crowded => crowded'
  BY DEF Console!Cell, Console!Newline, Console!Arguments, Console!SetCursor, Console!Crowd
<1>2. DOMAIN at = Printers /\ DOMAIN at' = Printers
  BY DEF ConsoleInv, ConsoleTypes, Console!Cell, Console!Newline, Console!Arguments,
         Console!SetCursor
<1>3. ConsoleTypes' /\ LocksInv'
  <2>1. s[1] \notin {"lock", "unlock"}
    BY <1>1 DEF Screens
  <2>. QED
    BY <1>1, <1>2, <2>1, RunLocks
<1>. SUFFICES ASSUME faulted' = {}, ~crowded' PROVE CursorInv'
  BY <1>3 DEF ConsoleInv, CursorInv
<1>4. faulted = {} /\ ~crowded
  BY <1>1, <1>0
<1>5. /\ \A d \in Printers :
            /\ at[d] # <<>> => \E op \in Owing : Due(d, op)
            /\ Due(d, "cell") => at[d] = <<console_x, 0>>
            /\ Due(d, "newline") => at[d] = <<0, y>> /\ console_x = 0
            /\ Due(d, "read_x") \/ Due(d, "read_y") => at[d] = <<console_x, y>>
      /\ \A d, e \in Printers : at[d] # <<>> /\ at[e] # <<>> => d = e
  BY <1>4 DEF ConsoleInv, CursorInv
<1>6. ASSUME NEW op \in Owing
      PROVE  /\ Due(c, op)' <=> s[1] = op
             /\ \A d \in Printers : d # c => (Due(d, op)' <=> Due(d, op))
  BY <1>1, DueNext
<1>7. Follows(code[c], console_pc[c]) /\ s = code[c][console_pc[c]]
  BY <1>1, StandsAt DEF Sound, Paired
<1>8. \A m, n : <<m, n>> # <<>> /\ <<m, n>>[1] = m /\ <<m, n>>[2] = n
  OBVIOUS
(* Nobody else is at the cursor. *)
<1>9. ASSUME NEW d \in Printers, d # c PROVE at[d] = <<>>
  <2>1. CASE Console!Cell(c) \/ Console!Newline(c)
    <3>1. at[d] # <<>> => Console!KeptApart(c, d)
      BY <1>9, <2>1 DEF Console!Cell, Console!Newline, Console!Crowd
    <3>2. ASSUME at[d] # <<>> PROVE FALSE
      <4>1. PICK op \in Owing : Due(d, op)
        BY <1>5, <3>2
      <4>. QED
        BY <1>1, <1>9, <3>1, <3>2, <4>1, OneAtScreen
    <3>. QED
      BY <3>2
  <2>2. CASE Console!Arguments(c) \/ Console!SetCursor(c)
    <3>1. s[1] \in {"read_x", "read_y", "cursor"}
      BY <2>2 DEF Console!Arguments, Console!SetCursor, Console!At
    <3>2. \E op \in Owing : Due(c, op)
      BY <1>1, <1>7, <3>1 DEF Follows, Due, Owing
    <3>3. at[c] # <<>>
      BY <1>5, <1>8, <3>2 DEF Owing
    <3>. QED
      BY <1>5, <1>9, <3>3
  <2>. QED
    BY <2>1, <2>2
<1>10. ASSUME NEW d \in Printers, d # c, NEW op \in Owing PROVE ~Due(d, op)
  BY <1>5, <1>8, <1>9, <1>10 DEF Owing
<1>11. ASSUME NEW d \in Printers, d # c, NEW op \in Owing PROVE ~Due(d, op)' /\ at'[d] = <<>>
  <2>1. at'[d] = at[d]
    BY <1>2, <1>11 DEF Console!Cell, Console!Newline, Console!Arguments, Console!SetCursor
  <2>. QED
    BY <1>6, <1>9, <1>10, <1>11, <2>1
<1>12. /\ Due(c, "cell")' <=> s[1] = "cell"
       /\ Due(c, "newline")' <=> s[1] = "newline"
       /\ Due(c, "read_x")' <=> s[1] = "read_x"
       /\ Due(c, "read_y")' <=> s[1] = "read_y"
  BY <1>6 DEF Owing
<1>13. SUFFICES /\ at'[c] # <<>> => s[1] \in Owing
                /\ s[1] = "cell" => at'[c] = <<console_x', 0>>
                /\ s[1] = "newline" => at'[c] = <<0, y'>> /\ console_x' = 0
                /\ s[1] \in {"read_x", "read_y"} => at'[c] = <<console_x', y'>>
                /\ at'[c] = <<>> => cursor' = <<console_x', y'>>
  <2>1. "cell" \in Owing /\ Owing = {"cell", "newline", "read_x", "read_y"}
    BY DEF Owing
  <2>2. \A d \in Printers : d # c => at'[d] = <<>>
    BY <1>11, <2>1
  <2>3. \A d \in Printers : d # c => /\ ~Due(d, "cell")' /\ ~Due(d, "newline")'
                                     /\ ~Due(d, "read_x")' /\ ~Due(d, "read_y")'
    BY <1>11, <2>1
  <2>4. at'[c] # <<>> => \E op \in Owing : Due(c, op)'
    BY <1>12, <1>13, <2>1
  <2>5. /\ Due(c, "cell")' => at'[c] = <<console_x', 0>>
        /\ Due(c, "newline")' => at'[c] = <<0, y'>> /\ console_x' = 0
        /\ Due(c, "read_x")' \/ Due(c, "read_y")' => at'[c] = <<console_x', y'>>
    BY <1>12, <1>13
  <2>. QED
    BY <1>13, <2>2, <2>3, <2>4, <2>5 DEF CursorInv
<1>14. CASE Console!Cell(c)
  BY <1>2, <1>8, <1>14 DEF Console!Cell, Console!At, Owing
<1>15. CASE Console!Newline(c)
  BY <1>2, <1>8, <1>15 DEF Console!Newline, Console!At, Owing
<1>16. CASE Console!Arguments(c)
  <2>1. /\ UNCHANGED <<console_x, y>> /\ s[1] \in {"read_x", "read_y"}
        /\ s[1] = "read_x" => at'[c] = <<console_x, at[c][2]>>
        /\ s[1] = "read_y" => at'[c] = <<at[c][1], y>>
    BY <1>2, <1>16 DEF Console!Arguments, Console!At
  <2>2. s[1] = "read_x" => at[c] = <<0, y>>
    BY <1>1, <1>5, <1>7 DEF Follows, Due
  <2>3. s[1] = "read_y" => at[c] = <<console_x, 0>>
    BY <1>1, <1>5, <1>7 DEF Follows, Due
  <2>4. at'[c] = <<console_x, y>>
    BY <1>8, <2>1, <2>2, <2>3
  <2>. QED
    BY <1>8, <2>1, <2>4 DEF Owing
<1>17. CASE Console!SetCursor(c)
  <2>1. UNCHANGED <<console_x, y>> /\ s[1] = "cursor" /\ cursor' = at[c] /\ at'[c] = <<>>
    BY <1>2, <1>17 DEF Console!SetCursor, Console!At
  <2>2. at[c] = <<console_x, y>>
    BY <1>1, <1>5, <1>7, <2>1 DEF Follows, Due
  <2>. QED
    BY <2>1, <2>2
<1>. QED
  BY <1>14, <1>15, <1>16, <1>17

LEMMA AtTheStart ==
    ASSUME NEW p
    PROVE  /\ \A l : ~Held(p, 1, l)
           /\ \A op : ~Pending(p, 1, op)
           /\ p # <<>> /\ p \in Programs => 1 \in 1..Len(p)
<1>1. 1..(1 - 1) = {}
  OBVIOUS
<1>2. p # <<>> /\ p \in Programs => 1 \in 1..Len(p)
  BY DEF Programs
<1>. QED
  BY <1>1, <1>2 DEF Held, Pending

LEMMA CallsKeep ==
    ASSUME ConsoleInv, NEW c \in Printers, Console!Call(c)
    PROVE  ConsoleInv'
<1>1. PICK call \in Texts : code' = [code EXCEPT ![c] = Console!Steps(call)]
  BY DEF Console!Call
<1>. DEFINE p == Console!Steps(call)
<1>2. Sound(p)
  BY CallsAreSound
<1>. HIDE DEF p
<1>3. /\ console_pc[c] = 0 /\ console_pc' = [console_pc EXCEPT ![c] = 1]
      /\ UNCHANGED <<owner, faulted, console_x, y, at, cursor, crowded>>
  BY DEF Console!Call
<1>4. /\ DOMAIN code = Printers /\ DOMAIN console_pc = Printers
      /\ DOMAIN code' = Printers /\ DOMAIN console_pc' = Printers
      /\ console_pc'[c] = 1 /\ code'[c] = p
      /\ \A d \in Printers : d # c => console_pc'[d] = console_pc[d] /\ code'[d] = code[d]
  BY <1>1, <1>3 DEF ConsoleInv, ConsoleTypes, p
<1>5. 1 \in 1..Len(p)
  BY <1>2, AtTheStart DEF Sound, Legal
<1>6. ConsoleTypes'
  BY <1>2, <1>3, <1>4, <1>5 DEF ConsoleInv, ConsoleTypes
<1>7. LocksInv'
  BY <1>3, <1>4, AtTheStart DEF ConsoleInv, LocksInv
<1>8. \A d \in Printers : \A op \in Owing : Due(d, op)' <=> Due(d, op)
  BY <1>3, <1>4, AtTheStart DEF Due
<1>9. CursorInv'
  BY <1>3, <1>8, CursorSame DEF ConsoleInv
<1>. QED
  BY <1>6, <1>7, <1>9 DEF ConsoleInv

LEMMA ExceptionKeeps ==
    ASSUME ConsoleInv, NEW c \in Printers, Console!Fault(c)
    PROVE  ConsoleInv'
<1>. DEFINE p == Console!aos_system_exception
<1>1. Sound(p)
  BY CallsAreSound
<1>2. /\ code' = [code EXCEPT ![c] = p] /\ console_pc' = [console_pc EXCEPT ![c] = 1]
      /\ owner' = [l \in Console!Locks |-> IF owner[l] = c THEN "lost" ELSE owner[l]]
      /\ c \in faulted' /\ at' = at
  BY DEF Console!Fault
<1>. HIDE DEF p
<1>3. /\ DOMAIN code' = Printers /\ DOMAIN console_pc' = Printers
      /\ console_pc'[c] = 1 /\ code'[c] = p
      /\ \A d \in Printers : d # c => console_pc'[d] = console_pc[d] /\ code'[d] = code[d]
  BY <1>2 DEF ConsoleInv, ConsoleTypes
<1>4. 1 \in 1..Len(p)
  BY <1>1, AtTheStart DEF Sound, Legal
<1>5. ConsoleTypes'
  BY <1>1, <1>2, <1>3, <1>4 DEF ConsoleInv, ConsoleTypes
<1>6. ASSUME NEW d \in Printers, console_pc'[d] # 0, NEW l \in Console!Locks,
             Held(code'[d], console_pc'[d], l)
      PROVE  owner'[l] = d
  <2>1. d # c
    BY <1>3, <1>6, AtTheStart
  <2>2. owner[l] = d
    BY <1>3, <1>6, <2>1 DEF ConsoleInv, LocksInv
  <2>. QED
    BY <1>2, <2>1, <2>2
<1>7. LocksInv'
  BY <1>6 DEF LocksInv
<1>8. CursorInv'
  BY <1>2 DEF CursorInv
<1>. QED
  BY <1>5, <1>7, <1>8 DEF ConsoleInv

LEMMA ConsoleKeeps ==
    ASSUME ConsoleInv, Console!Next \/ UNCHANGED consoleVars
    PROVE  ConsoleInv'
<1>1. CASE UNCHANGED consoleVars
  BY <1>1 DEF consoleVars, ConsoleInv, ConsoleTypes, LocksInv, CursorInv, Due
<1>2. CASE Console!Next
  BY <1>2, LocksRun, ScreenRuns, CallsKeep, ExceptionKeeps DEF Console!Next, Console!Run
<1>. QED
  BY <1>1, <1>2

(* A character goes out under the locks of its format and of its string.   *)
LEMMA ConsoleUnmixed == ASSUME ConsoleInv PROVE Console!Unmixed
<1>1. SUFFICES ASSUME NEW c \in Printers, NEW d \in Printers, c # d, Console!At(c, "out")
               PROVE  /\ Console!Step(c)[2] => ~Console!Amid(d, LAMBDA s : s[2])
                      /\ Console!Step(c)[3] # 0 =>
                            \A n \in 1..MaxTokens : ~Console!Amid(d, LAMBDA s : s[3] = n)
  BY DEF Console!Unmixed
<1>. DEFINE p == code[c]  k == console_pc[c]  q == code[d]  j == console_pc[d]
<1>2. /\ Sound(p) /\ k \in 1..Len(p) /\ k \in k..k /\ k # 0
      /\ p[k] \in ProgramSteps /\ Console!Step(c) = p[k] /\ p[k][1] = "out"
  BY <1>1, StandsAt DEF Console!At
<1>3. ASSUME j # 0
      PROVE  Sound(q) /\ q \in Programs /\ Len(q) \in Nat /\ j \in 1..Len(q)
             /\ \A m \in 1..Len(q) : q[m] \in ProgramSteps
  <2>1. Sound(q) /\ q \in Programs /\ Len(q) \in Nat /\ j \in 1..Len(q)
    BY <1>3, StandsAt
  <2>. QED
    BY <2>1, LenProperties DEF Programs
<1>4. ASSUME NEW l \in Console!Locks, Held(p, k, l), j # 0, Held(q, j, l) PROVE FALSE
  BY <1>1, <1>2, <1>4 DEF ConsoleInv, LocksInv
<1>5. {"serialf", "serialp"} \subseteq Console!Locks
  BY DEF Console!Locks
<1>6. j \in Nat
  BY DEF ConsoleInv, ConsoleTypes
<1>. HIDE DEF p, k, q, j
<1>7. ASSUME p[k][2], Console!Amid(d, LAMBDA s : s[2]) PROVE FALSE
  <2>1. p[k][2] = TRUE
    BY <1>2, <1>7, StepIs
  <2>2. Held(p, k, "serialf")
    BY <1>2, <2>1 DEF Sound, FormatWhole
  <2>3. j > 0 /\ \E a \in 1..(j - 1) : q[a][1] = "out" /\ q[a][2]
    BY <1>7 DEF Console!Amid, q, j
  <2>4. \E b \in j..Len(q) : q[b][1] = "out" /\ q[b][2]
    BY <1>7 DEF Console!Amid, q, j
  <2>5. j # 0
    BY <1>6, <2>3
  <2>6. PICK a \in 1..(j - 1) : q[a][1] = "out" /\ q[a][2]
    BY <2>3
  <2>7. PICK b \in j..Len(q) : q[b][1] = "out" /\ q[b][2]
    BY <2>4
  <2>8. a \in 1..Len(q) /\ b \in 1..Len(q) /\ j \in a..b
    BY <1>3, <2>5
  <2>9. q[a][2] = TRUE /\ q[b][2] = TRUE
    BY <1>3, <2>5, <2>6, <2>7, <2>8, StepIs
  <2>10. Held(q, j, "serialf")
    BY <1>3, <2>5, <2>6, <2>7, <2>8, <2>9 DEF Sound, FormatWhole
  <2>. QED
    BY <1>4, <1>5, <2>2, <2>5, <2>10
<1>8. ASSUME p[k][3] # 0, NEW n \in 1..MaxTokens, Console!Amid(d, LAMBDA s : s[3] = n) PROVE FALSE
  <2>1. Held(p, k, "serialp")
    BY <1>2, <1>8 DEF Sound, StringsWhole
  <2>2. n # 0
    BY TextAssumption
  <2>3. j > 0 /\ \E a \in 1..(j - 1) : q[a][1] = "out" /\ q[a][3] = n
    BY <1>8 DEF Console!Amid, q, j
  <2>4. \E b \in j..Len(q) : q[b][1] = "out" /\ q[b][3] = n
    BY <1>8 DEF Console!Amid, q, j
  <2>5. j # 0
    BY <1>6, <2>3
  <2>6. PICK a \in 1..(j - 1) : q[a][1] = "out" /\ q[a][3] = n
    BY <2>3
  <2>7. PICK b \in j..Len(q) : q[b][1] = "out" /\ q[b][3] = n
    BY <2>4
  <2>8. a \in 1..Len(q) /\ b \in 1..Len(q) /\ j \in a..b
    BY <1>3, <2>5
  <2>9. Held(q, j, "serialp")
    BY <1>3, <2>2, <2>5, <2>6, <2>7, <2>8 DEF Sound, StringsWhole
  <2>. QED
    BY <1>4, <1>5, <2>1, <2>5, <2>9
<1>. QED
  BY <1>2, <1>7, <1>8

LEMMA ConsoleStays == DevicesSpec => []ConsoleInv
<1>1. DevicesInit => ConsoleInv
  BY ConsoleStarts DEF DevicesInit
<1>2. ConsoleInv /\ [DevicesNext]_deviceVars => ConsoleInv'
  <2>. SUFFICES ASSUME ConsoleInv, [DevicesNext]_deviceVars PROVE ConsoleInv'
    OBVIOUS
  <2>1. Console!Next \/ UNCHANGED consoleVars
    BY DEF DevicesNext, deviceVars
  <2>. QED
    BY <2>1, ConsoleKeeps
<1>. QED
  BY <1>1, <1>2, PTL DEF DevicesSpec

(* Unbroken of Console: while a character goes on the wire no other core   *)
(* is amid a serial_printf, if the character is of one, nor amid a string, *)
(* if it is of a string, whatever is printed and wherever an exception     *)
(* makes a core leave its call for the handler.                            *)
THEOREM UnbrokenHolds == DevicesSpec => Unbroken
<1>1. ConsoleInv => Console!Unmixed
  BY ConsoleUnmixed
<1>. QED
  BY <1>1, ConsoleStays, PTL DEF Unbroken, Console!Unbroken

-----------------------------------------------------------------------------
(* The input line: Ps2                                                     *)

Bytes == Keys \cup {"controller", "none"}

KeyboardTypes ==
    /\ DOMAIN got = Keyboard!Cores /\ \A c \in Keyboard!Cores : got[c] \in Bytes
    /\ out = <<>> \/ out[1].byte \in Bytes
    /\ config.from \in Bytes
    /\ buf \in Seq(Bytes) /\ DOMAIN cells = 0..max_len

KeyboardInv == KeyboardTypes /\ Keyboard!EchoShowsLine

LEMMA KeyboardStarts == ASSUME Keyboard!Init PROVE KeyboardInv
<1>1. KeyboardTypes
  BY DEF Keyboard!Init, Keyboard!Initial, KeyboardTypes, Bytes
<1>2. Keyboard!EchoShowsLine
  BY LineAssumption DEF Keyboard!Init, Keyboard!EchoShowsLine, Keyboard!Blank
<1>. QED
  BY <1>1, <1>2 DEF KeyboardInv

LEMMA TypistIsCore == Typist \in Keyboard!Cores
  BY DEF Keyboard!Cores

(* Bytes move from the port to the core that reads it, the screen is left. *)
LEMMA PortKeeps ==
    ASSUME KeyboardInv, UNCHANGED <<buf, cells, kbd_x>>,
           config'.from \in Bytes, out' = <<>> \/ out'[1].byte \in Bytes,
           got' = got \/ \E c, b : b \in Bytes /\ got' = [got EXCEPT ![c] = b]
    PROVE  KeyboardInv'
<1>1. DOMAIN got' = Keyboard!Cores /\ \A c \in Keyboard!Cores : got'[c] \in Bytes
  BY DEF KeyboardInv, KeyboardTypes
<1>2. KeyboardTypes' /\ Keyboard!EchoShowsLine'
  BY <1>1 DEF KeyboardInv, KeyboardTypes, Keyboard!EchoShowsLine, Keyboard!Blank, Keyboard!Cores, Bytes
<1>. QED
  BY <1>2 DEF KeyboardInv

LEMMA ControllerKeeps ==
    ASSUME KeyboardInv, (\E key \in Keys : Keyboard!Press(key))
                        \/ Keyboard!Answer \/ Keyboard!Acknowledge
    PROVE  KeyboardInv'
<1>1. config' = config /\ got' = got /\ UNCHANGED <<buf, cells, kbd_x>>
  BY DEF Keyboard!Press, Keyboard!Answer, Keyboard!Acknowledge, Keyboard!screen
<1>2. out'[1].byte \in Bytes
  BY DEF Keyboard!Press, Keyboard!Answer, Keyboard!Acknowledge, Bytes, KeyboardInv, KeyboardTypes
<1>. QED
  BY <1>1, <1>2, PortKeeps DEF KeyboardInv, KeyboardTypes

LEMMA ReadKeeps ==
    ASSUME KeyboardInv, NEW c \in Keyboard!Cores,
           \/ Keyboard!StartInit(c) \/ Keyboard!ReadConfig(c) \/ Keyboard!WriteConfig(c)
           \/ Keyboard!TryLock(c) \/ Keyboard!Try(c)
           \/ Keyboard!ReadScan \/ Keyboard!GotScan
    PROVE  KeyboardInv'
<1>1. UNCHANGED <<buf, cells, kbd_x>>
  BY DEF Keyboard!StartInit, Keyboard!ReadConfig, Keyboard!WriteConfig, Keyboard!TryLock,
         Keyboard!Try, Keyboard!ReadScan, Keyboard!GotScan, Keyboard!screen
<1>2. out' = <<>> \/ out'[1].byte \in Bytes
  BY DEF Keyboard!StartInit, Keyboard!ReadConfig, Keyboard!WriteConfig, Keyboard!TryLock,
         Keyboard!Try, Keyboard!ReadScan, Keyboard!GotScan, KeyboardInv, KeyboardTypes
<1>3. config'.from \in Bytes
  BY DEF Keyboard!StartInit, Keyboard!ReadConfig, Keyboard!WriteConfig, Keyboard!TryLock,
         Keyboard!Try, Keyboard!ReadScan, Keyboard!GotScan, KeyboardInv, KeyboardTypes
<1>4. got' = got \/ \E d, b : b \in Bytes /\ got' = [got EXCEPT ![d] = b]
  BY DEF Keyboard!StartInit, Keyboard!ReadConfig, Keyboard!WriteConfig, Keyboard!TryLock,
         Keyboard!Try, Keyboard!ReadScan, Keyboard!GotScan, KeyboardInv, KeyboardTypes, Bytes
<1>. QED
  BY <1>1, <1>2, <1>3, <1>4, PortKeeps

(* One key of the line.                                                    *)
LEMMA EditKeeps ==
    ASSUME KeyboardInv,
           Keyboard!Ignore \/ Keyboard!Enter \/ Keyboard!Backspace \/ Keyboard!Type
    PROVE  KeyboardInv'
<1>1. /\ UNCHANGED <<out, config>>
      /\ got' = [got EXCEPT ![Typist] = "none"]
  BY DEF Keyboard!Ignore, Keyboard!Enter, Keyboard!Backspace, Keyboard!Type, Keyboard!Edit
<1>2. DOMAIN got' = Keyboard!Cores /\ \A c \in Keyboard!Cores : got'[c] \in Bytes
  BY <1>1 DEF KeyboardInv, KeyboardTypes, Bytes
<1>3. /\ buf \in Seq(Bytes) /\ Len(buf) \in Nat /\ DOMAIN cells = 0..max_len /\ max_len \in Nat
      /\ kbd_x = Len(buf) /\ Len(buf) < max_len
      /\ \A k \in 0..max_len : cells[k] = IF k < Len(buf) THEN buf[k + 1] ELSE "blank"
  BY LineAssumption DEF KeyboardInv, KeyboardTypes, Keyboard!EchoShowsLine, Keyboard!Blank
<1>4. CASE Keyboard!Ignore \/ Keyboard!Enter
  <2>1. UNCHANGED <<buf, cells, kbd_x>>
    BY <1>4 DEF Keyboard!Ignore, Keyboard!Enter
  <2>. QED
    BY <1>1, <2>1, PortKeeps DEF KeyboardInv, KeyboardTypes, Bytes
<1>5. CASE Keyboard!Backspace
  <2>1. buf # <<>> /\ buf' = Keyboard!Front(buf)
        /\ cells' = [cells EXCEPT ![kbd_x - 1] = "blank"] /\ kbd_x' = kbd_x - 1
    BY <1>5 DEF Keyboard!Backspace, Keyboard!Blank
  <2>2. Len(buf) > 0
    BY <1>3, <2>1
  <2>3. buf' = SubSeq(buf, 1, Len(buf) - 1)
    BY <2>1 DEF Keyboard!Front
  <2>4. /\ buf' \in Seq(Bytes) /\ Len(buf') = Len(buf) - 1
        /\ \A k \in 1..(Len(buf) - 1) : buf'[k] = buf[k]
    BY <1>3, <2>2, <2>3
  <2>5. \A k \in 0..max_len : cells'[k] = IF k < Len(buf') THEN buf'[k + 1] ELSE "blank"
    BY <1>3, <2>1, <2>2, <2>4
  <2>. QED
    BY <1>1, <1>2, <1>3, <2>1, <2>4, <2>5
    DEF KeyboardInv, KeyboardTypes, Keyboard!EchoShowsLine, Keyboard!Blank, Keyboard!Cores, Bytes
<1>6. CASE Keyboard!Type
  <2>1. Len(buf) < max_len - 1 /\ buf' = Append(buf, got[Typist])
        /\ cells' = [cells EXCEPT ![kbd_x] = got[Typist]] /\ kbd_x' = kbd_x + 1
    BY <1>6 DEF Keyboard!Type
  <2>2. got[Typist] \in Bytes
    BY TypistIsCore DEF KeyboardInv, KeyboardTypes
  <2>3. /\ buf' \in Seq(Bytes) /\ Len(buf') = Len(buf) + 1
        /\ \A k \in 1..Len(buf) : buf'[k] = buf[k]
        /\ buf'[Len(buf) + 1] = got[Typist]
    BY <1>3, <2>1, <2>2
  <2>4. \A k \in 0..max_len : cells'[k] = IF k < Len(buf') THEN buf'[k + 1] ELSE "blank"
    BY <1>3, <2>1, <2>3
  <2>. QED
    BY <1>1, <1>2, <1>3, <2>1, <2>3, <2>4
    DEF KeyboardInv, KeyboardTypes, Keyboard!EchoShowsLine, Keyboard!Blank, Keyboard!Cores, Bytes
<1>. QED
  BY <1>4, <1>5, <1>6

LEMMA KeyboardKeeps ==
    ASSUME KeyboardInv, Keyboard!Next \/ UNCHANGED keyboardVars
    PROVE  KeyboardInv'
<1>1. CASE UNCHANGED keyboardVars
  BY <1>1 DEF keyboardVars, KeyboardInv, KeyboardTypes, Keyboard!EchoShowsLine, Keyboard!Blank,
              Keyboard!Cores, Bytes
<1>2. CASE Keyboard!ReadLine
  BY <1>2, ReadKeeps, EditKeeps, TypistIsCore DEF Keyboard!ReadLine
<1>3. ASSUME NEW c \in Others,
             \/ Keyboard!StartInit(c) \/ Keyboard!ReadConfig(c) \/ Keyboard!WriteConfig(c)
             \/ Keyboard!TryLock(c) \/ Keyboard!Try(c)
      PROVE  KeyboardInv'
  <2>1. c \in Keyboard!Cores
    BY DEF Keyboard!Cores
  <2>. QED
    BY <1>3, <2>1, ReadKeeps
<1>. QED
  BY <1>1, <1>2, <1>3, ControllerKeeps DEF Keyboard!Next

(* ScreenRight: when nobody prints, the cursor that vmem_printc programs   *)
(* after it has released the lock of the cell is where the next character  *)
(* goes; and the row of ps2_read_line shows its buffer at every step.      *)
THEOREM ScreenRightHolds == DevicesSpec => []ScreenRight
<1>1. DevicesInit => KeyboardInv
  BY KeyboardStarts DEF DevicesInit
<1>2. KeyboardInv /\ [DevicesNext]_deviceVars => KeyboardInv'
  <2>. SUFFICES ASSUME KeyboardInv, [DevicesNext]_deviceVars PROVE KeyboardInv'
    OBVIOUS
  <2>1. Keyboard!Next \/ UNCHANGED keyboardVars
    BY DEF DevicesNext, deviceVars
  <2>. QED
    BY <2>1, KeyboardKeeps
<1>3. ConsoleInv /\ KeyboardInv => ScreenRight
  BY ConsoleShows DEF KeyboardInv, ScreenRight
<1>. QED
  BY <1>1, <1>2, <1>3, ConsoleStays, PTL DEF DevicesSpec
===============================================================================
