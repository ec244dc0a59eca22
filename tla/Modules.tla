------------------------------- MODULE Modules -------------------------------
(***************************************************************************)
(* The registry of module.c: module_register with its growing array, and   *)
(* module_already_initialized.  The array is a block of memory that is     *)
(* given back when it has been copied; a freed block holds whatever comes  *)
(* next.  One caller, as in pcie_init: the registry has no lock.           *)
(***************************************************************************)
EXTENDS Integers, Sequences

CONSTANTS
    Mods,          \* struct AOS_Module pointers
    Step,          \* 16, by which the array grows
    MaxBlocks      \* blocks that are allocated (a bound)

VARIABLES
    block,         \* blocks of memory: [0-based place -> module or "junk"]
    freed,
    registered_modules, registered_module_count, registered_module_cap,
    pc, module, nptr,
    registered,    \* the modules with hdr.registered set
    accepted       \* history variable: the modules that were told 1, in order

vars == <<block, freed, registered_modules, registered_module_count,
          registered_module_cap, pc, module, nptr, registered, accepted>>
fields == <<registered_modules, registered_module_count, registered_module_cap>>

NULL == 0

Init ==
    /\ block = <<>> /\ freed = {}
    /\ registered_modules = NULL
    /\ registered_module_count = 0 /\ registered_module_cap = 0
    /\ pc = "idle" /\ module \in Mods /\ nptr = NULL
    /\ registered = {} /\ accepted = <<>>

Array == block[registered_modules]

\* module_already_initialized
AlreadyInitialized(m) ==
    \E i \in 0..(registered_module_count - 1) : Array[i] = m

Call(m) ==
    /\ pc = "idle" /\ ~AlreadyInitialized(m)
    /\ module' = m
    /\ pc' = IF registered_modules = NULL \/ registered_module_count >= registered_module_cap
             THEN "alloc" ELSE "store"
    /\ UNCHANGED <<block, freed, fields, nptr, registered, accepted>>

\* The memory comes as it is; a freed block may come again, but sizes differ.
Alloc ==
    /\ pc = "alloc" /\ Len(block) < MaxBlocks
    /\ block' = Append(block, [i \in 0..(registered_module_cap + Step - 1) |-> "junk"])
    /\ nptr' = Len(block) + 1
    /\ pc' = "copy"
    /\ UNCHANGED <<freed, fields, module, registered, accepted>>

AllocFails ==
    /\ pc = "alloc" /\ pc' = "idle"
    /\ UNCHANGED <<block, freed, fields, module, nptr, registered, accepted>>

\* Mutant of Copy: the old array is not copied.
CopyNothing ==
    /\ pc = "copy" /\ pc' = "publish"
    /\ registered_module_cap' = registered_module_cap + Step
    /\ freed' = IF registered_modules = NULL THEN freed ELSE freed \cup {registered_modules}
    /\ UNCHANGED <<block, registered_modules, registered_module_count, module, nptr,
                   registered, accepted>>

Copy ==
    /\ pc = "copy" /\ pc' = "publish"
    /\ registered_module_cap' = registered_module_cap + Step
    /\ IF registered_modules = NULL
       THEN UNCHANGED <<block, freed>>
       ELSE /\ block' = [block EXCEPT ![nptr] =
                  [i \in DOMAIN @ |-> IF i < registered_module_count THEN Array[i] ELSE @[i]]]
            /\ freed' = freed \cup {registered_modules}
    /\ UNCHANGED <<registered_modules, registered_module_count, module, nptr,
                   registered, accepted>>

Publish ==
    /\ pc = "publish" /\ pc' = "store"
    /\ registered_modules' = nptr
    /\ UNCHANGED <<block, freed, registered_module_count, registered_module_cap, module,
                   nptr, registered, accepted>>

Store ==
    /\ pc = "store" /\ pc' = "idle"
    /\ block' = [block EXCEPT ![registered_modules][registered_module_count] = module]
    /\ registered_module_count' = registered_module_count + 1
    /\ registered' = registered \cup {module}
    /\ accepted' = Append(accepted, module)
    /\ UNCHANGED <<freed, registered_modules, registered_module_cap, module, nptr>>

Next ==
    \/ \E m \in Mods : Call(m)
    \/ Alloc \/ AllocFails \/ Copy \/ Publish \/ Store

Spec == Init /\ [][Next]_vars

-----------------------------------------------------------------------------
(* Properties *)

\* The array that registered_modules points to is not a freed one and holds,
\* in their order, exactly the modules whose registration was answered with 1,
\* each marked and none twice, however often it has grown (module.c:36-48) and
\* however often its growth failed in between.
RegistryIntact ==
    pc # "publish" =>
        /\ registered_modules \notin freed
        /\ registered_module_count = Len(accepted)
        /\ \A i \in 1..Len(accepted) :
              /\ i - 1 \in DOMAIN Array /\ Array[i - 1] = accepted[i]
              /\ accepted[i] \in registered
              /\ \A j \in 1..(i - 1) : accepted[j] # accepted[i]
===============================================================================
