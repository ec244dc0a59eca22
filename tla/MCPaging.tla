------------------------------- MODULE MCPaging -------------------------------
(* Two parts that share no state, so a behaviour is of one of them, the    *)
(* other at rest: pager_init over the real memory map (BootPaging), and    *)
(* pager_map_range and pager_unmap with tables of two entries: sixteen     *)
(* pages, huge pages of two (PageTables).                                  *)
EXTENDS PageTables, TLC

VARIABLES
    part,
    range, offset, small, huge, tables, loaded

bootVars == <<range, offset, small, huge, tables, loaded>>
Boot == INSTANCE BootPaging

MapperSymmetry == Permutations(Mappers)

PagingInit == part \in {"boot", "run"} /\ Init /\ Boot!Init

PagingNext ==
    \/ part = "boot" /\ Boot!Next /\ UNCHANGED <<part, vars>>
    \/ part = "run" /\ Next /\ UNCHANGED <<part, bootVars>>

PagingSpec == PagingInit /\ [][PagingNext]_<<part, vars, bootVars>>

(* Of BootPaging: the direct map is complete and reaches the tables.       *)
DirectMapComplete == Boot!DirectMapComplete
===============================================================================
