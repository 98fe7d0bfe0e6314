---------------------------- MODULE AddressSpace ----------------------------
(***************************************************************************)
(* What the virtual memory manager of UmbralOS promises: an address space  *)
(* is a partial function from virtual pages to translations, one page is   *)
(* mapped at a time, mapping a page disturbs no other page, nothing is     *)
(* ever mapped at NULL, and nothing is both writable and executable.       *)
(***************************************************************************)
CONSTANTS
  VirtualPages,   \* page numbers; 0 is the page of the null pointer
  Translations    \* what a page may translate to: records with fields w and x

VARIABLE
  map             \* from the pages that translate to their translations

Init == map = [v \in {} |-> v]

\* Page v now translates to something that keeps the rules; all else is as it was.
Map(v) ==
  /\ v # 0
  /\ DOMAIN map' = DOMAIN map \cup {v}
  /\ map'[v] \in Translations /\ ~(map'[v].w /\ map'[v].x)
  /\ \A u \in DOMAIN map \ {v} : map'[u] = map[u]

Next == \E v \in VirtualPages : Map(v)

Spec == Init /\ [][Next]_map
=============================================================================
