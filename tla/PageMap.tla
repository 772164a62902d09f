------------------------------ MODULE PageMap -------------------------------
(***************************************************************************)
(* What an address space promises: each root has a translation, a function *)
(* from virtual pages to entries.  A call to map a page either sets that   *)
(* one entry and reports success, or changes no translation and reports    *)
(* failure.  VirtualMemoryManager implements this with a tree of tables.   *)
(***************************************************************************)
EXTENDS Integers

CONSTANTS
    VPages,     \* virtual pages
    EMPTY,      \* an entry that is all zeros
    NoMapping   \* no request

VARIABLES
    xlate,      \* [roots -> [VPages -> entries]]
    request,    \* the mapping being made, NoMapping when none
    ret         \* what the last call returned

pmVars == <<xlate, request, ret>>

PMInit ==
    /\ xlate = [r \in {} |-> [v \in VPages |-> EMPTY]]
    /\ request = NoMapping
    /\ ret = FALSE

\* A new root translates nothing.
NewSpace ==
    /\ request = NoMapping
    /\ \E r \in DOMAIN xlate' :
          /\ r \notin DOMAIN xlate
          /\ xlate' = [s \in DOMAIN xlate \cup {r} |->
                          IF s = r THEN [v \in VPages |-> EMPTY] ELSE xlate[s]]
    /\ ret' = TRUE
    /\ UNCHANGED request

Ask ==
    /\ request = NoMapping
    /\ request' # NoMapping
    /\ request'.root \in DOMAIN xlate
    /\ request'.vpage \in VPages
    /\ UNCHANGED <<xlate, ret>>

Mapped ==
    /\ request # NoMapping
    /\ xlate' = [xlate EXCEPT ![request.root][request.vpage] = request.entry]
    /\ request' = NoMapping
    /\ ret' = request.unmapped

Failed ==
    /\ request # NoMapping
    /\ request' = NoMapping
    /\ ret' = FALSE
    /\ UNCHANGED xlate

\* Unmapping a page clears its entry; if that is part of a remapping, a request
\* for some page of the same root is made in the same step, and remembers how
\* the unmapping went.
Clear(r, v) ==
    /\ request = NoMapping
    /\ xlate' = [xlate EXCEPT ![r][v] = EMPTY]
    /\ \/ request' = NoMapping /\ ret' \in BOOLEAN
       \/ request' # NoMapping /\ request'.root = r /\ request'.vpage \in VPages /\ ret' = ret

\* A call that changes nothing.
Report == request = NoMapping /\ ret' \in BOOLEAN /\ UNCHANGED <<xlate, request>>

PMNext ==
    \/ NewSpace \/ Ask \/ Mapped \/ Failed \/ Report
    \/ \E r \in DOMAIN xlate, v \in VPages : Clear(r, v)

PMSpec == PMInit /\ [][PMNext]_pmVars
=============================================================================
