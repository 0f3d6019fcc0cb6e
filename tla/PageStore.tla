----------------------------- MODULE PageStore ------------------------------
(***************************************************************************)
(* What a pod's cache promises its callers, with no word of how it picks   *)
(* its victims:                                                            *)
(*                                                                         *)
(*   - the published pages are closed under prefixes,                      *)
(*   - a path that is held stays published until it is released,           *)
(*   - room that was promised to a transfer is there when it arrives: a    *)
(*     delivery asks for nothing and drops nothing,                        *)
(*   - published and promised pages together fit the capacity.             *)
(***************************************************************************)
EXTENDS PrefixTrie

CONSTANTS Capacity, Transfer, User

VARIABLES
    published,  \* the pages a lookup can hit
    promised,   \* promised[t] is the room set aside for transfer t
    held        \* held[u] is the path user u relies on, Root for none

storeVars == <<published, promised, held>>

PromisedSlots == UNION {{t} \X (1 .. promised[t]) : t \in Transfer}

HeldPages == UNION {Chain[held[u]] : u \in User}

(* The pages in kept survive when room is made: what is held stays, and    *)
(* no page survives its prefix.                                            *)
Keeps(kept, path) ==
    /\ kept \subseteq published
    /\ HeldPages \subseteq kept
    /\ \A b \in kept \cup Chain[path] : Chain[b] \subseteq kept \cup Chain[path]

Fits == Cardinality(published') + Cardinality(PromisedSlots') <= Capacity

StoreInit ==
    /\ published = {}
    /\ promised = [t \in Transfer |-> 0]
    /\ held = [u \in User |-> Root]

Admit ==
    \E n \in Node, kept \in SUBSET Block :
        /\ Keeps(kept, n)
        /\ published' = kept \cup Chain[n]
        /\ UNCHANGED <<promised, held>>
        /\ Fits

Promise ==
    \E t \in Transfer, n \in Block, kept \in SUBSET Block :
        /\ promised[t] = 0
        /\ Keeps(kept, Root)
        /\ published' = kept
        /\ promised' = [promised EXCEPT ![t] = Depth(n)]
        /\ UNCHANGED held
        /\ Fits

Deliver ==
    \E t \in Transfer, n \in Block :
        /\ promised[t] = Depth(n)
        /\ published' = published \cup Chain[n]
        /\ promised' = [promised EXCEPT ![t] = 0]
        /\ UNCHANGED held

Hold ==
    \E u \in User, n \in Node :
        /\ held[u] = Root
        /\ Chain[n] \subseteq published
        /\ held' = [held EXCEPT ![u] = n]
        /\ UNCHANGED <<published, promised>>

Release ==
    \E u \in User :
        /\ held' = [held EXCEPT ![u] = Root]
        /\ UNCHANGED <<published, promised>>

StoreNext == Admit \/ Promise \/ Deliver \/ Hold \/ Release

StoreSpec == StoreInit /\ [][StoreNext]_storeVars
=============================================================================
