------------------------------ MODULE MCItems ------------------------------
(***************************************************************************)
(* Items, in two parts: lists, values and scans of a server that is never  *)
(* flushed, and the values, with and without a prefix, of one that is and  *)
(* that runs a second longer.  There flush_all has a delay or none, and a  *)
(* flush of the prefix none.  A behaviour is in one of the two.            *)
(***************************************************************************)
EXTENDS Items

CONSTANTS kv, pv, list, prefix   \* pv and list are keys with a prefix

VARIABLE part

mcvars == <<vars, part>>

MCPrefixOf == [k \in {kv, pv, list} |-> IF k = kv THEN {} ELSE {prefix}]

MCDeltas == {0, Sticky, 1}

NoKey(k) == \A i \in ItemIds : cache.item[i].key # k

NeverFlushed == \A p \in DOMAIN cache.oldest_live : cache.oldest_live[p] = 0

InPart ==
    \/ part = "lists" /\ NoKey(pv) /\ NeverFlushed /\ clock < MaxTime
    \/ /\ part = "values" /\ NoKey(list)
       /\ \A c \in Clients : client[c].kind # "elem"
       /\ \A s \in Scanners : scan[s] = {}
       /\ cache.oldest_live[prefix] <= clock

MCInit == Init /\ part \in {"lists", "values"}

MCNext == Next /\ UNCHANGED part /\ InPart'

MCSpec == MCInit /\ [][MCNext]_mcvars /\ Fairness

============================================================================
