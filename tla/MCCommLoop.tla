----------------------------- MODULE MCCommLoop -----------------------------
\* Instances of CommLoop for TLC.
EXTENDS CommLoop

\* While there are two connections, only the script registers filters, and for one address.
OneClientOverTwoLanes ==
    Len(opened) > 1 =>
        /\ own["idle"] = {} /\ ALL \notin own["script"]
        /\ \A i \in DOMAIN clearQ : clearQ[i].linda = "script" /\ clearQ[i].path # ALL
        /\ \A i \in LaneIds : filters[i] \subseteq {<<p, "script">> : p \in Paths \ {ALL}}
=============================================================================
