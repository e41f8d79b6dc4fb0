------------------------------ MODULE PairedReplace ------------------------------
(***************************************************************************)
(* What a boundary promises: a restore or an import replaces the main      *)
(* document and the Shared Checks document in one step, when neither has   *)
(* an edit the cloud lacks, and outside that step an unsent edit leaves a  *)
(* document only by reaching the cloud.                                    *)
(***************************************************************************)
CONSTANTS
    Sides,      \* the two documents
    Marks,      \* what tells one content from another
    Ids         \* replacements

VARIABLES
    doc,        \* the marks in each document
    unsent,     \* those of them the cloud lacks
    cloud,      \* the marks in each cloud document
    pair        \* the last replacement each document went through

vars == <<doc, unsent, cloud, pair>>

TypeOK ==
    /\ doc \in [Sides -> SUBSET Marks]
    /\ unsent \in [Sides -> SUBSET Marks]
    /\ cloud \in [Sides -> SUBSET Marks]
    /\ pair \in [Sides -> Ids]

\* A fresh or recovered pair: one replacement stands for both documents.
Init ==
    /\ TypeOK
    /\ \E id \in Ids : pair = [s \in Sides |-> id]

Edit(s) ==
    \E m \in Marks \ doc[s] :
        /\ doc' = [doc EXCEPT ![s] = @ \cup {m}]
        /\ unsent' = [unsent EXCEPT ![s] = @ \cup {m}]
        /\ UNCHANGED <<cloud, pair>>

\* An upload is answered, a remote head adopted, a refused upload rebased: what
\* is no longer unsent is in the cloud, what still is stays in the document.
Sync(s) ==
    /\ TypeOK'
    /\ \A r \in Sides \ {s} :
          doc'[r] = doc[r] /\ unsent'[r] = unsent[r] /\ cloud'[r] = cloud[r]
    /\ unsent'[s] \subseteq unsent[s] \cap doc'[s]
    /\ unsent[s] \ unsent'[s] \subseteq cloud'[s]
    /\ UNCHANGED pair

\* Other devices and the server's own restore.
Remote ==
    /\ cloud' \in [Sides -> SUBSET Marks]
    /\ UNCHANGED <<doc, unsent, pair>>

Replace(id) ==
    /\ unsent = [s \in Sides |-> {}]
    /\ pair' = [s \in Sides |-> id]
    /\ doc' \in [Sides -> SUBSET Marks]
    /\ unsent' \in [Sides -> SUBSET Marks]
    /\ UNCHANGED cloud

Next ==
    \/ \E s \in Sides : Edit(s) \/ Sync(s)
    \/ Remote
    \/ \E id \in Ids : Replace(id)

Spec == Init /\ [][Next]_vars
=================================================================================
