-------------------------- MODULE IngressDeletion --------------------------
(***************************************************************************)
(* IngressController with a history variable for deletions: which clusters *)
(* the deletion helper could see in full when it read their stores, l. 141 *)
(* of deletion_helper.go.  It removes the finalizer later, l. 181, when    *)
(* the stores may show something else.                                     *)
(***************************************************************************)
EXTENDS IngressController

VARIABLE
  clear  \* history: the clusters that had caught up at the read, until it is over

varsH == <<vars, clear>>

\* The store of cluster c shows all there is, and no late request can add to it.
CaughtUp(c) ==
  /\ c \in synced /\ clWatch[c] = {}
  /\ \A op \in detached : op.kind = "add" => op.cluster # c

\* The read and the removal are the steps into and out of "remove".
Observe ==
  clear' = IF pc' # "remove" THEN {}
           ELSE IF pc = "remove" THEN clear
           ELSE {c \in Clusters : CaughtUp(c)}

InitH == Init /\ clear = {}

NextH == Next /\ Observe

SpecH == InitH /\ [][NextH]_varsH

\* A cascading deletion ends with the object gone.
DeletionEnds ==
  fed.obj # None /\ fed.obj.finalizers = {"delete"} /\ fed'.obj = None

\* A cascading deletion ends only after a read of the stores, and leaves nothing
\* behind in a cluster that had caught up then, whatever was delivered, failed or
\* turned unready since (HandleObjectInUnderlyingClusters): what DeletionComplete
\* claims fails only by stores that lag at the read, clusters without a listed
\* informer and requests that come late.
DeletionSeesAll ==
  [][DeletionEnds => pc = "remove" /\ \A c \in clear : cl[c].obj = None]_varsH
=============================================================================
