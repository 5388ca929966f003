------------------------ MODULE MCIngressController ------------------------
(***************************************************************************)
(* Instances of IngressController for TLC.                                 *)
(***************************************************************************)
EXTENDS IngressController, TLC

CONSTANTS c1, c2, s1, s2
CONSTANTS MaxEdits, MaxDeletes, MaxCreates, MaxLBChanges, MaxFlips, MaxFaults,
          MaxTimeouts, MaxCrashes

MCBudget == [edit |-> MaxEdits, delete |-> MaxDeletes, create |-> MaxCreates,
             lb |-> MaxLBChanges, flip |-> MaxFlips, fault |-> MaxFaults,
             timeout |-> MaxTimeouts, crash |-> MaxCrashes]

Manifest(spec, type, selector) == [spec |-> spec, type |-> type, selector |-> selector]

\* A global ingress, whose clusters share one static IP, or a plain one for c1.
MixedContents == {Manifest(s1, "global", None), Manifest(s2, None, {c1})}

\* The same for every cluster, so that no selector removes an ingress.
UnselectiveContents == {Manifest(s1, None, None), Manifest(s2, None, None)}

\* One manifest, created and perhaps created again.
OneContent == {Manifest(s1, None, None)}

\* A global ingress, whose clusters share one static IP.
GlobalContent == {Manifest(s1, "global", None)}

\* The selector matches every cluster, none, or is broken.
SelectorContents == {Manifest(s1, None, None), Manifest(s2, None, {}),
                     Manifest(s1, None, Malformed)}

\* Clusters are interchangeable where no manifest names one.
ClusterSymmetry == Permutations(Clusters)
=============================================================================
