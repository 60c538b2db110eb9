---------------------------- MODULE BoardSource -----------------------------
(***************************************************************************)
(* What ExtraBoard promises the rest of the node, whatever its filters and *)
(* its registration do: a list of distinct clusters and then one board per *)
(* cluster, in that order, with the cluster's corners or with none.        *)
(***************************************************************************)
EXTENDS Naturals, Sequences

CONSTANTS Clusters, NoCorners

VARIABLES
  clusters,  \* the vector extract_points fills
  corners    \* the corners of the vector board_register fills

sourceVars == <<clusters, corners>>

Nothing == clusters = <<>> /\ corners = <<>>

Distinct(s) == \A i, j \in DOMAIN s : s[i] = s[j] => i = j

Extract ==
  /\ Nothing
  /\ clusters' \in Seq(Clusters) /\ Distinct(clusters')
  /\ UNCHANGED corners

Register ==
  /\ clusters # <<>> /\ corners = <<>>
  /\ corners' \in Seq(Clusters \cup {NoCorners})
  /\ DOMAIN corners' = DOMAIN clusters
  /\ \A i \in DOMAIN corners' : corners'[i] \in {clusters[i], NoCorners}
  /\ UNCHANGED clusters

(* A new process starts with neither. *)
Discard == clusters' = <<>> /\ corners' = <<>>

SourceSpec == Nothing /\ [][Extract \/ Register \/ Discard]_sourceVars
=============================================================================
