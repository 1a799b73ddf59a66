------------------------ MODULE MCClusterAdministration ------------------------
\* Instances of ClusterAdministration for TLC.
EXTENDS ClusterAdministration, TLC

Symmetry == Permutations(Request) \cup Permutations(Peer \ {Self}) \cup Permutations(ClusterId)

================================================================================
