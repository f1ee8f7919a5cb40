-------------------------- MODULE MCPackageSource ---------------------------
(* Three reads, two slots and a port that holds one completion.            *)
EXTENDS PackageSource
=============================================================================
