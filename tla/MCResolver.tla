------------------------------ MODULE MCResolver ------------------------------
(* A small instance of Resolver for TLC: a pod of a Deployment, and entries
   from it to a service. *)
EXTENDS Resolver
OwnerOf == [p \in Pods |-> [kind |-> "ReplicaSet", name |-> <<"deployment", "hash">>]]
AddressOf == [i \in Ids |-> [source |-> PodIP, destination |-> SvcIP]]
=============================================================================
