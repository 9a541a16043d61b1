---------------------------- MODULE MCMembership ----------------------------
(* Three nodes, 1 and 3 seeded with 2 and 2 with none, so that 1 and 3    *)
(* learn of each other only from 2's notifications and may connect to     *)
(* each other at once.                                                     *)
EXTENDS Membership

MCSeeds == [n \in 1..3 |-> IF n = 2 THEN {} ELSE {2}]

(* As MCSeeds, and node 1 also lists an alias of its own address.        *)
MCSeedsAlias == [n \in 1..3 |-> CASE n = 1 -> {1, 2} [] n = 3 -> {2} [] OTHER -> {}]
====
