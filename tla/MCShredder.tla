------------------------------ MODULE MCShredder ------------------------------
(* Two links to a read-only file and a name of an empty one, and two workers *)
(* that between them meet one random name again.                             *)
EXTENDS Shredder, TLC

CONSTANTS f1, f2, n1, n2, n3, w1, w2

MCLeadsTo == (n1 :> f1) @@ (n2 :> f1) @@ (n3 :> f2)
MCJobs    == {[method |-> "zero", passes |-> None], [method |-> "custom", passes |-> 1]}
===============================================================================
