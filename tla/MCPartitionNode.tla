---------------------------- MODULE MCPartitionNode ----------------------------
(* PartitionNode as TLC checks it: three device numbers, of which the kernel *)
(* may give the partition a new one each time it reads the table.            *)
EXTENDS PartitionNode

CONSTANTS n1, n2, n3
===============================================================================
