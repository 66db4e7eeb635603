------------------------------- MODULE Durable -------------------------------
(* What the stores of the desktop promise of their files: a program that   *)
(* starts again finds some version it had, whole, and never one older than *)
(* a version found before.                                                 *)
EXTENDS Naturals

CONSTANT MaxVersion     \* bound

VARIABLES
    memory,     \* the version in memory
    disk        \* the version a start would find

Init == memory = 0 /\ disk = 0

Change == memory < MaxVersion /\ memory' = memory + 1 /\ UNCHANGED disk
Save == disk' \in disk..memory /\ UNCHANGED memory
Start == memory' = disk /\ UNCHANGED disk

Next == Change \/ Save \/ Start
Spec == Init /\ [][Next]_<<memory, disk>>
=============================================================================
