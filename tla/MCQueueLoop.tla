------------------------------ MODULE MCQueueLoop ------------------------------
(* QueueLoop for TLC: three devices with one, two and three queues.        *)
EXTENDS QueueLoop

MCnumCQs == <<1, 3, 2>>
=============================================================================
