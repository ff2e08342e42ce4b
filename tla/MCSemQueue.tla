---------------------------- MODULE MCSemQueue ----------------------------
(* The sample's six threads over semaphores with wait queues.              *)
EXTENDS SemQueue

MCNumPhil == 6
=============================================================================
