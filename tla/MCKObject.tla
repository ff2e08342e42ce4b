----------------------------- MODULE MCKObject -----------------------------
(* Three threads racing init_once over two static objects.                *)
EXTENDS KObject

MCSlots == {"SEM_0", "SEM_1"}
MCCallers == {"main", "t1", "t2"}
=============================================================================
