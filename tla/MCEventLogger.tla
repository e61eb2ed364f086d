--------------------------- MODULE MCEventLogger ----------------------------
(* EventLogger with three clients: one meets a line that is too long, and one *)
(* has nothing to say.                                                      *)
EXTENDS EventLogger

Clients == 1 .. 3
Lines == <<<<"a", bad, "b">>, <<"a", long>>, <<bad>>>>
Breaking == {1}
Killed == {1}
=============================================================================
