------------------------------ MODULE MCLogFile ------------------------------
(* Instances of LogFile for model checking.                                 *)
EXTENDS LogFile

CONSTANTS user, kernel, ui, event, emit

\* The UI thread and the event thread of the shell, and the kernel module's.
ThreadModules == [t \in Threads |-> IF t = emit THEN kernel ELSE user]

\* A message that cannot be formatted, and lengths on both sides of LineBuffer.
EdgeMessages == {-1, 1, LineBuffer - 1, LineBuffer, LineBuffer + 1}
==============================================================================
