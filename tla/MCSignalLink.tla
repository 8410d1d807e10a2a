---------------------------- MODULE MCSignalLink ----------------------------
(* A slot of a boolean signal with a callback, a task that awaits it, and  *)
(* someone who overrides it.                                               *)
EXTENDS SignalLink

All == {"recv", "async_recv", "channel"}
=============================================================================
