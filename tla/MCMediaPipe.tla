----------------------------- MODULE MCMediaPipe -----------------------------
(* Bounds of MediaPipe for the model checker.  With one priority the tasks   *)
(* run to their next wait, and longer streams and plans can be afforded.     *)
EXTENDS MediaPipe

Test == <<"init", "config", "start", "stop", "deinit">>

\* In every state the calls that are refused, too.
Misuse == <<"init", "init", "start", "stop", "config", "init", "config", "stop",
            "start", "init", "start", "config", "stop", "deinit">>

\* A stream that runs is taken down, and brought up again.
TakenDown == <<"init", "config", "start", "deinit", "init", "init", "stop", "deinit">>

MCMaxTx == [e \in BOOLEAN |-> IF e THEN 6 ELSE 2]
MCPlans == [e \in BOOLEAN |-> IF e THEN {Test \o Test, Misuse, TakenDown} ELSE {Test, TakenDown}]
==============================================================================
