--------------------------- MODULE WatchSessions ---------------------------
(***************************************************************************)
(* What the folder watcher promises about its encryption sessions, without *)
(* its threads, its mutex or its stop flags: one session runs at a time,   *)
(* the containers of a session are reported one by one as they are made,   *)
(* and a session is over only when nothing it made is left unreported.     *)
(* WatcherLifecycle is shown to implement this.                            *)
(***************************************************************************)
EXTENDS Naturals

CONSTANT Sessions    \* identities of sessions

VARIABLES running,   \* the sessions that run
          made,      \* containers each session has produced
          reported   \* containers of each session counted in the audit trail

sVars == <<running, made, reported>>

SInit == /\ running = {}
         /\ made = [s \in Sessions |-> 0]
         /\ reported = [s \in Sessions |-> 0]

\* A session starts only when no other runs, with nothing made yet.
Begin(s) == /\ running = {}
            /\ made[s] = 0
            /\ running' = {s}
            /\ UNCHANGED <<made, reported>>

Produce(s) == /\ s \in running
              /\ made[s] = reported[s]
              /\ made' = [made EXCEPT ![s] = @ + 1]
              /\ UNCHANGED <<running, reported>>

Report(s) == /\ s \in running
             /\ reported[s] < made[s]
             /\ reported' = [reported EXCEPT ![s] = @ + 1]
             /\ UNCHANGED <<running, made>>

End(s) == /\ running = {s}
          /\ reported[s] = made[s]
          /\ running' = {}
          /\ UNCHANGED <<made, reported>>

SNext == \E s \in Sessions : Begin(s) \/ Produce(s) \/ Report(s) \/ End(s)

SSpec == SInit /\ [][SNext]_sVars
=============================================================================
