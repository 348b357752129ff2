------------------------- MODULE AuthenticTransfer -------------------------
(***************************************************************************)
(* What a WRAITH container promises, whatever happens to it in storage:    *)
(* the reader is given the bytes of the source in order, never anything    *)
(* else, and is told that it has them all if and only if it does and the   *)
(* container came back as it was written.  WraithStream is shown to        *)
(* implement this.                                                         *)
(***************************************************************************)
EXTENDS Naturals, Sequences

VARIABLES sent,      \* bytes sealed by the writer
          closed,    \* the container is complete
          intact,    \* what is read is what was written, with its password
          delivered, \* positions in the source of the bytes given to the reader
          verdict

tVars == <<sent, closed, intact, delivered, verdict>>

TInit == /\ sent = 0
         /\ closed = FALSE
         /\ intact \in BOOLEAN
         /\ delivered = << >>
         /\ verdict = "none"

Send == /\ ~closed
        /\ sent' \in Nat
        /\ sent' > sent
        /\ UNCHANGED <<closed, intact, delivered, verdict>>

Close == /\ ~closed
         /\ closed' = TRUE
         /\ UNCHANGED <<sent, intact, delivered, verdict>>

\* Storage alters the container, before it is read.
Damage == /\ closed
          /\ delivered = << >>
          /\ verdict = "none"
          /\ intact' \in BOOLEAN
          /\ UNCHANGED <<sent, closed, delivered, verdict>>

Deliver == /\ closed
           /\ verdict = "none"
           /\ Len(delivered') > Len(delivered)
           /\ Len(delivered') <= sent
           /\ delivered' = [i \in 1 .. Len(delivered') |-> i]
           /\ UNCHANGED <<sent, closed, intact, verdict>>

Accept == /\ closed
          /\ verdict = "none"
          /\ intact
          /\ Len(delivered) = sent
          /\ verdict' = "accepted"
          /\ UNCHANGED <<sent, closed, intact, delivered>>

Reject == /\ closed
          /\ verdict = "none"
          /\ ~intact
          /\ verdict' = "rejected"
          /\ UNCHANGED <<sent, closed, intact, delivered>>

TNext == Send \/ Close \/ Damage \/ Deliver \/ Accept \/ Reject

TSpec == TInit /\ [][TNext]_tVars
=============================================================================
