---------------------------- MODULE SessionClaims ----------------------------
(***************************************************************************)
(* What the run loop's own comment promises and the code does not keep:    *)
(* the run of this claim expects its violation.                            *)
(***************************************************************************)
EXTENDS Sessions

\* "stopping it is always safe and starting it always resumes" (bridge.js:2-3):
\* once its session is for the event it was started for, an installation ends
\* up with all it took announced, or has stopped and says why.
StartingResumes ==
    \A b \in Bridge :
        <>[] \/ spool[b] = <<>>
             \/ Stopped(b)
             \/ store[b] # None /\ Stored(b).event # event[b]

=============================================================================
