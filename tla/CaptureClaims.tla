---------------------------- MODULE CaptureClaims ----------------------------
(***************************************************************************)
(* What the repository's own words promise of the pipeline and the code    *)
(* does not keep.  Each is checked by a run that expects its violation;    *)
(* the README tells the counterexamples.                                   *)
(***************************************************************************)
EXTENDS CapturePipeline

\* "was already uploaded from this card.  Nothing is missing"
\* (status.js:151): a row rejected as a duplicate has a twin with the same
\* bytes that is complete or still on its way.
DuplicateIsCovered ==
    \A r \in Row : rows[r].reason = "duplicate_content" =>
        \E s \in Row : /\ rows[s].content = rows[r].observed
                       /\ rows[s].state # "rejected"

\* "a card reader pulled for thirty seconds ... must not cost a photograph"
\* (pipeline.js:54-58): a source is given up as vanished only if the card has
\* been out for the whole grace period.
VanishedOnlyAfterGrace ==
    [][\A r \in Row : rows'[r].reason = "source_vanished" /\ rows[r].reason = None
         => card = "long_out"]_rows

\* "Only legal before the capture has been announced -- after that the server
\* holds a digest we cannot retract" (spool.js:253-256): a row on its way to
\* the server carries the master digest its capture was announced with.
AnnouncedDigestKept ==
    \A r \in Row : rows[r].state \in Working \ PreAnnounced
        => captures[r].expected["master"] = rows[r].content

\* "retried a bounded number of times and then rejected ... must not spin
\* forever" (bridge/README.md:161-163): a file no transfer delivers intact is
\* settled all the same.
BoundedFailureSettles == EveryRowSettles

=============================================================================
