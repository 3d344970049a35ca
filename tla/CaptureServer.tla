--------------------------- MODULE CaptureServer ---------------------------
(***************************************************************************)
(* The server's half of the capture contract, as the repository states it  *)
(* in bridge/test/fake-server.js ("behaves like the real one"): announcing *)
(* a capture under an idempotency key, storing the bytes a Bridge sends,   *)
(* and confirming an asset only when the stored bytes are the announced    *)
(* ones.  Each operator is what one request does when it is handled; the   *)
(* module that composes it with a Bridge decides whether the request or    *)
(* its reply is lost.                                                      *)
(***************************************************************************)
EXTENDS Photographs

CONSTANTS
    Corrupt,        \* bytes no Bridge ever had: a damaged transfer
    UsedSequences   \* sequence numbers an earlier install already spent

VARIABLES
    captures,       \* capturesByKey
    objects,        \* the object stored at each upload target
    sequences       \* device sequence numbers taken

serverVars == <<captures, objects, sequences>>

Kind == {"preview", "master"}

ASSUME ServerAssumption ==
    /\ Corrupt \notin Content \cup {None}
    /\ UsedSequences \subseteq Nat

Capture ==
    [ known    : BOOLEAN,                    \* a capture exists for this key
      seq      : Nat,
      expected : [Kind -> Content \cup {None}],
      asset    : [Kind -> Content \cup {None}] ]   \* digest of the confirmed asset

Unknown == [ known |-> FALSE, seq |-> 0,
             expected |-> [k \in Kind |-> None], asset |-> [k \in Kind |-> None] ]

ServerTypeOK ==
    /\ captures \in [Row -> Capture]
    /\ objects \in [Row -> [Kind -> Content \cup {None, Corrupt}]]
    /\ sequences \subseteq Nat

ServerInit ==
    /\ captures = [r \in Row |-> Unknown]
    /\ objects = [r \in Row |-> [k \in Kind |-> None]]
    /\ sequences = UsedSequences

\* POST /v1/captures.  The key is looked up before anything else: a repeat
\* returns the capture as it was first announced, and ignores the rest.
AnnounceRepeats(r) ==
    /\ captures[r].known
    /\ UNCHANGED serverVars

AnnounceCreates(r, seq, master, preview) ==
    /\ ~captures[r].known
    /\ seq \notin sequences
    /\ sequences' = sequences \cup {seq}
    /\ captures' = [captures EXCEPT ![r] =
         [ known |-> TRUE, seq |-> seq,
           expected |-> [k \in Kind |-> IF k = "master" THEN master ELSE preview],
           asset |-> [k \in Kind |-> None] ]]
    /\ UNCHANGED objects

\* Mutant: the sequence number is looked up before the idempotency key.
ConflictsFirst(r, seq) == seq \in sequences

AnnounceConflicts(r, seq) == ~captures[r].known /\ seq \in sequences

\* PUT to the upload target: whatever arrived replaces what was there.
Store(r, kind, bytes) ==
    /\ objects' = [objects EXCEPT ![r][kind] = bytes]
    /\ UNCHANGED <<captures, sequences>>

\* Mutant: the digest is compared with the announcement, not with the store.
MatchesAnnouncement(r, kind, digest) ==
    captures[r].expected[kind] \in {None, digest}

\* POST .../assets/<kind>/confirm.  not_uploaded and checksum_mismatch are
\* both bounded failures to the Bridge, so they are one case here.
ConfirmMatches(r, kind, digest) ==
    /\ objects[r][kind] = digest
    /\ captures[r].expected[kind] \in {None, digest}

ConfirmAsset(r, kind, digest) ==
    /\ ConfirmMatches(r, kind, digest)
    /\ captures' = [captures EXCEPT ![r].asset[kind] = digest]
    /\ UNCHANGED <<objects, sequences>>

\* The server vouches for exactly these bytes, and still has them.
Holds(r, kind, digest) ==
    /\ digest \in Content
    /\ captures[r].asset[kind] = digest
    /\ objects[r][kind] = digest

=============================================================================
