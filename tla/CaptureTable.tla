---------------------------- MODULE CaptureTable ----------------------------
(***************************************************************************)
(* What the table of captures promises, whoever fills and drains it: a     *)
(* photograph is taken on under a name nobody else has; until it is sent,  *)
(* and not later, it may still turn out to have a RAW, of the same press   *)
(* of the shutter; it is settled once, and only then may it give its name  *)
(* up, to nobody or to a new photograph of the same file.                  *)
(***************************************************************************)
CONSTANTS Row, Name, Press, None

VARIABLES
    stage,          \* "unseen", "held", "sent" or "settled"
    name,           \* what a photograph goes by, if anything
    press,          \* the press of the shutter it is of
    withRaw         \* those that are the RAW of it

table == <<stage, name, press, withRaw>>

Init ==
    /\ stage = [r \in Row |-> "unseen"]
    /\ name = [r \in Row |-> None]
    /\ press = [r \in Row |-> None]
    /\ withRaw = {}

Enters(r, p) ==
    /\ stage[r] = "unseen"
    /\ stage' = [stage EXCEPT ![r] = "held"]
    /\ press' = [press EXCEPT ![r] = p]

TakeOn(r, n, p) ==
    /\ Enters(r, p)
    /\ \A s \in Row : name[s] # n
    /\ name' = [name EXCEPT ![r] = n]
    /\ withRaw' \in {withRaw, withRaw \cup {r}}

FindRaw(r) ==
    /\ stage[r] = "held"
    /\ withRaw' = withRaw \cup {r}
    /\ UNCHANGED <<stage, name, press>>

Send(r) ==
    /\ stage[r] = "held"
    /\ stage' = [stage EXCEPT ![r] = "sent"]
    /\ UNCHANGED <<name, press, withRaw>>

Settle(r) ==
    /\ stage[r] \in {"held", "sent"}
    /\ stage' = [stage EXCEPT ![r] = "settled"]
    /\ name' \in {name, [name EXCEPT ![r] = None]}
    /\ UNCHANGED <<press, withRaw>>

\* The file of a settled photograph holds a new one.
HandOver(r, s) ==
    /\ stage[r] = "settled" /\ name[r] # None
    /\ Enters(s, press[r])
    /\ name' = [name EXCEPT ![r] = None, ![s] = name[r]]
    /\ withRaw' = withRaw \cup {t \in {s} : r \in withRaw}

Next ==
    \E r \in Row :
        \/ \E n \in Name, p \in Press : TakeOn(r, n, p)
        \/ FindRaw(r)
        \/ Send(r)
        \/ Settle(r)
        \/ \E s \in Row : HandOver(r, s)

Spec == Init /\ [][Next]_table

\* No two photographs go by one name, as captures_group_idx requires (db.js).
NamesAreOnes ==
    \A r, s \in Row : r # s /\ name[r] # None => name[r] # name[s]

=============================================================================
