----------------------------- MODULE MasterData -----------------------------
(***************************************************************************)
(* What the record API promises its readers, in terms of the golden data   *)
(* alone (docs/reference.md, "miniMDM as an MDM System"): at most one      *)
(* golden value per record, no two golden records under one key, and every *)
(* golden value one that somebody submitted for that record. How drafts,   *)
(* history and states achieve it is the implementation's business.         *)
(***************************************************************************)
CONSTANTS RecordId, Data, None, Conflict(_, _), RequiresDraft

VARIABLES
  golden,     \* the golden value of each record, or None
  submitted   \* the values submitted for each record so far

master == <<golden, submitted>>

Init ==
  /\ golden = [r \in RecordId |-> None]
  /\ submitted = [r \in RecordId |-> {}]

Unclaimed(r, d) ==
  \A o \in RecordId \ {r} : golden[o] # None => ~Conflict(golden[o], d)

\* A new record that needs no approval.
Register(r, d) ==
  /\ ~RequiresDraft
  /\ submitted[r] = {}
  /\ Unclaimed(r, d)
  /\ submitted' = [submitted EXCEPT ![r] = {d}]
  /\ golden' = [golden EXCEPT ![r] = d]

\* A candidate, invisible to consumers.
Submit(r, d) ==
  /\ submitted' = [submitted EXCEPT ![r] = @ \cup {d}]
  /\ UNCHANGED golden

\* A submitted value becomes the golden one.
Approve(r, d) ==
  /\ d \in submitted[r]
  /\ Unclaimed(r, d)
  /\ golden' = [golden EXCEPT ![r] = d]
  /\ UNCHANGED submitted

\* Retired or deleted.
Withdraw(r) ==
  /\ golden[r] # None
  /\ golden' = [golden EXCEPT ![r] = None]
  /\ UNCHANGED submitted

Next ==
  \E r \in RecordId :
    \/ \E d \in Data : Register(r, d) \/ Submit(r, d) \/ Approve(r, d)
    \/ Withdraw(r)

Spec == Init /\ [][Next]_master

-----------------------------------------------------------------------------
\* What a feed does to several records in one step: it submits values, registers
\* new records and revises golden ones. It approves no candidate that was there
\* before it, and withdraws nothing.
Take ==
  /\ golden' \in [RecordId -> Data \cup {None}]
  /\ submitted' \in [RecordId -> SUBSET Data]
  /\ \A r \in RecordId : submitted[r] \subseteq submitted'[r]
  /\ \A r \in RecordId : golden'[r] # golden[r] =>
       /\ golden'[r] \in submitted'[r]
       /\ golden[r] = None => submitted[r] = {}
  /\ \A r, o \in RecordId : r # o /\ golden'[r] # None /\ golden'[o] # None =>
       ~Conflict(golden'[r], golden'[o])

FedSpec == Init /\ [][Take \/ Next]_master
=============================================================================
