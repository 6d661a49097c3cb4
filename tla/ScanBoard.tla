----------------------------- MODULE ScanBoard ------------------------------
(***************************************************************************)
(* What the scan pipeline promises to whoever looks at a pull request,     *)
(* without requests, jobs, workers, retries or crashes: each scan is       *)
(* opened once and ends at most once, its findings come with its result    *)
(* and with the switch of PullRequest.latestScanId to it, in one step.     *)
(* ScanPipeline implements it (ImplementsBoard).                           *)
(***************************************************************************)
EXTENDS Naturals

CONSTANTS Scans, NoScan

VARIABLES
    outcome,  \* of every scan
    findings, \* how many times the findings of a scan were stored
    shown     \* the scan the pull request shows

vars == <<outcome, findings, shown>>

Pending == {s \in Scans : outcome[s] = "PENDING"}

Init ==
    /\ outcome = [s \in Scans |-> "none"]
    /\ findings = [s \in Scans |-> 0]
    /\ shown = NoScan

Open(s) ==
    /\ outcome[s] = "none"
    /\ outcome' = [outcome EXCEPT ![s] = "PENDING"]
    /\ UNCHANGED <<findings, shown>>

Publish(s) ==
    /\ s \in Pending
    /\ outcome' = [outcome EXCEPT ![s] = "DONE"]
    /\ findings' = [findings EXCEPT ![s] = 1]
    /\ shown' = s

GiveUp(s) ==
    /\ s \in Pending
    /\ outcome' = [outcome EXCEPT ![s] = "FAILED"]
    /\ shown' = s
    /\ UNCHANGED findings

(* A newer request takes the place of what is pending.                     *)
Supersede ==
    \E S \in SUBSET Pending :
        /\ outcome' = [s \in Scans |-> IF s \in S THEN "SUPERSEDED"
                                       ELSE outcome[s]]
        /\ UNCHANGED <<findings, shown>>

(* A scan whose job could not be queued; it may have been superseded       *)
(* meanwhile, and the pull request goes on showing what it showed.         *)
Refuse(s) ==
    /\ outcome[s] \in {"PENDING", "SUPERSEDED"}
    /\ outcome' = [outcome EXCEPT ![s] = "FAILED"]
    /\ UNCHANGED <<findings, shown>>

Next ==
    \/ Supersede
    \/ \E s \in Scans : Open(s) \/ Publish(s) \/ GiveUp(s) \/ Refuse(s)

Spec == Init /\ [][Next]_vars
=============================================================================
