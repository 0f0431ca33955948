--------------------------- MODULE PullLifecycle ---------------------------
(***************************************************************************)
(* What the pull request service promises about the status of a pull       *)
(* request: it is created as a draft or open, its author and the owner     *)
(* move it between draft, open and closed and retarget it, only an open    *)
(* one is merged, and a merged one is final.                               *)
(***************************************************************************)
CONSTANTS Prs, Names, None

VARIABLES status, \* of each pull request, "none" before it is created
          target  \* the branch it is to be merged into

lvars == <<status, target>>

LInit ==
    /\ status = [p \in Prs |-> "none"]
    /\ target = [p \in Prs |-> None]

Open(p) ==
    /\ status[p] = "none"
    /\ \E s \in {"draft", "open"}, n \in Names :
          /\ status' = [status EXCEPT ![p] = s]
          /\ target' = [target EXCEPT ![p] = n]

Change(p) ==
    /\ status[p] \in {"draft", "open", "closed"}
    /\ \E s \in {"draft", "open", "closed"}, n \in Names :
          /\ status' = [status EXCEPT ![p] = s]
          /\ target' = [target EXCEPT ![p] = n]

MarkMerged(p) ==
    /\ status[p] = "open"
    /\ status' = [status EXCEPT ![p] = "merged"]
    /\ UNCHANGED target

LNext == \E p \in Prs : Open(p) \/ Change(p) \/ MarkMerged(p)

LifecycleSpec == LInit /\ [][LNext]_lvars
=============================================================================
