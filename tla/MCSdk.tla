-------------------------------- MODULE MCSdk --------------------------------
(* The parts of the Python SDK that keep state on a host, for TLC.  They share *)
(* nothing, so a behaviour runs one of them: its states are the sum, not the   *)
(* product, of theirs.                                                         *)
EXTENDS HostWorker, MailWorker, Upgrade

CONSTANTS w1, w2, w3, d1, d2

\* Two workers on one state directory, one on another.
SharedDirs == [w \in Workers |-> IF w = w3 THEN d2 ELSE d1]

VARIABLE part

sdkVars == <<part, workerVars, mailVars, upgradeVars>>

SdkInit ==
  /\ part \in {"runs", "mail", "upgrade"}
  /\ WorkerInit /\ MailInit /\ UpgradeInit

SdkNext ==
  /\ UNCHANGED part
  /\ \/ part = "runs" /\ WorkerNext /\ UNCHANGED <<mailVars, upgradeVars>>
     \/ part = "mail" /\ MailNext /\ UNCHANGED <<workerVars, upgradeVars>>
     \/ part = "upgrade" /\ UpgradeNext /\ UNCHANGED <<workerVars, mailVars>>

SdkSpec ==
  /\ SdkInit /\ [][SdkNext]_sdkVars
  /\ \A w \in Workers : WF_workerVars(part = "runs" /\ Pass(w))
=============================================================================
