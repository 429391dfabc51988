------------------------------ MODULE Instance -------------------------------
(***************************************************************************)
(* One instance over the runs of its process: uploads are served once the  *)
(* bootstrap has come up, and go down with the process; files and rows     *)
(* survive.                                                                *)
(***************************************************************************)
EXTENDS Bootstrap, Uploads

instanceVars == <<run, step, id, rows, uploadVars>>

InstanceTypeOK ==
  /\ TypeOK /\ UploadsTypeOK
  /\ \A r \in Uploads : stage[r] \in Over \cup {"idle"} \/ step = "up"

InstanceInit == Init /\ UploadsInit

\* Before the routes are there and after the process is gone nobody is served.
Serving(action) == step = "up" /\ action /\ UNCHANGED vars

Boots == Boot /\ UNCHANGED uploadVars
GoesDown == Crash /\ Die
ComesBack == Restart /\ UNCHANGED uploadVars

InstanceNext ==
  \/ Boots \/ GoesDown \/ ComesBack
  \/ \E r \in Uploads : Serving(Upload(r))

InstanceSpec == InstanceInit /\ [][InstanceNext]_instanceVars

\* As FairSpec of Bootstrap; an upload that has been received is worked on, and a slot
\* that keeps coming free goes to each that waits, as channels queue their senders.
\* Nothing makes a client send, as the server sets no timeout (server.go:245).
InstanceFairSpec ==
  /\ InstanceSpec
  /\ WF_instanceVars(Boots) /\ WF_instanceVars(ComesBack)
  /\ \A r \in Uploads : /\ WF_instanceVars(Serving(Work(r)))
                        /\ SF_instanceVars(Serving(Acquire(r)))
=============================================================================
